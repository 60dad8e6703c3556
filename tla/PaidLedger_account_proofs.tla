----------------------- MODULE PaidLedger_account_proofs -----------------------
(***************************************************************************)
(* The paid-pass ledger keeps the promise of AttemptAccount for every      *)
(* attempt, and so accounts for all that was spent, except on the calls    *)
(* that end short.                                                         *)
(*                                                                         *)
(* The same account of every step, added up: what a reconciled bucket      *)
(* holds and what a job has spent are sums over finite sets of attempts.   *)
(***************************************************************************)
EXTENDS PaidLedger_proofs, FiniteSetTheorems, WellFoundedInduction

Limit(a) == IF permit[a] = None THEN 0 ELSE permit[a].usd

Due(a) == IF bill[a] = None THEN 0 ELSE bill[a]

HasRow(a) == lease[a] # None \/ presumed[a] # None \/ billed[a] # None

\* What the sweep's guess is worth: the whole reservation, until evidence lowers it.
FullGuess(row, usd) == usd > 0 /\ (row.reconciled \/ row.usd = usd)

\* A guess that no charge exceeds, up to the limit.
Covers(owed, limit, due) == owed > 0 /\ owed <= limit /\ (due <= owed \/ owed = limit)

\* What a settled row says of the charge, by how the call ended.
Told(a) ==
    /\ permit[a].stage \in {"closed", "stalled", "unheard", "cut"}
    /\ permit[a].stage = "closed" =>
         Due(a) > 0 /\ billed[a].usd = Due(a) /\ ~billed[a].guess /\ ~billed[a].reconciled
    /\ permit[a].stage = "stalled" =>
         /\ billed[a].guess
         /\ billed[a].reconciled \/ Covers(billed[a].usd, permit[a].usd, Due(a))

\* The rows of an attempt against its permit and what it was charged.
Balanced(a) ==
    /\ lease[a] # None => lease[a].usd = permit[a].usd
    /\ presumed[a] # None => FullGuess(presumed[a], permit[a].usd)
    /\ billed[a] # None => Told(a)
    /\ Due(a) > 0 => permit[a].usd > 0 /\ (HasRow(a) \/ permit[a].stage = "aborted")

\* What the stage of a permit says of its rows.
Placed(a) ==
    /\ permit[a].stage = "held" => Due(a) = 0
    /\ permit[a].stage \in {"held", "launched", "sent", "dropped"} =>
         /\ billed[a] = None
         /\ permit[a].usd > 0 => lease[a] # None \/ presumed[a] # None
    /\ permit[a].stage \in {"stalled", "unheard", "cut"} => billed[a] # None
    /\ a \in Passes => /\ permit[a].stage \notin {"sent", "dropped"}
                       /\ Due(a) > 0 => ~PerRequest
    /\ a \in Requests => /\ PerRequest /\ permit[a].usd = RequestUsd
                         /\ permit[a].stage # "launched"

Sound(a) == permit[a] # None => Balanced(a) /\ Placed(a)

AccountInv == ChargeInv /\ \A a \in Attempts : Sound(a)

-------------------------------------------------------------------------------
(* The steps of an account, in the terms of the ledger.                    *)

Reservation(a) == IF a \in Requests THEN RequestUsd ELSE PassUsd

OpenPhases == {"reserved", "guessed", "lowered"}

\* An open account goes to the given phase, and nothing of it is lowered any more.
Ends(a, phase) ==
    /\ Phase(a) \in OpenPhases /\ Phase(a)' = phase
    /\ Limit(a)' = Limit(a) /\ Due(a)' = Due(a)
    /\ Reconciled(a) \/ Counted(a) = Limit(a)
    /\ ~Reconciled(a)'

\* The account of an attempt moves from its phase, limit, owed and due by one of the
\* steps of AttemptAccount that lower no guess.
Moves(a) ==
    \/ Phase(a)' = Phase(a) /\ Limit(a)' = Limit(a) /\ Counted(a)' = Counted(a) /\ Due(a)' = Due(a)
    \/ /\ Phase(a) = "unopened" /\ Phase(a)' = "reserved"
       /\ Limit(a)' = Reservation(a) /\ Counted(a)' = Limit(a)' /\ Due(a)' = Due(a)
    \/ /\ Phase(a) = "reserved" /\ Phase(a)' = "reserved"
       /\ Limit(a)' = 0 /\ Counted(a)' = 0 /\ Due(a)' = Due(a)
    \/ /\ Phase(a) \in OpenPhases \cup {"short"} /\ Due(a) = 0 /\ Due(a)' \in Bills
       /\ Phase(a)' = Phase(a) /\ Limit(a)' = Limit(a) /\ Counted(a)' = Counted(a)
       /\ Phase(a) = "guessed" => Covers(Counted(a), Limit(a), Due(a)')
    \/ Ends(a, "empty") /\ Due(a) = 0 /\ Counted(a)' = 0
    \/ Ends(a, "guessed") /\ Covers(Counted(a)', Limit(a), Due(a))
    \/ Ends(a, "measured") /\ Due(a) > 0 /\ Counted(a)' = Due(a)
    \/ Ends(a, "short") /\ Counted(a)' <= Limit(a)

\* Or the Cost API lowers its guess.
Lowers(a) ==
    /\ Phase(a) \in {"guessed", "lowered", "short"} /\ Counted(a)' < Counted(a)
    /\ Phase(a)' = IF Phase(a) = "short" THEN "short" ELSE "lowered"
    /\ Limit(a)' = Limit(a) /\ Due(a)' = Due(a)

\* What the refinement says of one attempt, before and after a step.
LEMMA AccountAt ==
    ASSUME NEW a \in Attempts
    PROVE  /\ AccountOf[a] = [phase |-> Phase(a), limit |-> Limit(a),
                              owed |-> Counted(a), due |-> Due(a)]
           /\ AccountOf'[a] = [phase |-> Phase(a)', limit |-> Limit(a)',
                               owed |-> Counted(a)', due |-> Due(a)']
<1>1. AccountOf[a] = [phase |-> Phase(a), limit |-> Limit(a),
                      owed |-> Counted(a), due |-> Due(a)]
  BY DEF AccountOf, Limit, Due, Phase, Counted, Usd, Short, Reconciled
<1>2. AccountOf'[a] = [phase |-> Phase(a)', limit |-> Limit(a)',
                       owed |-> Counted(a)', due |-> Due(a)']
  BY DEF AccountOf, Limit, Due, Phase, Counted, Usd, Short, Reconciled
<1> QED
  BY <1>1, <1>2

\* The moves of an account are steps of AttemptAccount.
LEMMA MovesAreSteps ==
    ASSUME NEW a \in Attempts, Moves(a) \/ Lowers(a)
    PROVE  Accounts!Step(a)
<1> DEFINE phase == Phase(a)
           limit == Limit(a)
           owed == Counted(a)
           due == Due(a)
<1>1. /\ AccountOf[a] = [phase |-> phase, limit |-> limit, owed |-> owed, due |-> due]
      /\ AccountOf'[a] = [phase |-> phase', limit |-> limit', owed |-> owed', due |-> due']
  BY AccountAt
<1>2. \/ phase' = phase /\ limit' = limit /\ owed' = owed /\ due' = due
      \/ phase = "unopened" /\ phase' = "reserved" /\ owed' = limit' /\ due' = due
      \/ phase = "reserved" /\ phase' = "reserved" /\ limit' = 0 /\ owed' = 0 /\ due' = due
      \/ /\ phase \in OpenPhases \cup {"short"} /\ due = 0
         /\ phase' = phase /\ limit' = limit /\ owed' = owed
         /\ phase = "guessed" => Covers(owed, limit, due')
      \/ /\ phase \in OpenPhases /\ due = 0
         /\ phase' = "empty" /\ limit' = limit /\ owed' = 0 /\ due' = due
      \/ /\ phase \in OpenPhases /\ Covers(owed', limit, due)
         /\ phase' = "guessed" /\ limit' = limit /\ due' = due
      \/ /\ phase \in OpenPhases /\ due > 0
         /\ phase' = "measured" /\ limit' = limit /\ owed' = due /\ due' = due
      \/ /\ phase \in OpenPhases /\ owed' <= limit
         /\ phase' = "short" /\ limit' = limit /\ due' = due
      \/ /\ phase \in {"guessed", "lowered", "short"} /\ owed' < owed
         /\ phase' = IF phase = "short" THEN "short" ELSE "lowered"
         /\ limit' = limit /\ due' = due
  BY DEF Moves, Ends, Lowers
<1> HIDE DEF phase, limit, owed, due
<1> USE DEF OpenPhases, Covers, Accounts!Covers, Accounts!Step, Accounts!Goes, Accounts!Open, Accounts!Reserve,
            Accounts!Shrink, Accounts!Charge, Accounts!Close, Accounts!Guess,
            Accounts!Measure, Accounts!EndShort, Accounts!Lower
<1> QED
  BY <1>1, <1>2

\* The account of every attempt stays one of AttemptAccount.
LEMMA AccountTypes ==
    ASSUME TypeInv'
    PROVE  AccountOf' \in [Attempts -> Accounts!Account]
<1>1. ASSUME NEW a \in Attempts
      PROVE  /\ Phase(a)' \in Accounts!Phases
             /\ Limit(a)' \in Nat /\ Counted(a)' \in Nat /\ Due(a)' \in Nat
  <2>1. /\ lease'[a] \in LeaseRow \cup {None} /\ billed'[a] \in Cost \cup {None}
        /\ presumed'[a] \in Cost \cup {None} /\ permit'[a] \in Permit \cup {None}
        /\ bill'[a] \in Nat \cup {None}
    BY DEF TypeInv, TypeOK
  <2>2. Phase(a)' \in Accounts!Phases
    BY DEF Phase, Accounts!Phases
  <2>3. Limit(a)' \in Nat /\ Due(a)' \in Nat
    BY <2>1 DEF Limit, Due, Permit
  <2>4. Usd(lease[a])' \in Nat /\ Usd(billed[a])' \in Nat /\ Usd(presumed[a])' \in Nat
    BY <2>1 DEF Usd, LeaseRow, Cost
  <2>5. Counted(a)' \in Nat
    BY <2>4 DEF Counted
  <2> QED
    BY <2>2, <2>3, <2>5
<1>2. AccountOf' = [a \in Attempts |-> AccountOf'[a]]
  BY DEF AccountOf, Phase, Counted, Usd, Short, Reconciled
<1>3. ASSUME NEW a \in Attempts PROVE AccountOf'[a] \in Accounts!Account
  <2>1. PICK phase \in Accounts!Phases, limit \in Nat, owed \in Nat, due \in Nat :
            /\ phase = Phase(a)' /\ limit = Limit(a)' /\ owed = Counted(a)' /\ due = Due(a)'
    BY <1>1
  <2>2. AccountOf'[a] = [phase |-> phase, limit |-> limit, owed |-> owed, due |-> due]
    BY <2>1, AccountAt
  <2> QED
    BY <2>2 DEF Accounts!Account
<1> QED
  BY <1>2, <1>3

-------------------------------------------------------------------------------
(* What can happen to the rows of one attempt.                             *)

USE DEF Attempts

\* A cost row is a row, with the amount and the standing it was given.
LEMMA CostRowTypes ==
    ASSUME NEW usd \in Nat, NEW at \in Nat, NEW guess \in BOOLEAN
    PROVE  /\ CostRow(usd, at, guess) \in Cost /\ CostRow(usd, at, guess) # None
           /\ CostRow(usd, at, guess).usd = usd
           /\ CostRow(usd, at, guess).guess = guess
           /\ CostRow(usd, at, guess).reconciled = FALSE
<1>1. CostRow(usd, at, guess) \in Cost
  BY DEF CostRow, Cost
<1>2. CostRow(usd, at, guess) # None
  BY <1>1, NullFacts
<1> QED
  BY <1>1, <1>2 DEF CostRow

\* The rows of an attempt, typed.
LEMMA RowTypes ==
    ASSUME AccountInv, NEW a \in Attempts
    PROVE  /\ lease[a] \in LeaseRow \cup {None} /\ billed[a] \in Cost \cup {None}
           /\ presumed[a] \in Cost \cup {None} /\ permit[a] \in Permit \cup {None}
           /\ bill[a] \in Nat \cup {None} /\ Due(a) \in Nat
           /\ ChargedOnce(a) /\ Sound(a)
           /\ permit[a] = None =>
                lease[a] = None /\ billed[a] = None /\ presumed[a] = None /\ bill[a] = None
BY DEF AccountInv, ChargeInv, TypeInv, TypeOK, RowsHavePermits, Due

\* Rows and charge stay; the permit may move on, to a stage that fits the rows.
LEMMA KeptBalances ==
    ASSUME AccountInv, NEW a \in Attempts,
           permit'[a] = None <=> permit[a] = None,
           permit[a] # None =>
             /\ permit'[a].usd = permit[a].usd /\ Placed(a)'
             /\ \/ permit'[a].stage = permit[a].stage
                \/ billed[a] = None /\ (HasRow(a) \/ Due(a) = 0)
             /\ Short(a)' <=> Short(a),
           Due(a)' = Due(a), billed'[a] = billed[a], presumed'[a] = presumed[a],
           lease'[a] = None <=> lease[a] = None,
           lease[a] # None => lease'[a].usd = lease[a].usd
    PROVE  Sound(a)' /\ Moves(a)
<1>1. Sound(a)'
  <2> SUFFICES ASSUME permit'[a] # None PROVE Balanced(a)'
    BY DEF Sound
  <2>1. Balanced(a) /\ permit[a] # None
    BY RowTypes DEF Sound
  <2>2. HasRow(a)' <=> HasRow(a)
    BY DEF HasRow
  <2>3. billed'[a] # None => Told(a)'
    BY <2>1 DEF Balanced, Told
  <2>4. presumed'[a] # None => FullGuess(presumed'[a], permit'[a].usd)
    BY <2>1 DEF Balanced
  <2>5. Due(a)' > 0 => permit'[a].usd > 0 /\ (HasRow(a)' \/ permit'[a].stage = "aborted")
    BY <2>1, <2>2 DEF Balanced
  <2> QED
    BY <2>1, <2>3, <2>4, <2>5 DEF Balanced
<1>2. Phase(a)' = Phase(a)
  <2>1. Reconciled(a)' <=> Reconciled(a)
    BY DEF Reconciled
  <2> QED
    BY <2>1 DEF Phase
<1>3. Limit(a)' = Limit(a) /\ Counted(a)' = Counted(a)
  BY DEF Limit, Counted, Usd
<1> QED
  BY <1>1, <1>2, <1>3 DEF Moves

\* A transaction that is not about an attempt leaves its account alone.
LEMMA UnmovedBalances ==
    ASSUME AccountInv, NEW a \in Attempts,
           lease'[a] = lease[a], billed'[a] = billed[a], presumed'[a] = presumed[a],
           permit'[a] = permit[a], bill'[a] = bill[a]
    PROVE  Sound(a)' /\ Moves(a)
<1>1. Due(a)' = Due(a)
  BY DEF Due
<1>2. permit[a] # None => Placed(a)'
  BY <1>1, RowTypes DEF Sound, Placed
<1>3. Short(a)' <=> Short(a)
  BY DEF Short
<1> QED
  BY <1>1, <1>2, <1>3, KeptBalances

\* Before its call has ended an account has one row, worth its reservation or lowered.
LEMMA OpenBalances ==
    ASSUME AccountInv, NEW a \in Attempts, permit[a] # None,
           lease[a] # None \/ presumed[a] # None
    PROVE  /\ Phase(a) \in OpenPhases /\ billed[a] = None
           /\ Reconciled(a) \/ Counted(a) = Limit(a)
           /\ lease[a] # None => Phase(a) = "reserved"
           /\ Phase(a) = "guessed" => ~Reconciled(a)
           /\ Limit(a) = permit[a].usd /\ Limit(a) \in Nat
<1>1. /\ lease[a] \in LeaseRow \cup {None} /\ presumed[a] \in Cost \cup {None}
      /\ billed[a] = None /\ (lease[a] # None => presumed[a] = None)
      /\ Balanced(a) /\ permit[a].usd \in Nat
  BY RowTypes DEF ChargedOnce, Sound, Permit
<1>2. Phase(a) \in OpenPhases /\ (Phase(a) = "guessed" => ~Reconciled(a))
  BY <1>1 DEF Phase, Short, OpenPhases
<1>3. lease[a] # None => Phase(a) = "reserved"
  BY DEF Phase
<1>4. Limit(a) = permit[a].usd /\ Limit(a) \in Nat
  BY <1>1 DEF Limit
<1>5. CASE lease[a] # None
  <2>1. Counted(a) = lease[a].usd + 0 + 0 /\ lease[a].usd = permit[a].usd
    BY <1>1, <1>5 DEF Counted, Usd, Balanced
  <2>2. Counted(a) = Limit(a)
    BY <1>4, <2>1
  <2> QED
    BY <1>1, <1>2, <1>3, <1>4, <2>2
<1>6. CASE lease[a] = None
  <2>1. Counted(a) = 0 + 0 + presumed[a].usd /\ presumed[a] \in Cost /\ presumed[a] # None
    BY <1>1, <1>6 DEF Counted, Usd
  <2>2. presumed[a].reconciled \/ presumed[a].usd = permit[a].usd
    BY <1>1, <2>1 DEF Balanced, FullGuess
  <2>3. presumed[a].reconciled => Reconciled(a)
    BY <2>1 DEF Reconciled
  <2>4. Reconciled(a) \/ Counted(a) = Limit(a)
    BY <1>4, <2>1, <2>2, <2>3
  <2> QED
    BY <1>1, <1>2, <1>3, <1>4, <2>4
<1> QED
  BY <1>5, <1>6

\* The sweep: an expired lease becomes a guess of its whole reservation, and nothing
\* where nothing was reserved.
LEMMA SweptBalances ==
    ASSUME AccountInv, NEW a \in Attempts,
           lease'[a] = PrunedLease[a], presumed'[a] = PrunedPresumed[a],
           billed'[a] = billed[a], permit'[a] = permit[a], bill'[a] = bill[a]
    PROVE  Sound(a)' /\ Moves(a)
<1>1. CASE a \notin Expired
  BY <1>1, UnmovedBalances DEF PrunedLease, PrunedPresumed
<1>2. CASE a \in Expired
  <2>1. /\ permit[a] # None /\ lease[a] \in LeaseRow /\ lease[a] # None /\ lease'[a] = None
        /\ billed[a] = None /\ presumed[a] = None /\ lease[a].usd = permit[a].usd
        /\ permit[a].usd \in Nat
    BY <1>2, RowTypes DEF Expired, PrunedLease, ChargedOnce, Sound, Balanced, Permit
  <2>2. Due(a)' = Due(a) /\ Limit(a)' = Limit(a) /\ Limit(a) = permit[a].usd
    BY <2>1 DEF Due, Limit
  <2>3. Phase(a) \in OpenPhases /\ (Reconciled(a) \/ Counted(a) = Limit(a))
    BY <2>1, OpenBalances
  <2>4. CASE permit[a].usd > 0
    <3> DEFINE row == CostRow(permit[a].usd, lease[a].acquired, TRUE)
    <3>1. presumed'[a] = row
      BY <1>2, <2>1, <2>4 DEF PrunedPresumed
    <3>2. row \in Cost /\ row # None /\ row.usd = permit[a].usd /\ row.reconciled = FALSE
      BY <2>1, CostRowTypes DEF LeaseRow
    <3> HIDE DEF row
    <3>3. presumed'[a] # None /\ presumed'[a].usd = permit[a].usd /\ ~presumed'[a].reconciled
      BY <3>1, <3>2
    <3>4. ~Reconciled(a)' /\ Phase(a)' = "guessed"
      BY <2>1, <3>3 DEF Phase, Reconciled, Short
    <3>5. Counted(a)' = Limit(a)
      BY <2>1, <2>2, <3>3 DEF Counted, Usd
    <3>6. Covers(Counted(a)', Limit(a), Due(a))
      BY <2>1, <2>2, <2>4, <3>5 DEF Covers
    <3>7. Sound(a)'
      <4>0. HasRow(a)'
        BY <3>3 DEF HasRow
      <4>1. Balanced(a)'
        BY <2>1, <2>4, <3>3, <4>0 DEF Balanced, FullGuess
      <4>2. Placed(a)'
        BY <2>1, <2>2, <3>3, RowTypes DEF Sound, Placed
      <4> QED
        BY <4>1, <4>2 DEF Sound
    <3> QED
      BY <2>2, <2>3, <3>4, <3>6, <3>7 DEF Moves, Ends
  <2>5. CASE permit[a].usd = 0
    <3>1. presumed'[a] = None
      <4>1. ~(lease[a].usd > 0)
        BY <2>1, <2>5
      <4> QED
        BY <2>1, <4>1 DEF PrunedPresumed
    <3>2. Due(a) = 0
      <4>1. ~(Due(a) > 0)
        BY <2>1, <2>5, RowTypes DEF Sound, Balanced
      <4>2. Due(a) \in Nat
        BY RowTypes
      <4> QED
        BY <4>1, <4>2
    <3>3. ~Reconciled(a)' /\ Phase(a)' \in {"empty", "short"} /\ Counted(a)' = 0
      BY <2>1, <3>1 DEF Phase, Reconciled, Counted, Usd
    <3>4. Sound(a)'
      <4>1. Balanced(a)'
        BY <2>1, <2>2, <3>1, <3>2 DEF Balanced
      <4>2. Placed(a)'
        BY <2>1, <2>2, <2>5, <3>2, RowTypes DEF Sound, Placed
      <4> QED
        BY <4>1, <4>2 DEF Sound
    <3>5. Counted(a)' <= Limit(a)
      BY <2>1, <2>2, <3>3
    <3> QED
      BY <2>2, <2>3, <3>2, <3>3, <3>4, <3>5 DEF Moves, Ends
  <2> QED
    BY <2>1, <2>4, <2>5
<1> QED
  BY <1>1, <1>2

\* acquirePaidPassLease: the account opens with its whole reservation.
LEMMA OpenedBalances ==
    ASSUME AccountInv, NEW a \in Attempts, NEW usd \in Nat, permit[a] = None,
           usd = Reservation(a), a \in Requests => PerRequest,
           permit'[a] \in Permit, permit'[a].usd = usd, permit'[a].stage = "held",
           lease'[a] = Lease(usd), presumed'[a] = PrunedPresumed[a],
           billed'[a] = billed[a], bill'[a] = bill[a]
    PROVE  Sound(a)' /\ Moves(a)
<1>1. /\ lease[a] = None /\ billed[a] = None /\ bill[a] = None
      /\ PrunedPresumed[a] = None /\ permit'[a] # None
  BY RowTypes, SweepTypes, NullFacts DEF AccountInv, ChargeInv
<1>2. Lease(usd) # None /\ lease'[a].usd = usd
  <2>1. now \in Nat /\ now + PaidTtl \in Nat
    BY LimitsAssumption DEF LimitsAssumption, AccountInv, ChargeInv, TypeInv, TypeOK
  <2>2. Lease(usd) \in LeaseRow /\ Lease(usd).usd = usd
    BY <2>1 DEF Lease, LeaseRow
  <2> QED
    BY <2>2, NullFacts
<1>3. Due(a) = 0 /\ Due(a)' = 0
  BY <1>1 DEF Due
<1>4. Phase(a) = "unopened" /\ Phase(a)' = "reserved"
  <2>1. Phase(a) = "unopened"
    BY <1>1, RowTypes DEF Phase
  <2>2. permit'[a] # None /\ lease'[a] # None /\ presumed'[a] = None /\ billed'[a] = None
    BY <1>1, <1>2
  <2>3. Phase(a)' = "reserved"
    BY <2>2 DEF Phase
  <2> QED
    BY <2>1, <2>3
<1>5. Counted(a)' = Limit(a)' /\ Limit(a)' = Reservation(a)
  BY <1>1, <1>2 DEF Counted, Usd, Limit
<1>6. Sound(a)'
  <2>1. Balanced(a)'
    BY <1>1, <1>2, <1>3 DEF Balanced, HasRow, FullGuess
  <2>2. lease'[a] # None /\ billed'[a] = None
    BY <1>1, <1>2
  <2>3. Placed(a)'
    BY <1>3, <2>2 DEF Placed, Reservation
  <2> QED
    BY <2>1, <2>3 DEF Sound
<1> QED
  BY <1>3, <1>4, <1>5, <1>6 DEF Moves

\* Where a permit stands once its call has ended.
LEMMA EndedPlaced ==
    ASSUME AccountInv, NEW a \in Attempts, permit[a] # None, permit'[a].usd = permit[a].usd,
           permit'[a].stage \in {"closed", "stalled", "unheard", "cut", "aborted"},
           permit'[a].stage \in {"stalled", "unheard", "cut"} => billed'[a] # None,
           Due(a)' = Due(a)
    PROVE  Placed(a)'
BY RowTypes DEF Sound, Placed

\* settleRequestCost and settlePaidPassLease, for a call of which the run heard: it is
\* measured, covered by a guess, or counted short.
LEMMA HeardBalances ==
    ASSUME AccountInv, NEW a \in Attempts, permit[a] # None, lease[a] # None \/ presumed[a] # None,
           NEW usd \in Nat \ {0}, NEW guess \in BOOLEAN, NEW stage, Heard(a, usd, guess, stage),
           permit'[a] \in Permit, permit'[a].usd = permit[a].usd, permit'[a].stage = stage,
           lease'[a] = None, presumed'[a] = None,
           billed'[a] = CostRow(usd, now, guess), Due(a)' = Due(a)
    PROVE  Sound(a)' /\ Moves(a)
<1>1. /\ Due(a) \in Nat /\ now \in Nat /\ permit'[a] # None /\ permit[a].usd \in Nat
      /\ permit[a].usd > 0 \/ Due(a) = 0
  <2>1. Due(a) \in Nat /\ permit[a].usd \in Nat /\ (Due(a) > 0 => permit[a].usd > 0)
    BY RowTypes DEF Sound, Balanced, Permit
  <2>2. now \in Nat
    BY DEF AccountInv, ChargeInv, TypeInv, TypeOK
  <2> QED
    BY <2>1, <2>2, NullFacts
<1>2. /\ billed'[a] # None /\ billed'[a].guess = guess /\ billed'[a].usd = usd
      /\ ~billed'[a].reconciled
  <2> DEFINE row == CostRow(usd, now, guess)
  <2>0. usd \in Nat /\ now \in Nat
    BY <1>1
  <2>3. row # None
    <3>1. row \in Cost
      BY <2>0 DEF CostRow, Cost
    <3> QED
      BY <3>1, NullFacts
  <2>4. row.usd = usd /\ row.guess = guess /\ row.reconciled = FALSE
    BY DEF CostRow
  <2>1. row # None /\ row.usd = usd /\ row.guess = guess /\ row.reconciled = FALSE
    BY <2>3, <2>4, Zenon
  <2> HIDE DEF row
  <2>2. billed'[a] = row
    BY DEF row
  <2> QED
    BY <2>1, <2>2, Zenon
<1>3. /\ Phase(a) \in OpenPhases /\ (Reconciled(a) \/ Counted(a) = Limit(a))
      /\ Limit(a) = permit[a].usd
  BY OpenBalances
<1>4. ~Reconciled(a)' /\ Limit(a)' = Limit(a)
  BY <1>1, <1>2, <1>3 DEF Reconciled, Limit
<1>5. Counted(a)' = usd
  <2>1. Counted(a)' = 0 + billed'[a].usd + 0
    BY <1>2 DEF Counted, Usd
  <2> QED
    BY <1>2, <2>1
<1>6. Placed(a)'
  <2>1. stage \in {"closed", "stalled", "unheard", "cut"}
    BY DEF Heard
  <2> QED
    BY <1>2, <2>1, EndedPlaced
<1>7. HasRow(a)'
  BY <1>2 DEF HasRow
<1>8. SUFFICES ASSUME TRUE
               PROVE  /\ Told(a)' /\ permit[a].usd > 0
                      /\ \/ Ends(a, "guessed") /\ Covers(Counted(a)', Limit(a), Due(a))
                         \/ Ends(a, "measured") /\ Due(a) > 0 /\ Counted(a)' = Due(a)
                         \/ Ends(a, "short") /\ Counted(a)' <= Limit(a)
  <2>1. Told(a)' /\ permit'[a].usd > 0 => Balanced(a)'
    BY <1>2, <1>7 DEF Balanced
  <2> QED
    BY <1>1, <1>6, <2>1 DEF Sound, Moves
<1>9. CASE stage = "closed" /\ ~guess /\ bill[a] # None /\ usd = bill[a]
  <2>1. Due(a) = usd /\ Due(a) > 0 /\ permit[a].usd > 0
    BY <1>1, <1>9 DEF Due
  <2>2. Phase(a)' = "measured"
    BY <1>1, <1>2, <1>4, <1>9 DEF Phase, Short
  <2>3. Told(a)'
    BY <1>2, <1>9, <2>1 DEF Told
  <2> QED
    BY <1>3, <1>4, <1>5, <2>1, <2>2, <2>3 DEF Ends
<1>10. CASE stage = "stalled" /\ guess /\ PresumedInFull(a, usd)
  <2>1. usd <= permit[a].usd /\ permit[a].usd > 0 /\ (Due(a) <= usd \/ usd = permit[a].usd)
    <3>1. usd <= permit[a].usd /\ (bill[a] # None => usd >= bill[a] \/ usd = permit[a].usd)
      BY <1>1, <1>10 DEF PresumedInFull
    <3>2. bill[a] # None => Due(a) = bill[a]
      BY DEF Due
    <3>3. bill[a] = None => Due(a) = 0
      BY DEF Due
    <3> QED
      BY <1>1, <3>1, <3>2, <3>3
  <2>2. Covers(usd, permit[a].usd, Due(a))
    BY <2>1 DEF Covers
  <2>3. Phase(a)' = "guessed"
    BY <1>1, <1>2, <1>4, <1>10 DEF Phase, Short
  <2>4. Told(a)'
    <3>1. Covers(billed'[a].usd, permit'[a].usd, Due(a)')
      BY <1>2, <2>2
    <3> QED
      BY <1>2, <1>10, <3>1 DEF Told
  <2> QED
    BY <1>3, <1>4, <1>5, <2>1, <2>2, <2>3, <2>4 DEF Ends
<1>11. CASE stage \in {"unheard", "cut"} /\ usd \in 1..permit[a].usd
  <2>1. Phase(a)' = "short"
    BY <1>1, <1>2, <1>11 DEF Phase, Short
  <2>2. Told(a)'
    BY <1>11 DEF Told
  <2>3. permit[a].usd > 0 /\ Counted(a)' <= Limit(a)
    BY <1>1, <1>3, <1>5, <1>11
  <2> QED
    BY <1>3, <1>4, <2>1, <2>2, <2>3 DEF Ends
<1>12. stage = "unheard" => usd \in 1..permit[a].usd
  BY <1>1 DEF Heard
<1> QED
  BY <1>9, <1>10, <1>11, <1>12 DEF Heard

\* Nothing is counted any more: nothing was charged, or the run gave the call up.
LEMMA ClosedBalances ==
    ASSUME AccountInv, NEW a \in Attempts, permit[a] # None,
           lease[a] # None \/ presumed[a] # None,
           permit'[a] \in Permit, permit'[a].usd = permit[a].usd,
           \/ permit'[a].stage = "closed" /\ Due(a) = 0
           \/ permit'[a].stage = "aborted",
           lease'[a] = None, presumed'[a] = None, billed'[a] = None, Due(a)' = Due(a)
    PROVE  Sound(a)' /\ Moves(a)
<1>1. permit'[a] # None /\ Due(a) \in Nat
  BY NullFacts, RowTypes
<1>2. /\ Phase(a) \in OpenPhases /\ (Reconciled(a) \/ Counted(a) = Limit(a))
      /\ Limit(a) = permit[a].usd /\ Limit(a) \in Nat
  BY OpenBalances
<1>3. Limit(a)' = Limit(a) /\ Counted(a)' = 0 /\ ~Reconciled(a)'
  BY <1>1, <1>2 DEF Limit, Counted, Usd, Reconciled
<1>4. /\ permit'[a].stage = "closed" => Phase(a)' = "empty"
      /\ permit'[a].stage = "aborted" => Phase(a)' = "short"
  BY <1>1, <1>3 DEF Phase, Short
<1>5. Balanced(a)'
  <2>1. Due(a) > 0 => permit[a].usd > 0
    BY RowTypes DEF Sound, Balanced
  <2> QED
    BY <1>1, <2>1 DEF Balanced
<1>6. Placed(a)'
  BY EndedPlaced
<1>7. Counted(a)' <= Limit(a)
  BY <1>2, <1>3
<1> QED
  BY <1>2, <1>3, <1>4, <1>5, <1>6, <1>7 DEF Sound, Moves, Ends

\* resizePaidPassLease: the pass gives its headroom back before it is charged.
LEMMA ResizedBalances ==
    ASSUME AccountInv, NEW a \in Passes, PerRequest, permit[a] # None, lease[a] # None,
           permit'[a] \in Permit, permit'[a].usd = 0, permit'[a].stage = permit[a].stage,
           lease'[a] \in LeaseRow, lease'[a].usd = 0,
           billed'[a] = billed[a], presumed'[a] = presumed[a], bill'[a] = bill[a]
    PROVE  Sound(a)' /\ Moves(a)
<1>1. permit'[a] # None /\ lease'[a] # None /\ billed'[a] = None /\ presumed'[a] = None
  BY RowTypes, NullFacts DEF ChargedOnce
<1>2. Due(a) = 0 /\ Due(a)' = 0
  <2>1. ~(Due(a) > 0)
    BY RowTypes DEF Sound, Placed
  <2>2. Due(a) = 0
    BY <2>1, RowTypes
  <2>3. Due(a)' = Due(a)
    BY DEF Due
  <2> QED
    BY <2>2, <2>3
<1>3. Phase(a) = "reserved" /\ Phase(a)' = "reserved"
  BY <1>1, RowTypes DEF Phase, ChargedOnce
<1>4. Limit(a)' = 0 /\ Counted(a)' = 0
  BY <1>1 DEF Limit, Counted, Usd
<1>5. Balanced(a)'
  BY <1>1, <1>2 DEF Balanced, HasRow
<1>6. Placed(a)'
  BY <1>1, <1>2, RowTypes, NamesAssumption DEF Sound, Placed, NamesAssumption
<1> QED
  BY <1>2, <1>3, <1>4, <1>5, <1>6 DEF Sound, Moves

\* The provider charges for the call: its reservation or guess stands, or it ended short.
LEMMA ChargedBalances ==
    ASSUME AccountInv, NEW a \in Attempts, NEW usd \in Bills,
           OnTheWire(a), bill[a] = None, Chargeable(a, usd),
           bill'[a] = usd, lease'[a] = lease[a], billed'[a] = billed[a],
           presumed'[a] = presumed[a], permit'[a] = permit[a]
    PROVE  Sound(a)' /\ Moves(a)
<1>1. /\ permit[a] # None /\ permit[a] \in Permit /\ Balanced(a) /\ Placed(a) /\ ChargedOnce(a)
      /\ permit[a].stage \in Stages \ {"held", "closed"}
  BY RowTypes DEF OnTheWire, Sound, Permit
<1>2. Due(a) = 0 /\ Due(a)' = usd /\ usd \in Nat
  BY NullFacts, LimitsAssumption DEF LimitsAssumption, Due
<1>3. permit[a].usd > 0 /\ permit[a].usd \in Nat
  BY <1>1, LimitsAssumption DEF LimitsAssumption, OnTheWire, Placed, Permit
<1>4. /\ Phase(a)' = Phase(a) /\ Limit(a)' = Limit(a) /\ Counted(a)' = Counted(a)
      /\ Limit(a) = permit[a].usd
  BY <1>1 DEF Phase, Short, Reconciled, Limit, Counted, Usd
<1>5. HasRow(a) \/ permit[a].stage = "aborted"
  BY <1>1, <1>3 DEF Placed, HasRow, Stages
<1>6. CASE lease[a] # None \/ presumed[a] # None
  <2>1. /\ Phase(a) \in OpenPhases /\ billed[a] = None
        /\ Phase(a) = "guessed" => Counted(a) = Limit(a)
    BY <1>1, <1>6, OpenBalances
  <2>2. Phase(a) = "guessed" => Covers(Counted(a), Limit(a), Due(a)')
    BY <1>3, <1>4, <2>1 DEF Covers
  <2>3. Moves(a)
    BY <1>2, <1>4, <2>1, <2>2 DEF Moves
  <2>4. HasRow(a)'
    BY <1>6 DEF HasRow
  <2>5. Balanced(a)'
    BY <1>1, <1>3, <2>1, <2>4 DEF Balanced
  <2>6. Placed(a)'
    BY <1>1, <1>2, NamesAssumption DEF Placed, OnTheWire, NamesAssumption
  <2> QED
    BY <2>3, <2>5, <2>6 DEF Sound
<1>7. CASE lease[a] = None /\ presumed[a] = None
  <2>1. \/ permit[a].stage \in {"unheard", "cut"} /\ billed[a] # None
        \/ permit[a].stage = "stalled" /\ billed[a] # None
        \/ permit[a].stage = "aborted" /\ billed[a] = None
    BY <1>1, <1>3, <1>5, <1>7 DEF Placed, Balanced, Told, HasRow, Stages
  <2>2. permit[a].stage \in {"unheard", "cut", "aborted"} => Phase(a) = "short"
    BY <1>1, <1>7, <2>1 DEF Phase, Short
  <2>3. permit[a].stage = "stalled" =>
          /\ Phase(a) \in {"guessed", "lowered"} /\ (Phase(a) = "guessed" <=> ~billed[a].reconciled)
          /\ Counted(a) = billed[a].usd
    <3> SUFFICES ASSUME permit[a].stage = "stalled"
                 PROVE  /\ Phase(a) \in {"guessed", "lowered"}
                        /\ Phase(a) = "guessed" <=> ~billed[a].reconciled
                        /\ Counted(a) = billed[a].usd
      OBVIOUS
    <3>1. billed[a] # None /\ billed[a].guess /\ billed[a].usd \in Nat
      BY <1>1, <2>1, RowTypes DEF Balanced, Told, Cost
    <3>2. Reconciled(a) <=> billed[a].reconciled
      BY <1>7, <3>1 DEF Reconciled
    <3>3. Phase(a) = IF Reconciled(a) THEN "lowered" ELSE "guessed"
      BY <1>1, <1>7, <3>1 DEF Phase, Short
    <3>4. Counted(a) = 0 + billed[a].usd + 0
      BY <1>7, <3>1 DEF Counted, Usd
    <3> QED
      BY <3>1, <3>2, <3>3, <3>4
  <2>4. permit[a].stage = "stalled" /\ ~billed[a].reconciled
          => Covers(billed[a].usd, permit[a].usd, usd)
    BY <1>1, <2>1 DEF Balanced, Told, Chargeable, Covers
  <2>5. Moves(a)
    <3>1. Phase(a) \in OpenPhases \cup {"short"}
      BY <2>1, <2>2, <2>3 DEF OpenPhases
    <3>2. Phase(a) = "guessed" => Covers(Counted(a), Limit(a), Due(a)')
      BY <1>2, <1>4, <2>1, <2>2, <2>3, <2>4
    <3> QED
      BY <1>2, <1>4, <3>1, <3>2 DEF Moves
  <2>6. billed[a] # None => Told(a)'
    <3>1. permit[a].stage = "stalled" => billed[a].guess
      BY <1>1, <2>1 DEF Balanced, Told
    <3> QED
      BY <1>2, <2>1, <2>4, <3>1 DEF Told
  <2>7. HasRow(a)' \/ permit[a].stage = "aborted"
    BY <1>5 DEF HasRow
  <2>8. Balanced(a)'
    BY <1>3, <1>7, <2>6, <2>7 DEF Balanced
  <2>9. Placed(a)'
    BY <1>1, <1>2, <2>1, NamesAssumption DEF Placed, OnTheWire, NamesAssumption
  <2> QED
    BY <2>5, <2>8, <2>9 DEF Sound
<1> QED
  BY <1>6, <1>7

\* The reconciliation with the Cost API makes a row of a bucket a smaller guess, or
\* leaves it alone.
LEMMA LoweredRow ==
    ASSUME NEW rows \in [Attempts -> Cost \cup {None}], NEW a \in Attempts,
           NEW from, NEW to, NEW remaining, NEW total
    PROVE  LET row == Lower(rows, from, to, remaining, total)[a]
           IN \/ row = rows[a]
              \/ /\ rows[a] # None /\ row # None /\ row.usd < rows[a].usd
                 /\ rows[a].guess /\ ~rows[a].reconciled /\ row.guess /\ row.reconciled
                 /\ row.usd \in Nat /\ rows[a].usd \in Nat
<1> DEFINE share == (rows[a].usd * remaining) \div total
           lowered == Lower(rows, from, to, remaining, total)
<1>1. CASE Guess(rows, a, from, to) /\ share \in 0..(rows[a].usd - 1)
  <2>1. /\ rows[a] \in Cost /\ rows[a] # None /\ share \in Nat /\ share < rows[a].usd
        /\ rows[a].guess /\ ~rows[a].reconciled /\ rows[a].usd \in Nat
    <3>1. rows[a] \in Cost /\ rows[a] # None
      BY <1>1 DEF Guess
    <3>2. rows[a].usd \in Nat
      BY <3>1 DEF Cost
    <3>3. share \in Nat /\ share < rows[a].usd
      <4> HIDE DEF share
      <4> QED
        BY <1>1, <3>2
    <3> QED
      BY <1>1, <3>1, <3>2, <3>3 DEF Guess
  <2>2. lowered[a] = [rows[a] EXCEPT !.usd = share, !.reconciled = TRUE]
    BY <1>1 DEF Lower
  <2> HIDE DEF share, lowered
  <2>3. lowered[a] \in Cost /\ lowered[a].usd = share /\ lowered[a].guess /\ lowered[a].reconciled
    BY <2>1, <2>2 DEF Cost
  <2>4. lowered[a] # None
    BY <2>3, NullFacts
  <2> QED
    BY <2>1, <2>3, <2>4 DEF lowered
<1>2. CASE ~(Guess(rows, a, from, to) /\ share \in 0..(rows[a].usd - 1))
  BY <1>2 DEF Lower
<1> QED
  BY <1>1, <1>2

\* A row that becomes a smaller guess, beside no other row.
LEMMA LoweredBalances ==
    ASSUME AccountInv, NEW a \in Attempts,
           NEW from, NEW to, NEW remaining, NEW total,
           billed' = Lower(billed, from, to, remaining, total),
           presumed' = Lower(presumed, from, to, remaining, total),
           lease' = lease, permit' = permit, bill' = bill
    PROVE  Sound(a)' /\ (Moves(a) \/ Lowers(a))
<1>0. billed \in [Attempts -> Cost \cup {None}] /\ presumed \in [Attempts -> Cost \cup {None}]
  BY DEF AccountInv, ChargeInv, TypeInv, TypeOK
<1>1. \/ billed'[a] = billed[a]
      \/ /\ billed[a] # None /\ billed'[a] # None /\ billed'[a].usd < billed[a].usd
         /\ billed[a].guess /\ ~billed[a].reconciled /\ billed'[a].guess /\ billed'[a].reconciled
         /\ billed'[a].usd \in Nat /\ billed[a].usd \in Nat
  BY <1>0, LoweredRow
<1>2. \/ presumed'[a] = presumed[a]
      \/ /\ presumed[a] # None /\ presumed'[a] # None /\ presumed'[a].usd < presumed[a].usd
         /\ presumed[a].guess /\ ~presumed[a].reconciled
         /\ presumed'[a].guess /\ presumed'[a].reconciled
         /\ presumed'[a].usd \in Nat /\ presumed[a].usd \in Nat
  BY <1>0, LoweredRow
<1>3. Due(a)' = Due(a) /\ Limit(a)' = Limit(a)
  BY DEF Due, Limit
<1>4. CASE billed'[a] = billed[a] /\ presumed'[a] = presumed[a]
  BY <1>4, UnmovedBalances
<1>5. CASE billed'[a] # billed[a]
  <2>1. /\ billed[a] # None /\ billed'[a] # None /\ billed'[a].usd < billed[a].usd
        /\ billed[a].guess /\ ~billed[a].reconciled /\ billed'[a].guess /\ billed'[a].reconciled
        /\ billed'[a].usd \in Nat /\ billed[a].usd \in Nat
    BY <1>1, <1>5
  <2>2. /\ lease[a] = None /\ presumed[a] = None /\ presumed'[a] = None /\ permit[a] # None
        /\ lease'[a] = None /\ permit'[a] = permit[a]
    BY <1>2, <2>1, RowTypes DEF ChargedOnce
  <2>3. permit[a].stage \in {"stalled", "unheard", "cut"}
    BY <2>1, <2>2, RowTypes DEF Sound, Balanced, Told
  <2>4. /\ Phase(a) = IF permit[a].stage = "stalled" THEN "guessed" ELSE "short"
        /\ Phase(a)' = IF permit[a].stage = "stalled" THEN "lowered" ELSE "short"
    <3>1. ~Reconciled(a) /\ Reconciled(a)'
      BY <2>1, <2>2 DEF Reconciled
    <3>2. /\ Short(a) <=> permit[a].stage # "stalled"
          /\ Short(a)' <=> permit[a].stage # "stalled"
      BY <2>1, <2>2, <2>3 DEF Short
    <3> QED
      BY <2>1, <2>2, <3>1, <3>2 DEF Phase
  <2>5. Counted(a) = 0 + billed[a].usd + 0 /\ Counted(a)' = 0 + billed'[a].usd + 0
    BY <2>1, <2>2 DEF Counted, Usd
  <2>6. Counted(a)' < Counted(a)
    BY <2>1, <2>5
  <2>7. Balanced(a)'
    <3>1. Told(a)'
      BY <2>1, <2>2, <2>3 DEF Told
    <3>2. HasRow(a)'
      BY <2>1 DEF HasRow
    <3>3. Due(a)' > 0 => permit'[a].usd > 0
      BY <1>3, <2>2, RowTypes DEF Sound, Balanced
    <3> QED
      BY <2>2, <3>1, <3>2, <3>3 DEF Balanced
  <2>8. Placed(a)'
    BY <1>3, <2>1, <2>2, RowTypes DEF Sound, Placed
  <2> QED
    BY <1>3, <2>4, <2>6, <2>7, <2>8 DEF Sound, Lowers
<1>6. CASE presumed'[a] # presumed[a]
  <2>1. /\ presumed[a] # None /\ presumed'[a] # None /\ presumed'[a].usd < presumed[a].usd
        /\ presumed[a].guess /\ ~presumed[a].reconciled
        /\ presumed'[a].guess /\ presumed'[a].reconciled
        /\ presumed'[a].usd \in Nat /\ presumed[a].usd \in Nat
    BY <1>2, <1>6
  <2>2. /\ lease[a] = None /\ billed[a] = None /\ billed'[a] = None /\ permit[a] # None
        /\ lease'[a] = None /\ permit'[a] = permit[a]
    BY <1>1, <2>1, RowTypes DEF ChargedOnce
  <2>3. Phase(a) = "guessed" /\ Phase(a)' = "lowered"
    BY <2>1, <2>2 DEF Phase, Short, Reconciled
  <2>4. Counted(a) = 0 + 0 + presumed[a].usd /\ Counted(a)' = 0 + 0 + presumed'[a].usd
    BY <2>1, <2>2 DEF Counted, Usd
  <2>5. Counted(a)' < Counted(a)
    BY <2>1, <2>4
  <2>6. Balanced(a)'
    BY <1>3, <2>1, <2>2, RowTypes DEF Sound, Balanced, HasRow, FullGuess
  <2>7. Placed(a)'
    BY <1>3, <2>1, <2>2, RowTypes DEF Sound, Placed
  <2> QED
    BY <1>3, <2>3, <2>5, <2>6, <2>7 DEF Sound, Lowers
<1> QED
  BY <1>4, <1>5, <1>6

-------------------------------------------------------------------------------
(* Every transaction moves every account by one of its steps.              *)

AllMove == \A a \in Attempts : Sound(a)' /\ Moves(a)

AllLower == \A a \in Attempts : Sound(a)' /\ (Moves(a) \/ Lowers(a))

\* The transactions on the job row, the sweeps, the clock and the end of a run.
LEMMA ClaimsMove ==
    ASSUME AccountInv,
           \/ Tick \/ ReconcileExpiredJobClaims
           \/ \E owner \in alive : RunEnds(owner)
           \/ \E j \in Jobs : \/ ClaimQueuedJob(j) \/ EndQueuedRetry(j) \/ RenewJobLease(j)
                              \/ TerminalizeClaim(j) \/ CancelJob(j) \/ RetryJob(j)
    PROVE  AllMove
<1>1. \/ UNCHANGED <<lease, billed, presumed, permit, bill>>
      \/ /\ lease' = PrunedLease /\ presumed' = PrunedPresumed
         /\ UNCHANGED <<billed, permit, bill>>
  <2>1. CASE Tick \/ \E owner \in alive : RunEnds(owner)
    BY <2>1 DEF Tick, RunEnds, dbVars, memVars
  <2>2. CASE \E j \in Jobs : \/ RenewJobLease(j) \/ TerminalizeClaim(j)
                             \/ CancelJob(j) \/ RetryJob(j)
    BY <2>2 DEF RenewJobLease, TerminalizeClaim, CancelJob, RetryJob, memVars
  <2>3. CASE ReconcileExpiredJobClaims \/ \E j \in Jobs : EndQueuedRetry(j)
    BY <2>3 DEF ReconcileExpiredJobClaims, EndQueuedRetry, memVars
  <2>4. CASE \E j \in Jobs : ClaimQueuedJob(j)
    BY <2>4, Zenon DEF ClaimQueuedJob
  <2> QED
    BY <2>1, <2>2, <2>3, <2>4
<1>2. CASE UNCHANGED <<lease, billed, presumed, permit, bill>>
  BY <1>2, UnmovedBalances DEF AllMove
<1>3. CASE /\ lease' = PrunedLease /\ presumed' = PrunedPresumed
           /\ UNCHANGED <<billed, permit, bill>>
  BY <1>3, SweptBalances DEF AllMove
<1> QED
  BY <1>1, <1>2, <1>3

\* Moving the stage of a permit keeps the rest of it, and every other permit.
LEMMA StageSet ==
    ASSUME AccountInv, NEW a \in Attempts, permit[a] # None,
           NEW stage \in Stages, permit' = [permit EXCEPT ![a].stage = stage]
    PROVE  /\ permit'[a] \in Permit /\ permit'[a] # None /\ permit'[a].stage = stage
           /\ permit'[a].usd = permit[a].usd
           /\ \A b \in Attempts : b # a => permit'[b] = permit[b]
<1>1. permit[a] \in Permit /\ permit \in [Attempts -> Permit \cup {None}]
  BY DEF AccountInv, ChargeInv, TypeInv, TypeOK
<1>2. [permit[a] EXCEPT !.stage = stage] \in Permit
  BY <1>1 DEF Permit
<1>3. permit'[a] = [permit[a] EXCEPT !.stage = stage]
  BY <1>1
<1>4. permit'[a].stage = stage /\ permit'[a].usd = permit[a].usd
  BY <1>1, <1>3 DEF Permit
<1>5. \A b \in Attempts : b # a => permit'[b] = permit[b]
  BY <1>1
<1> QED
  BY <1>2, <1>3, <1>4, <1>5, NullFacts

\* An acquisition opens one account and sweeps the others.
LEMMA AcquisitionMoves ==
    ASSUME AccountInv, NEW a \in Attempts, NEW pass \in Passes, NEW j \in Jobs,
           NEW owner \in Nat, NEW usd \in Nat, permit[a] = None,
           usd = Reservation(a), a \in Requests => PerRequest,
           AcquirePaidPassLease(a, pass, j, owner, usd)
    PROVE  AllMove
<1>1. presumed' = PrunedPresumed /\ billed' = billed /\ bill' = bill
  BY DEF AcquirePaidPassLease
<1>2. CASE lease' = PrunedLease /\ permit' = permit
  BY <1>1, <1>2, SweptBalances DEF AllMove
<1>3. CASE /\ lease' = [PrunedLease EXCEPT ![a] = Lease(usd)]
           /\ permit' = [permit EXCEPT ![a] =
                 [job |-> j, gen |-> jobs[j].gen, owner |-> owner,
                  pass |-> pass, usd |-> usd, stage |-> "held"]]
  <2> DEFINE row == [job |-> j, gen |-> jobs[j].gen, owner |-> owner,
                     pass |-> pass, usd |-> usd, stage |-> "held"]
  <2>1. row \in Permit /\ row.usd = usd /\ row.stage = "held"
    BY DEF AccountInv, ChargeInv, TypeInv, TypeOK, JobRow, Permit, Stages
  <2>2. permit' = [permit EXCEPT ![a] = row]
    BY <1>3
  <2> HIDE DEF row
  <2>3. /\ permit \in [Attempts -> Permit \cup {None}]
        /\ PrunedLease \in [Attempts -> LeaseRow \cup {None}]
    BY SweepTypes DEF AccountInv, ChargeInv, TypeInv, TypeOK
  <2>4. permit'[a] \in Permit /\ permit'[a].usd = usd /\ permit'[a].stage = "held"
    BY <2>1, <2>2, <2>3
  <2>5. lease'[a] = Lease(usd)
    BY <1>3, <2>3
  <2>6. Sound(a)' /\ Moves(a)
    BY <1>1, <2>4, <2>5, OpenedBalances
  <2>7. ASSUME NEW b \in Attempts, b # a PROVE Sound(b)' /\ Moves(b)
    <3>1. lease'[b] = PrunedLease[b] /\ permit'[b] = permit[b]
      BY <1>3, <2>2, <2>3, <2>7
    <3> QED
      BY <1>1, <3>1, SweptBalances
  <2> QED
    BY <2>6, <2>7 DEF AllMove
<1> QED
  BY <1>2, <1>3 DEF AcquirePaidPassLease

\* Only the permit of one attempt moves, to a stage that its rows allow.
LEMMA StagedMoves ==
    ASSUME AccountInv, NEW a \in Attempts, permit[a] # None,
           permit[a].stage \in {"held", "launched", "sent"},
           NEW stage \in Stages, permit' = [permit EXCEPT ![a].stage = stage], Placed(a)',
           stage \in {"unheard", "cut", "aborted"} => lease[a] # None \/ presumed[a] # None,
           UNCHANGED <<lease, billed, presumed>>,
           Due(a)' = Due(a), \A b \in Attempts : b # a => bill'[b] = bill[b]
    PROVE  AllMove
<1>1. /\ permit'[a] # None /\ permit'[a].stage = stage /\ permit'[a].usd = permit[a].usd
      /\ \A b \in Attempts : b # a => permit'[b] = permit[b]
  BY StageSet
<1>2. ~Short(a) /\ ~Short(a)'
  BY <1>1 DEF Short
<1>3. billed[a] = None /\ (HasRow(a) \/ Due(a) = 0)
  <2>1. billed[a] = None /\ (Due(a) > 0 => HasRow(a)) /\ Due(a) \in Nat
    BY RowTypes DEF Sound, Balanced, Placed
  <2> QED
    BY <2>1
<1>4. Sound(a)' /\ Moves(a)
  BY <1>1, <1>2, <1>3, KeptBalances
<1>5. ASSUME NEW b \in Attempts, b # a PROVE Sound(b)' /\ Moves(b)
  BY <1>1, <1>5, UnmovedBalances
<1> QED
  BY <1>4, <1>5 DEF AllMove

\* authorizePaidPassLaunch
LEMMA LaunchMoves ==
    ASSUME AccountInv, NEW p \in Passes, AuthorizePaidPassLaunch(p)
    PROVE  AllMove
<1>1. /\ permit[p] # None /\ permit[p].stage = "held" /\ p \in Attempts
      /\ presumed' = PrunedPresumed /\ billed' = billed /\ bill' = bill
  BY DEF AuthorizePaidPassLaunch, Running
<1>2. CASE ~(ParentLive(p) /\ LeaseLive(p))
  <2>1. lease' = PrunedLease /\ permit' = permit
    BY <1>2 DEF AuthorizePaidPassLaunch
  <2> QED
    BY <1>1, <2>1, SweptBalances DEF AllMove
<1>3. CASE ParentLive(p) /\ LeaseLive(p)
  <2>1. /\ lease' = [PrunedLease EXCEPT ![p].expires = now + PaidTtl]
        /\ permit' = [permit EXCEPT ![p].stage = "launched"]
    BY <1>3 DEF AuthorizePaidPassLaunch
  <2>2. /\ lease[p] # None /\ lease[p] \in LeaseRow /\ p \notin Expired
        /\ now \in Nat /\ now + PaidTtl \in Nat
    <3>1. lease[p] # None /\ lease[p] \in LeaseRow /\ now \in Nat
      BY <1>1, <1>3, RowTypes DEF LeaseLive, AccountInv, ChargeInv, TypeInv, TypeOK
    <3>2. p \notin Expired
      BY <1>3, <3>1 DEF LeaseLive, Expired, LeaseRow
    <3> QED
      BY <3>1, <3>2, LimitsAssumption DEF LimitsAssumption
  <2>3. PrunedLease[p] = lease[p] /\ PrunedPresumed[p] = presumed[p]
    BY <1>1, <2>2 DEF PrunedLease, PrunedPresumed
  <2>4. PrunedLease \in [Attempts -> LeaseRow \cup {None}]
    BY SweepTypes DEF AccountInv, ChargeInv
  <2>5. lease'[p] = [lease[p] EXCEPT !.expires = now + PaidTtl]
    BY <1>1, <2>1, <2>3, <2>4
  <2>6. lease'[p] # None /\ lease'[p].usd = lease[p].usd
    <3>1. lease'[p] \in LeaseRow /\ lease'[p].usd = lease[p].usd
      BY <2>2, <2>5 DEF LeaseRow
    <3> QED
      BY <3>1, NullFacts
  <2>7. /\ permit'[p] # None /\ permit'[p].stage = "launched" /\ permit'[p].usd = permit[p].usd
        /\ \A b \in Attempts : b # p => permit'[b] = permit[b]
    BY <1>1, <2>1, StageSet DEF Stages
  <2>8. Due(p)' = Due(p)
    BY <1>1 DEF Due
  <2>9. Placed(p)'
    BY <1>1, <2>3, <2>6, <2>7, <2>8, RowTypes, NamesAssumption DEF NamesAssumption, Sound, Placed
  <2>10. ~Short(p) /\ ~Short(p)' /\ billed[p] = None /\ HasRow(p)
    BY <1>1, <2>2, <2>6, RowTypes DEF Short, HasRow, Sound, Placed
  <2>11. Sound(p)' /\ Moves(p)
    BY <1>1, <2>2, <2>3, <2>6, <2>7, <2>8, <2>9, <2>10, KeptBalances
  <2>12. ASSUME NEW b \in Attempts, b # p PROVE Sound(b)' /\ Moves(b)
    <3>1. lease'[b] = PrunedLease[b]
      BY <2>1, <2>4, <2>12
    <3> QED
      BY <1>1, <2>7, <2>12, <3>1, SweptBalances
  <2> QED
    BY <2>11, <2>12 DEF AllMove
<1> QED
  BY <1>2, <1>3

\* resizePaidPassLease
LEMMA ResizeMoves ==
    ASSUME AccountInv, NEW p \in Passes, ResizePaidPassLease(p)
    PROVE  AllMove
<1>1. /\ PerRequest /\ p \in Attempts
      /\ permit[p] # None /\ permit[p] \in Permit /\ lease[p] # None /\ lease[p] \in LeaseRow
      /\ lease' = [lease EXCEPT ![p] = [lease[p] EXCEPT !.usd = 0]]
      /\ permit' = [permit EXCEPT ![p] = [permit[p] EXCEPT !.usd = 0]]
      /\ UNCHANGED <<billed, presumed, bill>>
  BY RowTypes DEF ResizePaidPassLease, Running, LeaseLive
<1>2. /\ lease \in [Attempts -> LeaseRow \cup {None}]
      /\ permit \in [Attempts -> Permit \cup {None}]
  BY DEF AccountInv, ChargeInv, TypeInv, TypeOK
<1>3. lease'[p] \in LeaseRow /\ lease'[p].usd = 0
  BY <1>1, <1>2 DEF LeaseRow
<1>4. permit'[p] \in Permit /\ permit'[p].usd = 0 /\ permit'[p].stage = permit[p].stage
  BY <1>1, <1>2 DEF Permit
<1>5. Sound(p)' /\ Moves(p)
  BY <1>1, <1>3, <1>4, ResizedBalances
<1>6. ASSUME NEW b \in Attempts, b # p PROVE Sound(b)' /\ Moves(b)
  <2>1. lease'[b] = lease[b] /\ permit'[b] = permit[b]
    BY <1>1, <1>2, <1>6
  <2> QED
    BY <1>1, <2>1, UnmovedBalances
<1> QED
  BY <1>5, <1>6 DEF AllMove

\* renewPaidPassLease
LEMMA RenewMoves ==
    ASSUME AccountInv, NEW a \in Attempts, RenewPaidPassLease(a)
    PROVE  AllMove
<1>1. /\ lease[a] # None /\ lease[a] \in LeaseRow
      /\ lease' = [lease EXCEPT ![a] = [lease[a] EXCEPT !.expires = now + PaidTtl]]
      /\ UNCHANGED <<billed, presumed, permit, bill>>
  BY RowTypes DEF RenewPaidPassLease, LeaseLive, memVars
<1>2. lease \in [Attempts -> LeaseRow \cup {None}] /\ now + PaidTtl \in Nat
  BY LimitsAssumption DEF LimitsAssumption, AccountInv, ChargeInv, TypeInv, TypeOK
<1>3. lease'[a] # None /\ lease'[a].usd = lease[a].usd
  <2>1. lease'[a] \in LeaseRow /\ lease'[a].usd = lease[a].usd
    BY <1>1, <1>2 DEF LeaseRow
  <2> QED
    BY <2>1, NullFacts
<1>4. Due(a)' = Due(a)
  BY <1>1 DEF Due
<1>5. permit[a] # None => Placed(a)'
  BY <1>1, <1>3, <1>4, RowTypes DEF Sound, Placed
<1>6. Sound(a)' /\ Moves(a)
  <2>1. ~Short(a) /\ ~Short(a)'
    BY <1>1, <1>3 DEF Short
  <2> QED
    BY <1>1, <1>3, <1>4, <1>5, <2>1, KeptBalances
<1>7. ASSUME NEW b \in Attempts, b # a PROVE Sound(b)' /\ Moves(b)
  <2>1. lease'[b] = lease[b]
    BY <1>1, <1>2, <1>7
  <2> QED
    BY <1>1, <2>1, UnmovedBalances
<1> QED
  BY <1>6, <1>7 DEF AllMove

\* releaseUnbilledPaidPassLease: nothing was charged, or the request was aborted.
LEMMA ReleaseMoves ==
    ASSUME AccountInv, NEW a \in Attempts, ReleaseUnbilledPaidPassLease(a)
    PROVE  AllMove
<1>1. /\ permit[a] # None /\ UNCHANGED <<billed, presumed>>
      /\ \E stage \in Stages :
            GivenBack(a, stage) /\ permit' = [permit EXCEPT ![a].stage = stage]
  BY DEF ReleaseUnbilledPaidPassLease, Running
<1>2. PICK stage \in Stages :
          GivenBack(a, stage) /\ permit' = [permit EXCEPT ![a].stage = stage]
  BY <1>1
<1>3. /\ permit[a].stage \in {"held", "sent"} /\ stage \in {"closed", "aborted"}
      /\ stage = "aborted" => a \in Requests
      /\ billed[a] = None
  BY <1>1, <1>2, RowTypes DEF GivenBack, Sound, Placed
<1>4. /\ Due(a)' = Due(a) /\ (stage = "closed" => Due(a) = 0)
      /\ \A b \in Attempts : b # a => bill'[b] = bill[b]
  <2>0. bill \in [Attempts -> Nat \cup {None}]
    BY DEF AccountInv, ChargeInv, TypeInv, TypeOK
  <2>1. CASE UNCHANGED bill /\ (permit[a].stage = "held" \/ stage = "aborted")
    <3>1. Due(a)' = Due(a)
      BY <2>1 DEF Due
    <3>2. permit[a].stage = "held" => Due(a) = 0
      BY <1>1, RowTypes DEF Sound, Placed
    <3> QED
      BY <2>1, <3>1, <3>2
  <2>2. CASE bill[a] \in {None, 0} /\ bill' = [bill EXCEPT ![a] = 0]
    <3>1. bill'[a] = 0 /\ \A b \in Attempts : b # a => bill'[b] = bill[b]
      BY <2>0, <2>2
    <3>2. Due(a) = 0 /\ Due(a)' = 0
      BY <2>2, <3>1 DEF Due
    <3> QED
      BY <3>1, <3>2
  <2> QED
    BY <1>2, <2>1, <2>2 DEF GivenBack
<1>5. /\ permit'[a] \in Permit /\ permit'[a] # None /\ permit'[a].stage = stage
      /\ permit'[a].usd = permit[a].usd
      /\ \A b \in Attempts : b # a => permit'[b] = permit[b]
  BY <1>1, <1>2, StageSet
<1>6. CASE UNCHANGED lease
  <2>1. Placed(a)'
    BY <1>1, <1>3, <1>4, <1>5, EndedPlaced
  <2>2. a \in Requests => lease[a] # None \/ presumed[a] # None
    BY <1>1, <1>3, RowTypes, LimitsAssumption DEF LimitsAssumption, Sound, Placed
  <2> QED
    BY <1>1, <1>2, <1>3, <1>4, <1>6, <2>1, <2>2, StagedMoves
<1>7. CASE LeaseLive(a) /\ lease' = [lease EXCEPT ![a] = None]
  <2>1. lease \in [Attempts -> LeaseRow \cup {None}] /\ lease[a] # None
    BY <1>7 DEF AccountInv, ChargeInv, TypeInv, TypeOK, LeaseLive
  <2>2. lease'[a] = None /\ \A b \in Attempts : b # a => lease'[b] = lease[b]
    BY <1>7, <2>1
  <2>3. presumed'[a] = None /\ billed'[a] = None
    BY <1>1, <1>3, <2>1, RowTypes DEF ChargedOnce
  <2>4. Sound(a)' /\ Moves(a)
    BY <1>1, <1>3, <1>4, <1>5, <2>1, <2>2, <2>3, ClosedBalances
  <2>5. ASSUME NEW b \in Attempts, b # a PROVE Sound(b)' /\ Moves(b)
    BY <1>1, <1>4, <1>5, <2>2, <2>5, UnmovedBalances
  <2> QED
    BY <2>4, <2>5 DEF AllMove
<1> QED
  BY <1>6, <1>7 DEF ReleaseUnbilledPaidPassLease

\* A pass that is not charged as a whole, or reserves nothing, is not charged at all.
LEMMA PassDue ==
    ASSUME AccountInv, NEW p \in Passes, permit[p] # None,
           PerRequest \/ ~(permit[p].usd > 0)
    PROVE  Due(p) = 0
<1>1. Due(p) \in Nat /\ ~(Due(p) > 0)
  BY RowTypes DEF Sound, Balanced, Placed
<1> QED
  BY <1>1

\* What a pass reports is what was heard of it, or it was given up, or it owes nothing.
LEMMA ReportedPass ==
    ASSUME AccountInv, NEW p \in Passes, permit[p] # None, permit[p].stage = "launched",
           NEW usd, NEW guess, NEW stage, PassReport(p, usd, guess, stage)
    PROVE  \/ /\ OnTheWire(p) /\ Heard(p, usd, guess, stage) /\ RequestsOf(p) = {}
              /\ lease[p] # None \/ presumed[p] # None
           \/ OnTheWire(p) /\ usd = 0 /\ stage = "aborted"
           \/ Due(p) = 0 /\ stage = "closed" /\ ~Billable(p, usd)
<1>1. p \notin Requests
  BY NamesAssumption DEF NamesAssumption
<1>2. ASSUME OnTheWire(p)
      PROVE  RequestsOf(p) = {} /\ (lease[p] # None \/ presumed[p] # None)
  <2>1. ~PerRequest /\ permit[p].usd > 0
    BY <1>1, <1>2 DEF OnTheWire
  <2>2. \A r \in Requests : permit[r] = None
    BY <2>1, RowTypes DEF Sound, Placed
  <2>3. lease[p] # None \/ presumed[p] # None
    BY <2>1, RowTypes DEF Sound, Placed
  <2> QED
    BY <2>2, <2>3 DEF RequestsOf
<1>3. CASE ~OnTheWire(p)
  <2>1. PerRequest \/ ~(permit[p].usd > 0)
    BY <1>1, <1>3 DEF OnTheWire
  <2>2. Due(p) = 0
    BY <2>1, PassDue
  <2>3. stage = "closed" /\ (RequestsOf(p) = {} => usd = 0)
    BY <1>3 DEF PassReport
  <2> QED
    BY <2>2, <2>3 DEF Billable
<1>4. CASE OnTheWire(p) /\ usd = 0 /\ stage = "closed" /\ bill[p] \in {None, 0}
  BY <1>4 DEF Due, Billable
<1> QED
  BY <1>2, <1>3, <1>4 DEF PassReport

\* settlePaidPassLease
LEMMA PassSettlementMoves ==
    ASSUME AccountInv, NEW p \in Passes, SettlePass(p)
    PROVE  AllMove
<1>1. p \in Attempts /\ permit[p] # None /\ permit[p].stage = "launched" /\ billed[p] = None
  BY PassSettles, RowTypes DEF Sound, Placed
<1>2. PICK usd, guess, stage :
          /\ guess \in BOOLEAN /\ stage \in Stages /\ PassReport(p, usd, guess, stage)
          /\ SettlePaidPassLease(p, usd, guess, stage)
  BY PassSettles
<1>3. CASE ~SettlementAuthority(p)
  <2>1. /\ UNCHANGED <<lease, billed, presumed, bill>>
        /\ permit' = [permit EXCEPT ![p].stage = "closed"]
    BY <1>2, <1>3 DEF SettlePaidPassLease
  <2>2. Due(p)' = Due(p)
    BY <2>1 DEF Due
  <2>3. "closed" \in Stages
    BY DEF Stages
  <2>4. permit'[p].stage = "closed" /\ permit'[p].usd = permit[p].usd
    BY <1>1, <2>1, <2>3, StageSet
  <2>5. Placed(p)'
    BY <1>1, <2>2, <2>4, EndedPlaced
  <2> QED
    BY <1>1, <2>1, <2>2, <2>3, <2>5, StagedMoves
<1>4. CASE SettlementAuthority(p)
  <2>1. /\ permit' = [permit EXCEPT ![p].stage = stage]
        /\ lease' = [lease EXCEPT ![p] = None]
        /\ presumed' = [presumed EXCEPT ![p] = None]
        /\ billed' = [billed EXCEPT ![p] =
                         IF Billable(p, usd) THEN CostRow(usd, now, guess) ELSE None]
        /\ bill' = [bill EXCEPT ![p] = IF stage = "closed" /\ @ = None THEN 0 ELSE @]
    BY <1>2, <1>4 DEF SettlePaidPassLease, DropPresumption
  <2>2. /\ lease \in [Attempts -> LeaseRow \cup {None}]
        /\ presumed \in [Attempts -> Cost \cup {None}]
        /\ billed \in [Attempts -> Cost \cup {None}]
        /\ bill \in [Attempts -> Nat \cup {None}]
    BY DEF AccountInv, ChargeInv, TypeInv, TypeOK
  <2>3. /\ permit'[p] \in Permit /\ permit'[p] # None /\ permit'[p].stage = stage
        /\ permit'[p].usd = permit[p].usd
        /\ \A b \in Attempts : b # p => permit'[b] = permit[b]
    BY <1>1, <1>2, <2>1, StageSet
  <2>4. /\ lease'[p] = None /\ presumed'[p] = None
        /\ billed'[p] = IF Billable(p, usd) THEN CostRow(usd, now, guess) ELSE None
        /\ bill'[p] = IF stage = "closed" /\ bill[p] = None THEN 0 ELSE bill[p]
    BY <1>1, <2>1, <2>2
  <2>5. Due(p)' = Due(p)
    BY <2>4 DEF Due
  <2>6. Sound(p)' /\ Moves(p)
    <3>1. CASE /\ Heard(p, usd, guess, stage) /\ RequestsOf(p) = {}
               /\ lease[p] # None \/ presumed[p] # None
      <4>1. usd \in Nat
        BY <1>1, <3>1, SettledAmounts DEF AccountInv, ChargeInv
      <4>2. CASE usd > 0
        <5>1. usd \in Nat \ {0} /\ Billable(p, usd)
          BY <3>1, <4>1, <4>2 DEF Billable
        <5>2. billed'[p] = CostRow(usd, now, guess)
          BY <2>4, <5>1
        <5> QED
          BY <1>1, <1>2, <2>3, <2>4, <2>5, <3>1, <5>1, <5>2, HeardBalances
      <4>3. CASE ~(usd > 0)
        <5>1. billed'[p] = None
          BY <2>4, <4>3 DEF Billable
        <5>2. stage = "closed" /\ Due(p) = 0
          <6>1. permit[p].usd \in Nat
            BY <1>1, RowTypes DEF Permit
          <6> QED
            BY <3>1, <4>1, <4>3, <6>1 DEF Heard, PresumedInFull, Due
        <5> QED
          BY <1>1, <2>3, <2>4, <2>5, <3>1, <5>1, <5>2, ClosedBalances
      <4> QED
        BY <4>2, <4>3
    <3>2. CASE /\ \/ OnTheWire(p) /\ usd = 0 /\ stage = "aborted"
                  \/ Due(p) = 0 /\ stage = "closed" /\ ~Billable(p, usd)
      <4>1. billed'[p] = None
        BY <2>4, <3>2 DEF Billable
      <4>2. CASE lease[p] # None \/ presumed[p] # None
        BY <1>1, <2>3, <2>4, <2>5, <3>2, <4>1, <4>2, ClosedBalances
      <4>3. CASE lease[p] = None /\ presumed[p] = None
        <5>1. stage = "closed" /\ Due(p) = 0
          <6>1. p \notin Requests
            BY NamesAssumption DEF NamesAssumption
          <6>2. ~OnTheWire(p)
            BY <1>1, <4>3, <6>1, RowTypes DEF OnTheWire, Sound, Placed
          <6> QED
            BY <3>2, <6>2
        <5>2. Placed(p)'
          BY <1>1, <2>3, <2>5, <5>1, EndedPlaced
        <5>3. ~Short(p) /\ ~Short(p)'
          BY <1>1, <2>3, <5>1 DEF Short
        <5> QED
          BY <1>1, <2>3, <2>4, <2>5, <4>1, <4>3, <5>1, <5>2, <5>3, KeptBalances
      <4> QED
        BY <4>2, <4>3
    <3> QED
      BY <1>1, <1>2, <3>1, <3>2, ReportedPass
  <2>7. ASSUME NEW b \in Attempts, b # p PROVE Sound(b)' /\ Moves(b)
    <3>1. /\ lease'[b] = lease[b] /\ presumed'[b] = presumed[b]
          /\ billed'[b] = billed[b] /\ bill'[b] = bill[b]
      BY <2>1, <2>2, <2>7
    <3> QED
      BY <2>3, <2>7, <3>1, UnmovedBalances
  <2> QED
    BY <2>6, <2>7 DEF AllMove
<1> QED
  BY <1>3, <1>4

\* settleRequestCost
LEMMA RequestSettlementMoves ==
    ASSUME AccountInv, NEW r \in Requests, SettleRequest(r)
    PROVE  AllMove
<1>1. r \in Attempts /\ permit[r] # None /\ permit[r].stage = "sent"
  BY RequestSettles
<1>2. billed[r] = None /\ (lease[r] # None \/ presumed[r] # None)
  BY <1>1, RowTypes, LimitsAssumption DEF LimitsAssumption, Sound, Placed
<1>3. PICK usd, guess, stage :
          /\ guess \in BOOLEAN /\ stage \in Stages /\ Heard(r, usd, guess, stage)
          /\ SettleRequestCost(r, usd, guess, stage)
  BY RequestSettles
<1>4. /\ lease' = [lease EXCEPT ![r] = None]
      /\ presumed' = [presumed EXCEPT ![r] = None]
      /\ billed' = [billed EXCEPT ![r] = IF usd > 0 THEN CostRow(usd, now, guess) ELSE None]
      /\ permit' = [permit EXCEPT ![r].stage = stage]
      /\ UNCHANGED bill
  BY <1>2, <1>3 DEF SettleRequestCost, DropPresumption
<1>5. /\ permit'[r] \in Permit /\ permit'[r] # None /\ permit'[r].stage = stage
      /\ permit'[r].usd = permit[r].usd
      /\ \A b \in Attempts : b # r => permit'[b] = permit[b]
  BY <1>1, <1>3, <1>4, StageSet
<1>6. /\ lease \in [Attempts -> LeaseRow \cup {None}]
      /\ presumed \in [Attempts -> Cost \cup {None}]
      /\ billed \in [Attempts -> Cost \cup {None}]
  BY DEF AccountInv, ChargeInv, TypeInv, TypeOK
<1>7. /\ lease'[r] = None /\ presumed'[r] = None
      /\ billed'[r] = IF usd > 0 THEN CostRow(usd, now, guess) ELSE None
  BY <1>1, <1>4, <1>6
<1>8. Due(r)' = Due(r)
  BY <1>4 DEF Due
<1>9. Sound(r)' /\ Moves(r)
  <2>1. usd \in Nat
    BY <1>1, <1>3, SettledAmounts DEF AccountInv, ChargeInv
  <2>2. CASE usd > 0
    <3>1. usd \in Nat \ {0} /\ billed'[r] = CostRow(usd, now, guess)
      BY <1>7, <2>1, <2>2
    <3> QED
      BY <1>1, <1>2, <1>3, <1>5, <1>7, <1>8, <3>1, HeardBalances
  <2>3. CASE ~(usd > 0)
    <3>1. stage = "closed" /\ Due(r) = 0
      <4>1. permit[r].usd \in Nat
        BY <1>1, RowTypes DEF Permit
      <4> QED
        BY <1>3, <2>1, <2>3, <4>1 DEF Heard, PresumedInFull, Due
    <3> QED
      BY <1>1, <1>2, <1>5, <1>7, <1>8, <2>3, <3>1, ClosedBalances
  <2> QED
    BY <2>2, <2>3
<1>10. ASSUME NEW b \in Attempts, b # r PROVE Sound(b)' /\ Moves(b)
  <2>1. lease'[b] = lease[b] /\ presumed'[b] = presumed[b] /\ billed'[b] = billed[b]
    BY <1>4, <1>6, <1>10
  <2> QED
    BY <1>4, <1>5, <1>10, <2>1, UnmovedBalances
<1> QED
  BY <1>9, <1>10 DEF AllMove

\* The rest of a request's life, the provider's charge and the Cost API.
LEMMA RequestsMove ==
    ASSUME AccountInv,
           \/ \E r \in Requests : SendRequest(r) \/ DropRequest(r)
           \/ \E a \in Attempts : \E usd \in Bills : ProviderBills(a, usd)
    PROVE  AllMove
<1>1. ASSUME NEW r \in Requests, SendRequest(r) \/ DropRequest(r) PROVE AllMove
  <2>1. PICK stage \in {"sent", "dropped"} \cap Stages : permit' = [permit EXCEPT ![r].stage = stage]
    BY <1>1 DEF SendRequest, DropRequest, Stages
  <2>2. /\ r \in Attempts /\ permit[r] # None /\ permit[r].stage \in {"held", "sent"}
        /\ UNCHANGED <<lease, billed, presumed, bill>>
    BY <1>1 DEF SendRequest, DropRequest, Running, dbVars
  <2>3. Due(r)' = Due(r)
    BY <2>2 DEF Due
  <2>4. permit'[r].stage = stage /\ permit'[r].usd = permit[r].usd
    BY <2>1, <2>2, StageSet
  <2>5. Placed(r)'
    BY <2>2, <2>3, <2>4, RowTypes, NamesAssumption DEF NamesAssumption, Sound, Placed
  <2> QED
    BY <2>1, <2>2, <2>3, <2>5, StagedMoves
<1>2. ASSUME NEW a \in Attempts, NEW usd \in Bills, ProviderBills(a, usd) PROVE AllMove
  <2>1. /\ OnTheWire(a) /\ bill[a] = None /\ Chargeable(a, usd)
        /\ bill' = [bill EXCEPT ![a] = usd]
        /\ UNCHANGED <<lease, billed, presumed, permit>>
    BY <1>2 DEF ProviderBills, dbVars, memVars
  <2>2. bill'[a] = usd /\ \A b \in Attempts : b # a => bill'[b] = bill[b]
    BY <2>1 DEF AccountInv, ChargeInv, TypeInv, TypeOK
  <2>3. Sound(a)' /\ Moves(a)
    BY <2>1, <2>2, ChargedBalances
  <2>4. ASSUME NEW b \in Attempts, b # a PROVE Sound(b)' /\ Moves(b)
    BY <2>1, <2>2, <2>4, UnmovedBalances
  <2> QED
    BY <2>3, <2>4 DEF AllMove
<1> QED
  BY <1>1, <1>2

\* Reconciliation lowers guesses and moves no other account.
LEMMA ReconciliationLowers ==
    ASSUME AccountInv, NEW from, NEW to, NEW reported, ReconcilePresumedCosts(from, to, reported)
    PROVE  AllLower
<1>1. PICK remaining, total : /\ billed' = Lower(billed, from, to, remaining, total)
                              /\ presumed' = Lower(presumed, from, to, remaining, total)
  BY Zenon DEF ReconcilePresumedCosts
<1>2. UNCHANGED <<lease, permit, bill>>
  BY DEF ReconcilePresumedCosts, memVars
<1> QED
  BY <1>1, <1>2, LoweredBalances DEF AllLower

\* A step moves the accounts, or is the Cost API's.
Reconciles == \E from \in 0..now, reported \in Reports :
                  ReconcilePresumedCosts(from, now + 1, reported)

\* Every step keeps the invariant and moves every account by a step of its life.
LEMMA AccountMoves ==
    ASSUME AccountInv, [Next]_vars
    PROVE  AccountInv' /\ (AllMove \/ (Reconciles /\ AllLower))
<1>1. ChargeInv'
  BY ChargePreserved DEF AccountInv
<1>2. CASE UNCHANGED vars
  <2>1. UNCHANGED <<lease, billed, presumed, permit, bill>>
    BY <1>2 DEF vars, dbVars, memVars
  <2>2. AllMove
    BY <2>1, UnmovedBalances DEF AllMove
  <2> QED
    BY <1>1, <2>2 DEF AccountInv, AllMove
<1>3. CASE Next
  <2>1. ASSUME NEW p \in Passes, NEW j \in Jobs, AcquirePass(p, j) PROVE AllMove
    <3>1. /\ permit[p] = None /\ p \in Attempts /\ p \notin Requests
          /\ jobs[j].owner \in Nat /\ PassUsd \in Nat
          /\ AcquirePaidPassLease(p, p, j, jobs[j].owner, PassUsd)
      BY <2>1, LimitsAssumption, NamesAssumption
         DEF LimitsAssumption, NamesAssumption, AcquirePass, AccountInv, ChargeInv, TypeInv,
             TypeOK, JobRow
    <3>2. PassUsd = Reservation(p)
      BY <3>1 DEF Reservation
    <3> QED
      BY <3>1, <3>2, AcquisitionMoves
  <2>2. ASSUME NEW p \in Passes, NEW r \in Requests, AcquireRequest(r, p) PROVE AllMove
    <3>1. /\ permit[r] = None /\ r \in Attempts /\ PerRequest /\ RequestUsd \in Nat
          /\ permit[p] # None
          /\ AcquirePaidPassLease(r, p, permit[p].job, permit[p].owner, RequestUsd)
      BY <2>2, LimitsAssumption DEF LimitsAssumption, AcquireRequest, Running
    <3>2. permit[p].job \in Jobs /\ permit[p].owner \in Nat
      BY <3>1, RowTypes DEF Permit
    <3>3. RequestUsd = Reservation(r)
      BY DEF Reservation
    <3> QED
      BY <3>1, <3>2, <3>3, AcquisitionMoves
  <2>3. Reconciles => AllLower
    BY ReconciliationLowers DEF Reconciles
  <2>4. AllMove \/ Reconciles
    BY <1>3, <2>1, <2>2, ClaimsMove, LaunchMoves, ResizeMoves, RenewMoves, ReleaseMoves,
       PassSettlementMoves, RequestSettlementMoves, RequestsMove DEF Next, Reconciles
  <2> QED
    BY <1>1, <2>3, <2>4 DEF AccountInv, AllMove, AllLower
<1> QED
  BY <1>2, <1>3

\* At first every account is unopened.
LEMMA AccountsOpen == Init => AccountInv /\ Accounts!Init
<1> SUFFICES ASSUME Init PROVE AccountInv /\ Accounts!Init
  OBVIOUS
<1>1. ChargeInv
  BY InitTyped DEF ChargeInv, ChargedOnce, Init
<1>2. ASSUME NEW a \in Attempts
      PROVE  /\ lease[a] = None /\ billed[a] = None /\ presumed[a] = None
             /\ permit[a] = None /\ bill[a] = None
  BY DEF Init
<1>3. AccountInv
  BY <1>1, <1>2 DEF AccountInv, Sound
<1>4. AccountOf = [a \in Attempts |-> [phase |-> "unopened", limit |-> 0, owed |-> 0, due |-> 0]]
  BY <1>2 DEF AccountOf, Phase, Counted, Usd, Short, Reconciled
<1> QED
  BY <1>3, <1>4 DEF Accounts!Init

\* What was charged is counted, in full or up to the reservation, unless the call ended
\* short.
LEMMA BalancedCounts ==
    ASSUME AccountInv
    PROVE  SpendAccounted
<1> SUFFICES ASSUME NEW a \in Acquired, bill[a] # None, ~Reconciled(a), ~Short(a)
             PROVE  Counted(a) >= bill[a] \/ Counted(a) >= permit[a].usd
  BY DEF SpendAccounted
<1>1. /\ a \in Attempts /\ permit[a] # None /\ bill[a] \in Nat /\ Due(a) = bill[a]
      /\ permit[a].usd \in Nat
  BY RowTypes DEF Acquired, Due, Permit
<1>2. Balanced(a) /\ ChargedOnce(a)
  BY <1>1, RowTypes DEF Sound
<1>3. CASE lease[a] # None \/ presumed[a] # None
  <2>1. Counted(a) = permit[a].usd
    BY <1>1, <1>3, OpenBalances
  <2> QED
    BY <1>1, <2>1
<1>4. CASE billed[a] # None
  <2>1. Counted(a) = 0 + billed[a].usd + 0 /\ billed[a].usd \in Nat
    BY <1>1, <1>2, <1>4, RowTypes DEF Counted, Usd, ChargedOnce, Cost
  <2>2. permit[a].stage \in {"closed", "stalled"} /\ ~billed[a].reconciled
    BY <1>2, <1>4 DEF Balanced, Told, Short, ChargedOnce, Reconciled
  <2>3. \/ billed[a].usd = Due(a)
        \/ billed[a].usd <= permit[a].usd /\ (Due(a) <= billed[a].usd \/ billed[a].usd = permit[a].usd)
    BY <1>2, <1>4, <2>2 DEF Balanced, Told, Covers
  <2> QED
    BY <1>1, <2>1, <2>3
<1>5. CASE ~HasRow(a)
  <2>1. Counted(a) = 0 + 0 + 0
    BY <1>5 DEF HasRow, Counted, Usd
  <2>2. ~(bill[a] > 0)
    BY <1>1, <1>2, <1>5 DEF Balanced, HasRow, Short
  <2> QED
    BY <1>1, <2>1, <2>2
<1> QED
  BY <1>3, <1>4, <1>5 DEF HasRow

\* What the provider charged for an attempt stays reserved, presumed or recorded, up to
\* its reservation, until the Cost API lowers it: no order of sweeps, late settlements,
\* stale runs and crashes forgets money (presumeExpiredPaidLeasesInTransaction,
\* settleRequestCost, settlePaidPassLease, releaseUnbilledPaidPassLease), except on the
\* three endings of a call that Short names.
THEOREM SpendIsAccounted == Spec => []SpendAccounted
<1>1. AccountInv /\ [Next]_vars => AccountInv'
  BY AccountMoves
<1>2. Spec => []AccountInv
  BY <1>1, AccountsOpen, PTL DEF Spec
<1> QED
  BY <1>2, BalancedCounts, PTL

\* The ledger implements AttemptAccount: each of its transactions moves every attempt's
\* account by one step of the account's life, or not at all; calls that end short have a
\* phase of their own there.
THEOREM LedgerKeepsAccounts == Spec => AccountsKept
<1>1. AccountInv /\ [Next]_vars => AccountInv'
  BY AccountMoves
<1>2. Spec => []AccountInv
  BY <1>1, AccountsOpen, PTL DEF Spec
<1>3. AccountInv /\ AccountInv' /\ [Next]_vars => [Accounts!Next]_AccountOf
  <2> SUFFICES ASSUME AccountInv, AccountInv', [Next]_vars
               PROVE  Accounts!Next
    OBVIOUS
  <2>1. AccountOf' \in [Attempts -> Accounts!Account]
    BY AccountTypes DEF AccountInv, ChargeInv
  <2>2. \A a \in Attempts : Accounts!Step(a)
    BY AccountMoves, MovesAreSteps DEF AllMove, AllLower
  <2> QED
    BY <2>1, <2>2 DEF Accounts!Next
<1> QED
  BY <1>2, <1>3, AccountsOpen, PTL DEF Spec, AccountsKept, Accounts!Spec

-------------------------------------------------------------------------------
(* Sums of rows over finite sets.  The library's induction theorems take an *)
(* operator; what follows rests on well-foundedness alone, and does         *)
(* induction as the choice of a least counterexample.                       *)

\* Every set of naturals that is not empty has a least element.
LEMMA LeastNatural ==
    ASSUME NEW T, T \subseteq Nat, T # {}
    PROVE  \E n \in T : \A m \in T : n <= m
<1> DEFINE R == {ss \in Nat \X Nat : ss[1] < ss[2]}
<1>1. IsWellFoundedOn(R, Nat)
  BY NatLessThanWellFounded DEF OpToRel
<1> HIDE DEF R
<1>2. PICK n \in T : \A m \in T : ~(<<m, n>> \in R)
  BY <1>1, WFMin
<1>3. \A m \in T : ~(m < n)
  BY <1>2 DEF R
<1> QED
  BY <1>3

\* Among subsets of a finite set there is a smallest counterexample.
LEMMA LeastSubset ==
    ASSUME NEW S, IsFiniteSet(S), NEW B, B \subseteq SUBSET S, B # {}
    PROVE  \E T \in B : \A U \in B : U \subseteq T => U = T
<1> DEFINE N == {Cardinality(T) : T \in B}
<1>1. \A T \in SUBSET S : IsFiniteSet(T) /\ Cardinality(T) \in Nat
  BY FS_Subset, FS_CardinalityType
<1>2. N \subseteq Nat /\ N # {}
  BY <1>1
<1>3. PICK n \in N : \A m \in N : n <= m
  <2> HIDE DEF N
  <2> QED
    BY <1>2, LeastNatural
<1>4. PICK T \in B : Cardinality(T) = n
  BY <1>3
<1>5. ASSUME NEW U \in B, U \subseteq T
      PROVE  U = T
  <2>1. Cardinality(T) <= Cardinality(U)
    BY <1>3, <1>4
  <2>2. IsFiniteSet(T) /\ Cardinality(T) \in Nat /\ Cardinality(U) \in Nat
    BY <1>1
  <2>3. U # T => Cardinality(U) < Cardinality(T)
    BY <1>5, <2>2, FS_Subset
  <2> QED
    BY <2>1, <2>2, <2>3
<1> QED
  BY <1>4, <1>5

\* What holds of nothing, and of s whenever it holds of s without one of its
\* elements, holds of S.
LEMMA FiniteInduction ==
    ASSUME NEW S, IsFiniteSet(S), NEW Good, {} \in Good,
           \A s \in SUBSET S : s # {} /\ (\A x \in s : s \ {x} \in Good) => s \in Good
    PROVE  S \in Good
<1> DEFINE Bad == {s \in SUBSET S : s \notin Good}
<1>1. Bad = {}
  <2> SUFFICES ASSUME Bad # {} PROVE FALSE
    OBVIOUS
  <2>1. PICK s \in Bad : \A u \in Bad : u \subseteq s => u = s
    <3>1. Bad \subseteq SUBSET S
      OBVIOUS
    <3> HIDE DEF Bad
    <3> QED
      BY <3>1, LeastSubset
  <2>2. ASSUME NEW x \in s PROVE s \ {x} \in Good
    BY <2>1
  <2> QED
    BY <2>2
<1> QED
  BY <1>1

Pick(s) == CHOOSE x \in s : TRUE

\* g sums w over each of the subsets of S in D.
Summing(g, w, D) ==
    g = [s \in D |-> IF s = {} THEN 0 ELSE w[Pick(s)] + g[s \ {Pick(s)}]]

Sums(g, w, S) == Summing(g, w, SUBSET S)

UpTo(S, n) == {s \in SUBSET S : Cardinality(s) <= n}

\* A set without its picked element is smaller by one.
LEMMA PickedOff ==
    ASSUME NEW s, IsFiniteSet(s), s # {}
    PROVE  /\ Pick(s) \in s /\ IsFiniteSet(s \ {Pick(s)})
           /\ Cardinality(s \ {Pick(s)}) = Cardinality(s) - 1
           /\ Cardinality(s) \in Nat \ {0}
<1>1. Pick(s) \in s
  BY DEF Pick
<1> QED
  BY <1>1, FS_RemoveElement, FS_CardinalityType, FS_EmptySet

\* Summing a set needs the sums of smaller sets only.
LEMMA SmallerSubset ==
    ASSUME NEW S, IsFiniteSet(S), NEW n \in Nat, NEW s \in UpTo(S, n + 1)
    PROVE  /\ s # {} => s \ {Pick(s)} \in UpTo(S, n)
           /\ s # {} => s \ {Pick(s)} \in UpTo(S, n + 1)
<1>1. IsFiniteSet(s) /\ Cardinality(s) \in Nat /\ Cardinality(s) <= n + 1
  BY FS_Subset, FS_CardinalityType DEF UpTo
<1>2. ASSUME s # {}
      PROVE  s \ {Pick(s)} \in SUBSET S /\ Cardinality(s \ {Pick(s)}) <= n
  <2>1. Cardinality(s \ {Pick(s)}) = Cardinality(s) - 1
    BY <1>1, <1>2, PickedOff
  <2>2. s \ {Pick(s)} \in SUBSET S
    BY DEF UpTo
  <2> QED
    BY <1>1, <2>1, <2>2
<1>3. ASSUME NEW k, k \in SUBSET S, Cardinality(k) <= n
      PROVE  k \in UpTo(S, n) /\ k \in UpTo(S, n + 1)
  <2>1. IsFiniteSet(k)
    BY <1>3, FS_Subset
  <2>2. Cardinality(k) \in Nat
    BY <2>1, FS_CardinalityType
  <2> QED
    BY <1>3, <2>2 DEF UpTo
<1> QED
  BY <1>2, <1>3

\* A sum over the subsets of up to n elements extends to those of n + 1.
LEMMA SummingGrows ==
    ASSUME NEW w, NEW S, IsFiniteSet(S), NEW n \in Nat, NEW g, Summing(g, w, UpTo(S, n))
    PROVE  \E h : Summing(h, w, UpTo(S, n + 1))
<1> DEFINE body(k, s) == IF s = {} THEN 0 ELSE w[Pick(s)] + k[s \ {Pick(s)}]
           h == [s \in UpTo(S, n + 1) |-> IF s \in UpTo(S, n) THEN g[s] ELSE body(g, s)]
<1>4. \A s \in UpTo(S, n) : g[s] = body(g, s)
  BY DEF Summing
<1>5. \A s \in UpTo(S, n + 1) : h[s] = body(g, s)
  <2> HIDE DEF body
  <2> QED
    BY <1>4
<1>6. \A s \in UpTo(S, n + 1) : s # {} => h[s \ {Pick(s)}] = g[s \ {Pick(s)}]
  <2> HIDE DEF body
  <2> QED
    BY SmallerSubset
<1>7. \A s \in UpTo(S, n + 1) : h[s] = body(h, s)
  <2> HIDE DEF h
  <2> QED
    BY <1>5, <1>6
<1>8. h = [s \in UpTo(S, n + 1) |-> body(h, s)]
  <2>1. h = [s \in UpTo(S, n + 1) |-> h[s]]
    OBVIOUS
  <2> HIDE DEF h, body
  <2> QED
    BY <1>7, <2>1
<1> QED
  <2> HIDE DEF h
  <2> QED
    BY <1>8 DEF Summing

\* There is a sum over all the subsets of a finite set.
LEMMA SumExists ==
    ASSUME NEW w, NEW S, IsFiniteSet(S)
    PROVE  \E g : Sums(g, w, S)
<1> DEFINE Bad == {n \in Nat : ~\E g : Summing(g, w, UpTo(S, n))}
<1>1. 0 \notin Bad
  <2> DEFINE g == [s \in UpTo(S, 0) |-> 0]
  <2>1. \A s \in UpTo(S, 0) : s = {}
    <3> SUFFICES ASSUME NEW s \in UpTo(S, 0), s # {} PROVE FALSE
      OBVIOUS
    <3>1. IsFiniteSet(s) /\ Cardinality(s) <= 0
      BY FS_Subset DEF UpTo
    <3>2. Cardinality(s) \in Nat \ {0}
      BY <3>1, PickedOff
    <3> QED
      BY <3>1, <3>2
  <2>2. Summing(g, w, UpTo(S, 0))
    BY <2>1 DEF Summing
  <2> QED
    BY <2>2
<1>2. Bad = {}
  <2> SUFFICES ASSUME Bad # {} PROVE FALSE
    OBVIOUS
  <2>1. PICK m \in Bad : \A k \in Bad : m <= k
    <3>1. Bad \subseteq Nat /\ Bad # {}
      OBVIOUS
    <3> HIDE DEF Bad
    <3> QED
      BY <3>1, LeastNatural
  <2>2. m \in Nat /\ m # 0
    BY <1>1
  <2>3. m - 1 \in Nat /\ m - 1 \notin Bad /\ (m - 1) + 1 = m
    <3> HIDE DEF Bad
    <3> QED
      BY <2>1, <2>2
  <2>4. PICK g : Summing(g, w, UpTo(S, m - 1))
    BY <2>3
  <2>5. \E h : Summing(h, w, UpTo(S, (m - 1) + 1))
    BY <2>3, <2>4, SummingGrows
  <2> QED
    BY <2>3, <2>5
<1>3. PICK g : Summing(g, w, UpTo(S, Cardinality(S)))
  BY <1>2, FS_CardinalityType
<1>4. UpTo(S, Cardinality(S)) = SUBSET S
  BY FS_Subset DEF UpTo
<1> QED
  BY <1>3, <1>4 DEF Sums

\* Two sums agree wherever both are defined.
LEMMA SumIsUnique ==
    ASSUME NEW w, NEW v, NEW S, IsFiniteSet(S), NEW T \in SUBSET S, \A x \in T : w[x] = v[x],
           NEW g, Sums(g, w, S), NEW h, Sums(h, v, T)
    PROVE  g[T] = h[T]
<1> DEFINE Good == {s \in SUBSET T : g[s] = h[s]}
<1>1. \A s \in SUBSET T : g[s] = IF s = {} THEN 0 ELSE w[Pick(s)] + g[s \ {Pick(s)}]
  BY DEF Sums, Summing
<1>2. \A s \in SUBSET T : h[s] = IF s = {} THEN 0 ELSE v[Pick(s)] + h[s \ {Pick(s)}]
  BY DEF Sums, Summing
<1>3. {} \in Good
  BY <1>1, <1>2
<1>4. ASSUME NEW s \in SUBSET T, s # {}, \A x \in s : s \ {x} \in Good
      PROVE  s \in Good
  <2>1. Pick(s) \in s
    BY <1>4 DEF Pick
  <2> QED
    BY <1>1, <1>2, <1>4, <2>1
<1>5. IsFiniteSet(T)
  BY FS_Subset
<1> HIDE DEF Good
<1>6. T \in Good
  BY <1>3, <1>4, <1>5, FiniteInduction
<1> QED
  BY <1>6 DEF Good

Sum(w, S) == CHOOSE v : \E g : Sums(g, w, S) /\ v = g[S]

\* Any function that sums over the subsets of S gives the sum of S.
LEMMA SumOf ==
    ASSUME NEW w, NEW S, IsFiniteSet(S), NEW g, Sums(g, w, S)
    PROVE  Sum(w, S) = g[S]
<1>1. \E v : \E h : Sums(h, w, S) /\ v = h[S]
  OBVIOUS
<1>2. \E h : Sums(h, w, S) /\ Sum(w, S) = h[S]
  BY <1>1 DEF Sum
<1> QED
  BY <1>2, SumIsUnique

\* The ledger's TotalUsd is the sum of what the rows are worth.
LEMMA TotalIsSum ==
    ASSUME NEW rows, NEW S, IsFiniteSet(S), NEW w, \A x \in S : w[x] = Usd(rows[x])
    PROVE  TotalUsd(rows, S) = Sum(w, S)
<1> DEFINE P(g) == g = [s \in SUBSET S |->
                          IF s = {} THEN 0 ELSE Usd(rows[Pick(s)]) + g[s \ {Pick(s)}]]
<1>1. TotalUsd(rows, S) = (CHOOSE g : P(g))[S]
  BY DEF TotalUsd, MapThenSumSet, MapThenFoldSet, Pick
<1>2. \A s \in SUBSET S : s # {} => Pick(s) \in S
  BY DEF Pick
<1>3. ASSUME NEW g PROVE Sums(g, w, S) <=> P(g)
  <2>1. [s \in SUBSET S |-> IF s = {} THEN 0 ELSE Usd(rows[Pick(s)]) + g[s \ {Pick(s)}]]
        = [s \in SUBSET S |-> IF s = {} THEN 0 ELSE w[Pick(s)] + g[s \ {Pick(s)}]]
    BY <1>2
  <2> QED
    BY <2>1 DEF Sums, Summing
<1>4. \E g : P(g)
  BY <1>3, SumExists
<1>5. P(CHOOSE g : P(g))
  <2> HIDE DEF P
  <2> QED
    BY <1>4
<1> QED
  <2> HIDE DEF P
  <2> QED
    BY <1>1, <1>3, <1>5, SumOf

\* Nothing sums to zero.
LEMMA SumOfNone == ASSUME NEW w PROVE Sum(w, {}) = 0
<1>1. IsFiniteSet({})
  BY FS_EmptySet
<1>2. PICK g : Sums(g, w, {})
  BY <1>1, SumExists
<1>3. g[{}] = 0
  BY <1>2 DEF Sums, Summing
<1> QED
  BY <1>1, <1>2, <1>3, SumOf

\* A sum is its picked element and the sum of the rest.
LEMMA SumPicks ==
    ASSUME NEW w, NEW S, IsFiniteSet(S), S # {}
    PROVE  Sum(w, S) = w[Pick(S)] + Sum(w, S \ {Pick(S)})
<1> DEFINE T == S \ {Pick(S)}
<1>1. T \in SUBSET S /\ IsFiniteSet(T)
  BY FS_Subset
<1>2. PICK g : Sums(g, w, S)
  BY SumExists
<1>3. PICK h : Sums(h, w, T)
  BY <1>1, SumExists
<1>4. g[T] = h[T]
  BY <1>1, <1>2, <1>3, SumIsUnique
<1>5. g[S] = w[Pick(S)] + g[T]
  BY <1>2 DEF Sums, Summing
<1> QED
  BY <1>1, <1>2, <1>3, <1>4, <1>5, SumOf
\* Naturals sum to a natural.
LEMMA SumIsNatural ==
    ASSUME NEW S, IsFiniteSet(S), NEW w, \A x \in S : w[x] \in Nat
    PROVE  Sum(w, S) \in Nat
<1> DEFINE Good == {s \in SUBSET S : Sum(w, s) \in Nat}
<1>1. {} \in Good
  BY SumOfNone
<1>2. ASSUME NEW s \in SUBSET S, s # {}, \A x \in s : s \ {x} \in Good
      PROVE  s \in Good
  <2>1. IsFiniteSet(s)
    BY FS_Subset
  <2>2. Pick(s) \in s /\ Sum(w, s) = w[Pick(s)] + Sum(w, s \ {Pick(s)})
    BY <1>2, <2>1, SumPicks, PickedOff
  <2> QED
    BY <1>2, <2>2
<1> HIDE DEF Good
<1>3. S \in Good
  BY <1>1, <1>2, FiniteInduction
<1> QED
  BY <1>3 DEF Good

\* A sum may leave out any one element first.
LEMMA SumLeavesOut ==
    ASSUME NEW S, IsFiniteSet(S), NEW w, \A x \in S : w[x] \in Nat, NEW y \in S
    PROVE  Sum(w, S) = w[y] + Sum(w, S \ {y})
<1> DEFINE Good == {s \in SUBSET S : \A x \in s : Sum(w, s) = w[x] + Sum(w, s \ {x})}
<1>1. {} \in Good
  OBVIOUS
<1>2. ASSUME NEW s \in SUBSET S, s # {}, \A x \in s : s \ {x} \in Good, NEW x \in s
      PROVE  Sum(w, s) = w[x] + Sum(w, s \ {x})
  <2> DEFINE z == Pick(s)
             r == (s \ {z}) \ {x}
  <2>1. IsFiniteSet(s)
    BY FS_Subset
  <2>2. z \in s /\ Sum(w, s) = w[z] + Sum(w, s \ {z})
    BY <1>2, <2>1, SumPicks, PickedOff
  <2> HIDE DEF z
  <2>3. x # z => Sum(w, s \ {z}) = w[x] + Sum(w, r)
    BY <1>2, <2>2
  <2>4. x # z => Sum(w, s \ {x}) = w[z] + Sum(w, (s \ {x}) \ {z})
    BY <1>2, <2>2
  <2>5. (s \ {x}) \ {z} = r
    OBVIOUS
  <2>6. w[x] \in Nat /\ w[z] \in Nat /\ Sum(w, r) \in Nat
    <3>1. r \in SUBSET S /\ IsFiniteSet(r)
      BY <2>1, FS_Subset
    <3> QED
      BY <2>2, <3>1, SumIsNatural
  <2>7. CASE x = z
    BY <2>2, <2>7
  <2>8. CASE x # z
    <3>1. /\ Sum(w, s) = w[z] + (w[x] + Sum(w, r))
          /\ Sum(w, s \ {x}) = w[z] + Sum(w, r)
      BY <2>2, <2>3, <2>4, <2>5, <2>8
    <3> HIDE DEF r
    <3> QED
      BY <3>1, <2>6
  <2> QED
    BY <2>7, <2>8
<1>3. S \in Good
  <2>1. \A s \in SUBSET S : s # {} /\ (\A x \in s : s \ {x} \in Good) => s \in Good
    BY <1>2
  <2> HIDE DEF Good
  <2> QED
    BY <1>1, <2>1, FiniteInduction
<1> QED
  BY <1>3

\* Sums are monotone, and proportions of the parts are proportions of the whole.
LEMMA SumScales ==
    ASSUME NEW S, IsFiniteSet(S), NEW w, \A x \in S : w[x] \in Nat,
           NEW v, \A x \in S : v[x] \in Nat, NEW m \in Nat, NEW n \in Nat,
           \A x \in S : m * v[x] <= w[x] * n
    PROVE  m * Sum(v, S) <= Sum(w, S) * n
<1> DEFINE Good == {s \in SUBSET S : m * Sum(v, s) <= Sum(w, s) * n}
<1>1. {} \in Good
  BY SumOfNone
<1>2. ASSUME NEW s \in SUBSET S, s # {}, \A x \in s : s \ {x} \in Good
      PROVE  s \in Good
  <2>1. PICK x \in s : TRUE
    BY <1>2
  <2>2. IsFiniteSet(s) /\ IsFiniteSet(s \ {x}) /\ s \ {x} \in SUBSET S
    BY FS_Subset
  <2> DEFINE a == Sum(v, s \ {x})
             b == Sum(w, s \ {x})
             c == v[x]
             d == w[x]
  <2>3. Sum(v, s) = c + a /\ Sum(w, s) = d + b
    BY <2>2, SumLeavesOut
  <2>4. a \in Nat /\ b \in Nat /\ c \in Nat /\ d \in Nat
    BY <2>2, SumIsNatural
  <2>5. m * a <= b * n /\ m * c <= d * n
    BY <1>2
  <2> HIDE DEF a, b, c, d
  <2>6. m * (c + a) <= (d + b) * n
    <3>1. m * (c + a) = m * c + m * a /\ (d + b) * n = d * n + b * n
      BY <2>4
    <3>2. m * c \in Nat /\ m * a \in Nat /\ d * n \in Nat /\ b * n \in Nat
      BY <2>4
    <3> DEFINE e == m * c  f == m * a  i == d * n  k == b * n
    <3>3. e + f <= i + k
      <4>1. e \in Nat /\ f \in Nat /\ i \in Nat /\ k \in Nat /\ e <= i /\ f <= k
        BY <2>5, <3>2
      <4> HIDE DEF e, f, i, k
      <4> QED
        BY <4>1
    <3> QED
      BY <3>1, <3>3
  <2> QED
    BY <2>3, <2>6
<1> HIDE DEF Good
<1>3. S \in Good
  BY <1>1, <1>2, FiniteInduction
<1> QED
  BY <1>3 DEF Good

\* What is less for each element sums to no more.
LEMMA SumIsMonotone ==
    ASSUME NEW S, IsFiniteSet(S), NEW w, \A x \in S : w[x] \in Nat,
           NEW v, \A x \in S : v[x] \in Nat, \A x \in S : v[x] <= w[x]
    PROVE  Sum(v, S) <= Sum(w, S)
<1>1. Sum(v, S) \in Nat /\ Sum(w, S) \in Nat
  BY SumIsNatural
<1>2. \A x \in S : 1 * v[x] <= w[x] * 1
  OBVIOUS
<1>3. 1 * Sum(v, S) <= Sum(w, S) * 1
  BY <1>2, SumScales
<1> QED
  BY <1>1, <1>3

\* The sum of two amounts for each element is the sum of their sums.
LEMMA SumAdds ==
    ASSUME NEW S, IsFiniteSet(S), NEW u, NEW v, \A x \in S : v[x] \in Nat,
           NEW w, \A x \in S : w[x] \in Nat, \A x \in S : u[x] = v[x] + w[x]
    PROVE  Sum(u, S) = Sum(v, S) + Sum(w, S)
<1> DEFINE Good == {s \in SUBSET S : Sum(u, s) = Sum(v, s) + Sum(w, s)}
<1>1. {} \in Good
  BY SumOfNone
<1>2. ASSUME NEW s \in SUBSET S, s # {}, \A x \in s : s \ {x} \in Good
      PROVE  s \in Good
  <2>1. PICK x \in s : TRUE
    BY <1>2
  <2>2. IsFiniteSet(s) /\ IsFiniteSet(s \ {x}) /\ s \ {x} \in SUBSET S
    BY FS_Subset
  <2>3. \A y \in s : u[y] \in Nat
    OBVIOUS
  <2>4. /\ Sum(u, s) = u[x] + Sum(u, s \ {x}) /\ Sum(v, s) = v[x] + Sum(v, s \ {x})
        /\ Sum(w, s) = w[x] + Sum(w, s \ {x})
    BY <2>2, <2>3, SumLeavesOut
  <2>5. v[x] \in Nat /\ w[x] \in Nat /\ Sum(v, s \ {x}) \in Nat /\ Sum(w, s \ {x}) \in Nat
    BY <2>2, SumIsNatural
  <2>6. Sum(u, s \ {x}) = Sum(v, s \ {x}) + Sum(w, s \ {x})
    BY <1>2
  <2>7. Sum(u, s) = Sum(v, s) + Sum(w, s)
    BY <2>4, <2>5, <2>6
  <2> QED
    BY <2>7
<1> HIDE DEF Good
<1>3. S \in Good
  BY <1>1, <1>2, FiniteInduction
<1> QED
  BY <1>3 DEF Good

\* A sum over all of U of what w is on S, and nothing elsewhere, is the sum over S.
LEMMA SumOfPart ==
    ASSUME NEW U, IsFiniteSet(U), NEW S \in SUBSET U, NEW w, \A x \in S : w[x] \in Nat,
           NEW v, \A x \in U : v[x] = IF x \in S THEN w[x] ELSE 0
    PROVE  Sum(v, U) = Sum(w, S)
<1> DEFINE Good == {s \in SUBSET U : Sum(v, s) = Sum(w, s \cap S)}
<1>1. {} \in Good
  <2>1. {} \cap S = {}
    OBVIOUS
  <2> QED
    BY <2>1, SumOfNone
<1>2. ASSUME NEW s \in SUBSET U, s # {}, \A x \in s : s \ {x} \in Good
      PROVE  s \in Good
  <2>1. PICK x \in s : TRUE
    BY <1>2
  <2> DEFINE k == s \cap S
             l == (s \ {x}) \cap S
  <2>2. IsFiniteSet(s) /\ IsFiniteSet(l) /\ IsFiniteSet(k)
    BY FS_Subset
  <2>3. \A y \in s : v[y] \in Nat
    OBVIOUS
  <2>4. Sum(v, s) = v[x] + Sum(v, s \ {x})
    BY <2>2, <2>3, SumLeavesOut
  <2>5. Sum(v, s \ {x}) = Sum(w, l)
    BY <1>2
  <2>6. Sum(w, l) \in Nat
    BY <2>2, SumIsNatural
  <2>7. CASE x \in S
    <3>1. x \in k /\ k \ {x} = l /\ \A y \in k : w[y] \in Nat
      BY <2>7
    <3>2. Sum(w, k) = w[x] + Sum(w, l)
      <4> HIDE DEF k, l
      <4> QED
        BY <2>2, <3>1, SumLeavesOut
    <3> QED
      BY <2>4, <2>5, <2>7, <3>2
  <2>8. CASE x \notin S
    <3>1. k = l /\ v[x] = 0
      BY <2>8
    <3>2. Sum(v, s) = Sum(w, k)
      <4> HIDE DEF k, l
      <4> QED
        BY <2>4, <2>5, <2>6, <3>1
    <3> QED
      BY <3>2
  <2> QED
    BY <2>7, <2>8
<1> HIDE DEF Good
<1>3. U \in Good
  BY <1>1, <1>2, FiniteInduction
<1>4. U \cap S = S
  OBVIOUS
<1> QED
  BY <1>3, <1>4 DEF Good
-------------------------------------------------------------------------------
(* The Cost API and the bucket it reports on.                              *)

\* A transaction acquires one attempt, or none.
OneAcquired ==
    \/ Acquired' = Acquired /\ \A j \in Jobs : AttemptsOf(j)' = AttemptsOf(j)
    \/ \E a \in Attempts, pass \in Passes, j \in Jobs, owner \in Nat, usd \in Nat :
           permit[a] = None /\ AcquirePaidPassLease(a, pass, j, owner, usd)

\* A step acquires no attempt, or just one, by acquirePaidPassLease.
LEMMA AcquiresOne ==
    ASSUME TypeInv, [Next]_vars
    PROVE  OneAcquired
<1> DEFINE stays == Acquired' = Acquired /\ \A j \in Jobs : AttemptsOf(j)' = AttemptsOf(j)
<1>1. CASE UNCHANGED permit
  BY <1>1 DEF OneAcquired, Acquired, AttemptsOf
<1>2. ASSUME NEW a \in Attempts, permit[a] # None,
             \/ \E stage \in Stages : permit' = [permit EXCEPT ![a].stage = stage]
             \/ permit' = [permit EXCEPT ![a].usd = 0]
      PROVE  OneAcquired
  <2>1. \A j \in Jobs : AttemptsOf(j)' = AttemptsOf(j)
    BY <1>2, AttemptsStay
  <2>2. \A b \in Attempts : permit[b] # None => permit[b].job \in Jobs
    BY DEF TypeInv, TypeOK, Permit
  <2>3. \A b \in Attempts : b # a => permit'[b] = permit[b]
    BY <1>2 DEF TypeInv, TypeOK
  <2>4. a \in AttemptsOf(permit[a].job)' /\ a \in Acquired
    BY <1>2, <2>1, <2>2 DEF AttemptsOf, Acquired
  <2>5. Acquired' = Acquired
    BY <2>3, <2>4 DEF AttemptsOf, Acquired
  <2> QED
    BY <2>1, <2>5 DEF OneAcquired
<1>3. ASSUME NEW p \in Passes, NEW j \in Jobs, AcquirePass(p, j) PROVE OneAcquired
  <2>1. /\ permit[p] = None /\ p \in Attempts /\ jobs[j].owner \in Nat /\ PassUsd \in Nat
        /\ AcquirePaidPassLease(p, p, j, jobs[j].owner, PassUsd)
    BY <1>3, LimitsAssumption DEF LimitsAssumption, AcquirePass, TypeInv, TypeOK, JobRow
  <2> QED
    BY <2>1, Zenon DEF OneAcquired
<1>4. ASSUME NEW p \in Passes, NEW r \in Requests, AcquireRequest(r, p) PROVE OneAcquired
  <2>1. /\ permit[r] = None /\ r \in Attempts /\ RequestUsd \in Nat /\ permit[p] # None
        /\ AcquirePaidPassLease(r, p, permit[p].job, permit[p].owner, RequestUsd)
    BY <1>4, LimitsAssumption DEF LimitsAssumption, AcquireRequest, Running
  <2>2. permit[p].job \in Jobs /\ permit[p].owner \in Nat
    BY <2>1 DEF TypeInv, TypeOK, Permit
  <2> QED
    BY <2>1, <2>2, Zenon DEF OneAcquired
<1>5. ASSUME NEW p \in Passes, ResizePaidPassLease(p) PROVE OneAcquired
  BY <1>2, <1>5 DEF ResizePaidPassLease, Running
<1>6. ASSUME NEW p \in Passes, AuthorizePaidPassLaunch(p) PROVE OneAcquired
  BY <1>1, <1>2, <1>6 DEF AuthorizePaidPassLaunch, Running, Stages
<1>7. ASSUME NEW p \in Passes, SettlePass(p) PROVE OneAcquired
  <2>1. PICK usd, guess, stage :
            /\ guess \in BOOLEAN /\ stage \in Stages /\ PassReport(p, usd, guess, stage)
            /\ SettlePaidPassLease(p, usd, guess, stage)
    BY <1>7, PassSettles
  <2>2. permit[p] # None /\ p \in Attempts /\ "closed" \in Stages
    BY <1>7, PassSettles DEF Stages
  <2>3. \E k \in Stages : permit' = [permit EXCEPT ![p].stage = k]
    BY <2>1, <2>2 DEF SettlePaidPassLease
  <2> QED
    BY <1>2, <2>2, <2>3
<1>8. ASSUME NEW r \in Requests, SendRequest(r) \/ SettleRequest(r) \/ DropRequest(r)
      PROVE  OneAcquired
  <2>1. CASE SendRequest(r) \/ DropRequest(r)
    BY <1>2, <2>1 DEF SendRequest, DropRequest, Running, Stages
  <2>2. CASE SettleRequest(r)
    <3>1. PICK usd, guess, stage : stage \in Stages /\ SettleRequestCost(r, usd, guess, stage)
      BY <2>2, RequestSettles
    <3>2. permit[r] # None /\ permit' = [permit EXCEPT ![r].stage = stage]
      BY <2>2, <3>1, RequestSettles DEF SettleRequestCost
    <3> QED
      BY <1>2, <3>1, <3>2
  <2> QED
    BY <1>8, <2>1, <2>2
<1>9. ASSUME NEW a \in Attempts, ReleaseUnbilledPaidPassLease(a) PROVE OneAcquired
  BY <1>2, <1>9 DEF ReleaseUnbilledPaidPassLease, Running
<1>10. CASE \/ Tick \/ ReconcileExpiredJobClaims
            \/ \E j \in Jobs : \/ ClaimQueuedJob(j) \/ EndQueuedRetry(j) \/ RenewJobLease(j)
                               \/ TerminalizeClaim(j) \/ CancelJob(j) \/ RetryJob(j)
            \/ \E a \in Attempts : RenewPaidPassLease(a) \/ \E usd \in Bills : ProviderBills(a, usd)
            \/ \E from \in 0..now, reported \in Reports :
                   ReconcilePresumedCosts(from, now + 1, reported)
            \/ \E owner \in alive : RunEnds(owner)
            \/ UNCHANGED vars
  <2>1. UNCHANGED permit
    BY <1>10, Zenon
       DEF Tick, ReconcileExpiredJobClaims, ClaimQueuedJob, EndQueuedRetry, RenewJobLease,
           TerminalizeClaim, CancelJob, RetryJob, RenewPaidPassLease, ProviderBills,
           ReconcilePresumedCosts, RunEnds, memVars, vars
  <2> QED
    BY <1>1, <2>1
<1> QED
  BY <1>3, <1>4, <1>5, <1>6, <1>7, <1>8, <1>9, <1>10 DEF Next

FiniteInv == TypeInv /\ IsFiniteSet(Acquired)

\* Only finitely many attempts have been acquired, after any step.
LEMMA FinitePreserved == FiniteInv /\ [Next]_vars => FiniteInv'
<1> SUFFICES ASSUME FiniteInv, [Next]_vars PROVE FiniteInv'
  OBVIOUS
<1>1. TypeInv'
  BY TypePreserved DEF FiniteInv
<1>2. OneAcquired
  BY AcquiresOne DEF FiniteInv
<1>3. ASSUME NEW a \in Attempts, NEW pass, NEW j, NEW owner, NEW usd,
             AcquirePaidPassLease(a, pass, j, owner, usd)
      PROVE  IsFiniteSet(Acquired)'
  <2>1. \A b \in Attempts : b # a => permit'[b] = permit[b]
    <3>1. \/ permit' = permit
          \/ permit' = [permit EXCEPT ![a] = [job |-> j, gen |-> jobs[j].gen, owner |-> owner,
                                              pass |-> pass, usd |-> usd, stage |-> "held"]]
      BY <1>3, Zenon DEF AcquirePaidPassLease
    <3> QED
      BY <3>1 DEF FiniteInv, TypeInv, TypeOK
  <2>2. Acquired' \subseteq Acquired \cup {a}
    BY <2>1 DEF Acquired
  <2>3. IsFiniteSet(Acquired \cup {a})
    BY FS_AddElement DEF FiniteInv
  <2>4. IsFiniteSet(Acquired')
    BY <2>2, <2>3, FS_Subset
  <2> QED
    BY <2>4
<1> QED
  BY <1>1, <1>2, <1>3 DEF OneAcquired, FiniteInv

\* At first no attempt has been acquired.
LEMMA FiniteAtFirst == Init => FiniteInv
<1> SUFFICES ASSUME Init PROVE FiniteInv
  OBVIOUS
<1>1. Acquired = {}
  BY DEF Init, Acquired
<1> QED
  BY <1>1, InitTyped, FS_EmptySet DEF FiniteInv

\* A share times the divisor is no more than what was divided.
LEMMA DivisionRoundsDown ==
    ASSUME NEW x \in Nat, NEW y \in Nat \ {0}
    PROVE  x \div y \in Nat /\ y * (x \div y) <= x
  OBVIOUS

\* What lowering a row leaves of it.
LEMMA LoweredInBucket ==
    ASSUME NEW rows \in [Attempts -> Cost \cup {None}], NEW from, NEW to,
           NEW remaining \in Nat, NEW total \in Nat \ {0}, NEW a \in Attempts,
           NEW row, row = Lower(rows, from, to, remaining, total)[a]
    PROVE  /\ ~Guess(rows, a, from, to) => row = rows[a]
           /\ Guess(rows, a, from, to) => total * Usd(row) <= Usd(rows[a]) * remaining
           /\ row = None <=> rows[a] = None
           /\ rows[a] # None => row.at = rows[a].at
<1> DEFINE share == (rows[a].usd * remaining) \div total
<1>1. row = IF Guess(rows, a, from, to) /\ share \in 0..(rows[a].usd - 1)
            THEN [rows[a] EXCEPT !.usd = share, !.reconciled = TRUE]
            ELSE rows[a]
  BY DEF Lower
<1>2. CASE Guess(rows, a, from, to)
  <2>1. rows[a] # None /\ rows[a] \in Cost /\ rows[a].usd \in Nat
    BY <1>2 DEF Guess, Cost
  <2>2. rows[a].usd * remaining \in Nat
    BY <2>1
  <2>3. share \in Nat /\ total * share <= rows[a].usd * remaining
    BY <2>2, DivisionRoundsDown
  <2> HIDE DEF share
  <2>4. CASE share \in 0..(rows[a].usd - 1)
    <3>1. row = [rows[a] EXCEPT !.usd = share, !.reconciled = TRUE]
      BY <1>1, <1>2, <2>4
    <3>2. row \in Cost /\ row.usd = share /\ row.at = rows[a].at
      BY <2>1, <2>3, <3>1 DEF Cost
    <3>3. row # None
      BY <3>2, NullFacts
    <3> QED
      BY <1>2, <2>1, <2>3, <3>2, <3>3 DEF Usd
  <2>5. CASE share \notin 0..(rows[a].usd - 1)
    <3>1. row = rows[a] /\ rows[a].usd <= share
      BY <1>1, <2>1, <2>3, <2>5
    <3>2. total * rows[a].usd <= total * share
      BY <2>1, <2>3, <3>1
    <3>3. total * rows[a].usd <= rows[a].usd * remaining
      <4> DEFINE i == total * rows[a].usd  k == total * share  m == rows[a].usd * remaining
      <4>1. i \in Nat /\ k \in Nat /\ m \in Nat /\ i <= k /\ k <= m
        BY <2>1, <2>2, <2>3, <3>2
      <4> HIDE DEF i, k, m
      <4>2. i <= m
        BY <4>1
      <4> QED
        BY <4>2 DEF i, m
    <3> QED
      BY <1>2, <2>1, <3>1, <3>3 DEF Usd
  <2> QED
    BY <2>4, <2>5
<1>3. CASE ~Guess(rows, a, from, to)
  BY <1>1, <1>3
<1> QED
  BY <1>2, <1>3

\* A bucket of one table: what is accounted for stays, the guesses shrink in
\* proportion.
LEMMA BucketLowers ==
    ASSUME NEW rows \in [Attempts -> Cost \cup {None}], IsFiniteSet(Acquired),
           \A a \in Attempts : rows[a] # None => a \in Acquired,
           NEW from, NEW to, NEW remaining \in Nat, NEW total \in Nat \ {0},
           NEW low, low = Lower(rows, from, to, remaining, total)
    PROVE  /\ Accounted(rows, from, to) \in Nat
           /\ TotalUsd(rows, Guesses(rows, from, to)) \in Nat
           /\ \E lowered \in Nat :
                /\ TotalUsd(low, InBucket(low, from, to)) = Accounted(rows, from, to) + lowered
                /\ total * lowered <= TotalUsd(rows, Guesses(rows, from, to)) * remaining
<1> DEFINE B == InBucket(rows, from, to)
           G == Guesses(rows, from, to)
           A == {a \in Attempts : /\ rows[a] # None /\ ~Guess(rows, a, from, to)
                                  /\ from <= rows[a].at /\ rows[a].at < to}
           w == [a \in Attempts |-> Usd(rows[a])]
           v == [a \in Attempts |-> Usd(low[a])]
           onA == [a \in Attempts |-> IF a \in A THEN w[a] ELSE 0]
           onG == [a \in Attempts |-> IF a \in G THEN v[a] ELSE 0]
<1>1. B \subseteq Acquired /\ A \in SUBSET B /\ G \in SUBSET B /\ B \subseteq Attempts
  BY DEF InBucket, Guesses, Guess
<1>2. IsFiniteSet(A) /\ IsFiniteSet(B) /\ IsFiniteSet(G)
  BY <1>1, FS_Subset
<1>3. low \in [Attempts -> Cost \cup {None}]
  BY LowerTypes
<1>4. \A a \in Attempts : w[a] \in Nat /\ v[a] \in Nat
  BY <1>3 DEF Usd, Cost
<1>5. InBucket(low, from, to) = B
  <2>1. \A a \in Attempts : /\ low[a] = None <=> rows[a] = None
                            /\ rows[a] # None => low[a].at = rows[a].at
    BY LoweredInBucket
  <2> QED
    BY <2>1 DEF InBucket
<1>6. /\ Accounted(rows, from, to) = Sum(w, A) /\ TotalUsd(rows, G) = Sum(w, G)
      /\ TotalUsd(low, B) = Sum(v, B)
  <2>1. Accounted(rows, from, to) = TotalUsd(rows, A)
    BY DEF Accounted
  <2>2. (\A a \in A : w[a] = Usd(rows[a])) /\ (\A a \in G : w[a] = Usd(rows[a]))
    BY <1>1
  <2>3. \A a \in B : v[a] = Usd(low[a])
    BY <1>1
  <2> HIDE DEF A, B, G, w, v
  <2> QED
    BY <1>2, <2>1, <2>2, <2>3, TotalIsSum
<1>7. \A a \in B : v[a] = onA[a] + onG[a]
  <2> SUFFICES ASSUME NEW a \in B PROVE v[a] = onA[a] + onG[a]
    OBVIOUS
  <2>1. a \in Attempts /\ rows[a] # None /\ from <= rows[a].at /\ rows[a].at < to
    BY DEF InBucket
  <2>2. a \in G <=> Guess(rows, a, from, to)
    BY <2>1 DEF Guesses
  <2>3. a \in A <=> ~Guess(rows, a, from, to)
    BY <2>1
  <2>4. a \in A => v[a] = w[a]
    BY <2>1, <2>3, LoweredInBucket
  <2>5. w[a] \in Nat /\ v[a] \in Nat
    BY <1>4, <2>1
  <2>6. onA[a] = (IF a \in A THEN w[a] ELSE 0) /\ onG[a] = (IF a \in G THEN v[a] ELSE 0)
    BY <2>1
  <2> HIDE DEF A, G, B, w, v, onA, onG
  <2> QED
    BY <2>2, <2>3, <2>4, <2>5, <2>6
<1>8. \A a \in B : onA[a] \in Nat /\ onG[a] \in Nat
  BY <1>1, <1>4
<1>9. /\ \A a \in B : onA[a] = IF a \in A THEN w[a] ELSE 0
      /\ \A a \in B : onG[a] = IF a \in G THEN v[a] ELSE 0
  BY <1>1
<1>10. \A a \in G : total * v[a] <= w[a] * remaining
  BY <1>1, LoweredInBucket DEF Guesses
<1>11. /\ \A a \in A : w[a] \in Nat
       /\ \A a \in G : v[a] \in Nat /\ w[a] \in Nat
  BY <1>1, <1>4
<1> HIDE DEF A, B, G, w, v, onA, onG
<1>12. Sum(v, B) = Sum(onA, B) + Sum(onG, B)
  BY <1>2, <1>7, <1>8, SumAdds
<1>13. Sum(onA, B) = Sum(w, A) /\ Sum(onG, B) = Sum(v, G)
  BY <1>1, <1>2, <1>9, <1>11, SumOfPart
<1>14. Sum(w, A) \in Nat /\ Sum(v, G) \in Nat /\ Sum(w, G) \in Nat
  BY <1>2, <1>11, SumIsNatural
<1>15. total * Sum(v, G) <= Sum(w, G) * remaining
  BY <1>2, <1>10, <1>11, SumScales
<1>16. /\ TotalUsd(low, InBucket(low, from, to)) = Accounted(rows, from, to) + Sum(v, G)
       /\ total * Sum(v, G) <= TotalUsd(rows, G) * remaining
  BY <1>5, <1>6, <1>12, <1>13, <1>15
<1> QED
  BY <1>6, <1>14, <1>16 DEF G
\* Where the parts of two lots come to t, their shares of r come to no more than r.
LEMMA SharesFit ==
    ASSUME NEW m \in Nat, NEW n \in Nat, NEW t \in Nat \ {0}, t = m + n,
           NEW r \in Nat, NEW x \in Nat, NEW y \in Nat, t * x <= m * r, t * y <= n * r
    PROVE  x + y <= r
<1>1. t * (x + y) = t * x + t * y /\ m * r + n * r = t * r
  OBVIOUS
<1>2. t * (x + y) <= t * r
  <2> DEFINE a == t * x  b == t * y  c == m * r  d == n * r
  <2>1. a \in Nat /\ b \in Nat /\ c \in Nat /\ d \in Nat /\ a <= c /\ b <= d
    OBVIOUS
  <2> HIDE DEF a, b, c, d
  <2>2. a + b <= c + d
    BY <2>1
  <2> QED
    BY <1>1, <2>2 DEF a, b, c, d
<1>3. ASSUME NEW k \in Nat, NEW l \in Nat, l > k PROVE t * l > t * k
  <2>1. t * l = t * k + t * (l - k) /\ t * (l - k) > 0
    BY <1>3
  <2> QED
    BY <2>1
<1>4. x + y \in Nat
  OBVIOUS
<1>5. x + y > r => t * (x + y) > t * r
  BY <1>3, <1>4
<1> DEFINE left == t * (x + y)  right == t * r
<1>6. left \in Nat /\ right \in Nat /\ left <= right /\ (x + y > r => left > right)
  BY <1>2, <1>5
<1> HIDE DEF left, right
<1> QED
  BY <1>4, <1>6

\* What the script leaves in a bucket is within the report, or all accounted for.
LEMMA BucketWithin ==
    ASSUME FiniteInv, NEW from, NEW to, NEW reported \in Nat,
           ReconcilePresumedCosts(from, to, reported)
    PROVE  \/ TotalUsd(billed', InBucket(billed', from, to))
                + TotalUsd(presumed', InBucket(presumed', from, to)) <= reported
           \/ TotalUsd(billed', InBucket(billed', from, to))
                + TotalUsd(presumed', InBucket(presumed', from, to)) = FirmUsd(from, to)
<1> DEFINE firmB == Accounted(billed, from, to)
           firmP == Accounted(presumed, from, to)
           openB == TotalUsd(billed, Guesses(billed, from, to))
           openP == TotalUsd(presumed, Guesses(presumed, from, to))
           accounted == firmB + firmP
           remaining == IF reported > accounted THEN reported - accounted ELSE 0
           total == openB + openP
<1>1. /\ total > remaining
      /\ billed' = Lower(billed, from, to, remaining, total)
      /\ presumed' = Lower(presumed, from, to, remaining, total)
  BY DEF ReconcilePresumedCosts
<1>2. /\ billed \in [Attempts -> Cost \cup {None}] /\ presumed \in [Attempts -> Cost \cup {None}]
      /\ \A a \in Attempts : billed[a] # None => a \in Acquired
      /\ \A a \in Attempts : presumed[a] # None => a \in Acquired
      /\ IsFiniteSet(Acquired)
  BY DEF FiniteInv, TypeInv, TypeOK, RowsHavePermits, Acquired
<1>3. /\ firmB \in Nat /\ openB \in Nat
      /\ firmP \in Nat /\ openP \in Nat
  <2>1. \A low, m, n : m \in Nat /\ n \in Nat \ {0} /\ low = Lower(billed, from, to, m, n)
                       => firmB \in Nat /\ openB \in Nat
    BY <1>2, BucketLowers
  <2>2. \A low, m, n : m \in Nat /\ n \in Nat \ {0} /\ low = Lower(presumed, from, to, m, n)
                       => firmP \in Nat /\ openP \in Nat
    BY <1>2, BucketLowers
  <2> HIDE DEF firmB, openB, firmP, openP
  <2> QED
    BY <2>1, <2>2
<1> HIDE DEF firmB, openB, firmP, openP
<1>4. remaining \in Nat /\ total \in Nat \ {0}
  BY <1>1, <1>3
<1> HIDE DEF remaining, total
<1>5. PICK lowB \in Nat :
          /\ TotalUsd(billed', InBucket(billed', from, to)) = firmB + lowB
          /\ total * lowB <= openB * remaining
  BY <1>1, <1>2, <1>4, BucketLowers DEF firmB, openB
<1>6. PICK lowP \in Nat :
          /\ TotalUsd(presumed', InBucket(presumed', from, to)) = firmP + lowP
          /\ total * lowP <= openP * remaining
  BY <1>1, <1>2, <1>4, BucketLowers DEF firmP, openP
<1>7. lowB + lowP <= remaining
  BY <1>3, <1>4, <1>5, <1>6, SharesFit DEF total
<1>8. firmB + firmP = FirmUsd(from, to)
  <2>1. ASSUME NEW rows
        PROVE  {a \in Attempts : /\ rows[a] # None /\ ~Guess(rows, a, from, to)
                                 /\ from <= rows[a].at /\ rows[a].at < to}
               = {a \in InBucket(rows, from, to) : ~rows[a].guess \/ rows[a].reconciled}
    BY DEF Guess, InBucket
  <2> QED
    BY <2>1 DEF firmB, firmP, Accounted, FirmUsd
<1>9. CASE reported > accounted
  BY <1>3, <1>5, <1>6, <1>7, <1>9 DEF remaining
<1>10. CASE ~(reported > accounted)
  <2>1. lowB = 0 /\ lowP = 0
    BY <1>7, <1>10 DEF remaining
  <2> QED
    BY <1>3, <1>5, <1>6, <1>8, <2>1
<1> QED
  BY <1>9, <1>10

\* A day the script has lowered holds no more than the Cost API reported for it, or
\* holds nothing but what was already accounted for, however often it runs and whatever
\* it had to round (reconcilePresumedCostsAgainstReportedTotals).
THEOREM ReconciledWithin == Spec => ReconciledWithinReport
<1>1. FiniteInv /\ [Next]_vars
      => [\A from \in 0..now, reported \in Reports :
            ReconcilePresumedCosts(from, now + 1, reported) =>
                \/ BucketUsd(from, now + 1)' <= reported
                \/ BucketUsd(from, now + 1)' = FirmUsd(from, now + 1)]_vars
  <2> SUFFICES ASSUME FiniteInv, NEW from \in 0..now, NEW reported \in Reports,
                      ReconcilePresumedCosts(from, now + 1, reported)
               PROVE  \/ BucketUsd(from, now + 1)' <= reported
                      \/ BucketUsd(from, now + 1)' = FirmUsd(from, now + 1)
    OBVIOUS
  <2>1. now' = now /\ reported \in Nat
    BY LimitsAssumption DEF LimitsAssumption, ReconcilePresumedCosts
  <2>2. BucketUsd(from, now + 1)' = TotalUsd(billed', InBucket(billed', from, now + 1))
                                    + TotalUsd(presumed', InBucket(presumed', from, now + 1))
    BY <2>1 DEF BucketUsd
  <2> QED
    BY <2>1, <2>2, BucketWithin
<1> QED
  BY <1>1, FiniteAtFirst, FinitePreserved, PTL DEF Spec, ReconciledWithinReport
-------------------------------------------------------------------------------
(* The cap of a job.                                                       *)

\* Nothing the provider bills exceeds what is reserved for a call.
BilledWithinReservations ==
    \A usd \in Bills : usd <= (IF PerRequest THEN RequestUsd ELSE PassUsd)

\* What was reserved is the whole reservation or nothing, and covers what was charged.
Priced(a) == permit[a] # None => Limit(a) \in {0, Reservation(a)} /\ Due(a) <= Limit(a)

\* What each attempt counts for.
Owed == [a \in Attempts |-> Counted(a)]

CapInv == AccountInv /\ IsFiniteSet(Acquired) /\ \A a \in Attempts : Priced(a)

\* What an attempt counts for is a natural, and the sweep leaves it at that.
LEMMA CountTypes ==
    ASSUME AccountInv, NEW a \in Attempts
    PROVE  /\ Counted(a) \in Nat
           /\ Usd(PrunedLease[a]) + Usd(billed[a]) + Usd(PrunedPresumed[a]) = Counted(a)
           /\ Usd(PrunedLease[a]) \in Nat /\ Usd(billed[a]) \in Nat /\ Usd(PrunedPresumed[a]) \in Nat
<1>1. /\ lease[a] \in LeaseRow \cup {None} /\ billed[a] \in Cost \cup {None}
      /\ presumed[a] \in Cost \cup {None} /\ ChargedOnce(a)
  BY RowTypes
<1>2. /\ PrunedLease[a] \in LeaseRow \cup {None}
      /\ PrunedPresumed[a] \in Cost \cup {None}
  BY SweepTypes DEF AccountInv, ChargeInv
<1>3. Usd(lease[a]) \in Nat /\ Usd(billed[a]) \in Nat /\ Usd(presumed[a]) \in Nat
  BY <1>1 DEF Usd, LeaseRow, Cost
<1>4. Usd(PrunedLease[a]) \in Nat /\ Usd(PrunedPresumed[a]) \in Nat
  BY <1>2 DEF Usd, LeaseRow, Cost
<1>5. CASE a \notin Expired
  <2>1. PrunedLease[a] = lease[a] /\ PrunedPresumed[a] = presumed[a]
    BY <1>5 DEF PrunedLease, PrunedPresumed
  <2> QED
    BY <1>3, <2>1 DEF Counted
<1>6. CASE a \in Expired
  <2>1. /\ lease[a] # None /\ billed[a] = None /\ presumed[a] = None /\ PrunedLease[a] = None
        /\ lease[a].usd \in Nat /\ lease[a].acquired \in Nat
    BY <1>1, <1>6 DEF Expired, PrunedLease, ChargedOnce, LeaseRow
  <2>2. Usd(PrunedPresumed[a]) = lease[a].usd
    <3>1. CASE lease[a].usd > 0
      <4> DEFINE row == CostRow(lease[a].usd, lease[a].acquired, TRUE)
      <4>1. PrunedPresumed[a] = row
        BY <1>6, <2>1, <3>1 DEF PrunedPresumed
      <4>2. row.usd = lease[a].usd /\ row # None
        BY <2>1, CostRowTypes
      <4> HIDE DEF row
      <4> QED
        BY <2>1, <4>1, <4>2 DEF Usd
    <3>2. CASE ~(lease[a].usd > 0)
      <4>1. PrunedPresumed[a] = None
        BY <2>1, <3>2 DEF PrunedPresumed
      <4> QED
        BY <2>1, <3>2, <4>1 DEF Usd
    <3> QED
      BY <3>1, <3>2
  <2>3. Usd(lease[a]) = lease[a].usd /\ Usd(billed[a]) = 0 /\ Usd(presumed[a]) = 0
        /\ Usd(PrunedLease[a]) = 0
    BY <2>1 DEF Usd
  <2> QED
    BY <1>3, <1>4, <2>2, <2>3 DEF Counted
<1> QED
  BY <1>3, <1>4, <1>5, <1>6 DEF Counted

CountsTyped == \A a \in Attempts : Counted(a) \in Nat

\* The counts are naturals, of the next state as well.
LEMMA CountsAreTyped == AccountInv => CountsTyped
BY CountTypes DEF CountsTyped

\* What the admission rules count of a job is what its attempts count for.
LEMMA CapCounts ==
    ASSUME AccountInv, IsFiniteSet(Acquired), NEW j \in Jobs
    PROVE  /\ IsFiniteSet(AttemptsOf(j)) /\ AttemptsOf(j) \subseteq Attempts
           /\ JobUsd(j) = Sum(Owed, AttemptsOf(j))
<1> DEFINE S == AttemptsOf(j)
           B == {a \in S : billed[a] # None /\ billed[a].at >= 0}
           P == {a \in S : PrunedPresumed[a] # None /\ PrunedPresumed[a].at >= 0}
           usdL == [a \in Attempts |-> Usd(PrunedLease[a])]
           usdB == [a \in Attempts |-> Usd(billed[a])]
           usdP == [a \in Attempts |-> Usd(PrunedPresumed[a])]
           usdBL == [a \in Attempts |-> usdB[a] + usdL[a]]
<1>1. S \subseteq Acquired /\ S \subseteq Attempts /\ B \in SUBSET S /\ P \in SUBSET S
  BY DEF AttemptsOf, Acquired
<1>2. IsFiniteSet(S) /\ IsFiniteSet(B) /\ IsFiniteSet(P)
  BY <1>1, FS_Subset
<1>3. /\ \A a \in S : usdL[a] = Usd(PrunedLease[a]) /\ usdL[a] \in Nat
      /\ \A a \in S : usdB[a] = Usd(billed[a]) /\ usdB[a] \in Nat
      /\ \A a \in S : usdP[a] = Usd(PrunedPresumed[a]) /\ usdP[a] \in Nat
      /\ \A a \in S : usdBL[a] = usdB[a] + usdL[a] /\ usdBL[a] \in Nat
  BY <1>1, CountTypes
<1>4. \A a \in S : Owed[a] = usdBL[a] + usdP[a]
  <2>1. \A a \in S : /\ usdBL[a] = Usd(billed[a]) + Usd(PrunedLease[a])
                     /\ usdP[a] = Usd(PrunedPresumed[a])
    BY <1>1
  <2>2. \A a \in S : /\ Owed[a] = Usd(PrunedLease[a]) + Usd(billed[a]) + Usd(PrunedPresumed[a])
                     /\ Usd(PrunedLease[a]) \in Nat /\ Usd(billed[a]) \in Nat
                     /\ Usd(PrunedPresumed[a]) \in Nat
    BY <1>1, CountTypes DEF Owed
  <2> HIDE DEF S, usdBL, usdP
  <2> QED
    BY <2>1, <2>2
<1>5. /\ \A a \in S : usdB[a] = IF a \in B THEN usdB[a] ELSE 0
      /\ \A a \in S : usdP[a] = IF a \in P THEN usdP[a] ELSE 0
  <2>1. ASSUME NEW a \in S PROVE billed[a] # None => a \in B
    BY <1>1, RowTypes DEF Cost
  <2>2. ASSUME NEW a \in S PROVE PrunedPresumed[a] # None => a \in P
    <3>1. PrunedPresumed[a] \in Cost \cup {None}
      BY <1>1, SweepTypes DEF AccountInv, ChargeInv
    <3> QED
      BY <3>1 DEF Cost
  <2>3. /\ \A a \in S : billed[a] = None => usdB[a] = 0
        /\ \A a \in S : PrunedPresumed[a] = None => usdP[a] = 0
    BY <1>3 DEF Usd
  <2> HIDE DEF S, B, P, usdB, usdP
  <2> QED
    BY <2>1, <2>2, <2>3
<1>6. SettledSince(j, 0) = TotalUsd(billed, B) + TotalUsd(PrunedPresumed, P)
  BY DEF SettledSince
<1>7. Reserved(j) = TotalUsd(PrunedLease, S)
  BY DEF Reserved
<1> HIDE DEF S, B, P, usdL, usdB, usdP, usdBL
<1>8. /\ TotalUsd(billed, B) = Sum(usdB, B) /\ TotalUsd(PrunedPresumed, P) = Sum(usdP, P)
      /\ TotalUsd(PrunedLease, S) = Sum(usdL, S)
  BY <1>1, <1>2, <1>3, TotalIsSum
<1>9. Sum(usdB, S) = Sum(usdB, B) /\ Sum(usdP, S) = Sum(usdP, P)
  BY <1>1, <1>2, <1>3, <1>5, SumOfPart
<1>10. Sum(usdBL, S) = Sum(usdB, S) + Sum(usdL, S) /\ Sum(Owed, S) = Sum(usdBL, S) + Sum(usdP, S)
  BY <1>2, <1>3, <1>4, SumAdds
<1>11. Sum(usdB, S) \in Nat /\ Sum(usdL, S) \in Nat /\ Sum(usdP, S) \in Nat
  BY <1>2, <1>3, SumIsNatural
<1>12. SettledSince(j, 0) + Reserved(j) = Sum(Owed, S)
  BY <1>6, <1>7, <1>8, <1>9, <1>10, <1>11
<1> QED
  BY <1>1, <1>2, <1>12 DEF S, JobUsd

\* What each job counts for is a sum, of the next state as well.
CapSums ==
    \A j \in Jobs : /\ IsFiniteSet(AttemptsOf(j)) /\ AttemptsOf(j) \subseteq Attempts
                    /\ JobUsd(j) = Sum(Owed, AttemptsOf(j))
                    /\ \A a \in Attempts : Owed[a] \in Nat

LEMMA CapsSum == CapInv => CapSums
BY CapCounts, CountTypes DEF CapInv, CapSums, Owed

\* Attempts without a permit are the unopened ones.
OpensByPermit == \A a \in Attempts : permit[a] # None <=> Phase(a) # "unopened"

LEMMA PhasesOpen == AccountInv => OpensByPermit
BY DEF OpensByPermit, Phase

\* Once open an account counts for no more than it did, unless a lowered guess is
\* replaced.
Falls(a) ==
    permit[a] # None => Counted(a)' <= Counted(a) \/ (Reconciled(a) /\ ~Reconciled(a)')

\* An account stays priced, and falls.
LEMMA PricesHold ==
    ASSUME BilledWithinReservations, AccountInv, AccountInv', NEW a \in Attempts,
           Priced(a), Moves(a) \/ Lowers(a), Counted(a)' \in Nat
    PROVE  Priced(a)' /\ Falls(a)
<1>1. /\ Counted(a) \in Nat /\ Due(a) \in Nat
      /\ permit[a] # None => Limit(a) \in Nat
      /\ permit[a] = None => Limit(a) = 0 /\ Due(a) = 0
  <2>1. permit[a] # None => permit[a].usd \in Nat
    BY RowTypes DEF Permit
  <2> QED
    BY <2>1, CountTypes, RowTypes DEF Limit, Due
<1>2. /\ Due(a)' \in Nat
      /\ permit'[a] # None => Sound(a)'
      /\ permit[a] # None <=> Phase(a) # "unopened"
      /\ permit'[a] # None <=> Phase(a)' # "unopened"
  <2>1. Due(a)' \in Nat
    <3>1. bill'[a] \in Nat \cup {None}
      BY DEF AccountInv, ChargeInv, TypeInv, TypeOK
    <3> QED
      BY <3>1 DEF Due
  <2>2. Sound(a)'
    BY DEF AccountInv
  <2>3. permit[a] # None <=> Phase(a) # "unopened"
    BY PhasesOpen DEF OpensByPermit
  <2>4. permit'[a] # None <=> Phase(a)' # "unopened"
    <3>1. OpensByPermit'
      BY PhasesOpen, PTL
    <3> QED
      BY <3>1 DEF OpensByPermit
  <2> QED
    BY <2>1, <2>2, <2>3, <2>4
<1>3. Due(a)' > 0 => Limit(a)' > 0
  <2>1. Due(a)' > 0 => permit'[a] # None
    <3>1. permit'[a] = None => bill'[a] = None
      BY DEF AccountInv, ChargeInv, TypeInv, RowsHavePermits
    <3> QED
      BY <3>1 DEF Due
  <2>2. Due(a)' > 0 => permit'[a].usd > 0
    BY <1>2, <2>1 DEF Sound, Balanced
  <2> QED
    BY <2>1, <2>2 DEF Limit
<1>4. Due(a)' > 0 /\ Due(a)' \in Bills => Due(a)' <= Reservation(a)
  <2>1. Due(a)' > 0 => permit'[a] # None
    BY <1>3 DEF Limit
  <2>2. permit'[a] # None => Placed(a)'
    BY <1>2 DEF Sound
  <2>3. Due(a)' > 0 => (a \in Requests <=> PerRequest)
    BY <2>1, <2>2 DEF Placed
  <2> QED
    BY <2>3 DEF BilledWithinReservations, Reservation
<1> DEFINE phase == Phase(a)
           limit == Limit(a)
           owed == Counted(a)
           due == Due(a)
           full == Reservation(a)
           open == permit[a] # None
           low == Reconciled(a)
<1>6. open => limit \in {0, full} /\ due <= limit
  BY DEF Priced
<1>7. \/ phase' = phase /\ limit' = limit /\ owed' = owed /\ due' = due
      \/ phase = "unopened" /\ phase' = "reserved" /\ limit' = full /\ due' = due
      \/ phase = "reserved" /\ phase' = "reserved" /\ limit' = 0 /\ owed' = 0 /\ due' = due
      \/ /\ phase # "unopened" /\ due = 0 /\ due' \in Bills
         /\ phase' = phase /\ limit' = limit /\ owed' = owed
      \/ /\ phase # "unopened" /\ phase' # "unopened" /\ limit' = limit /\ due' = due
         /\ low \/ owed = limit
         /\ ~low'
         /\ owed' = due \/ owed' <= limit
      \/ /\ phase # "unopened" /\ phase' # "unopened"
         /\ limit' = limit /\ due' = due /\ owed' < owed
  <2>1. CASE Lowers(a)
    BY <2>1 DEF Lowers
  <2>2. CASE Moves(a)
    <3>1. limit = 0 \/ limit \in Nat
      BY <1>1
    <3>2. Covers(owed', limit, due) => owed' <= limit
      BY DEF Covers
    <3>3. owed' = 0 => owed' <= limit
      BY <1>1
    <3> QED
      BY <2>2, <3>2, <3>3 DEF Moves, Ends, OpenPhases
  <2> QED
    BY <2>1, <2>2
<1>8. /\ owed \in Nat /\ owed' \in Nat /\ due \in Nat /\ due' \in Nat
      /\ open => limit \in Nat
      /\ ~open => limit = 0 /\ due = 0
      /\ open <=> phase # "unopened"
      /\ open' <=> phase' # "unopened"
      /\ due' > 0 => limit' > 0
      /\ due' > 0 /\ due' \in Bills => due' <= full
      /\ full \in Nat
  BY <1>1, <1>2, <1>3, <1>4, LimitsAssumption DEF LimitsAssumption, Reservation
<1> HIDE DEF phase, limit, owed, due, full, open, low
<1>9. /\ open' => limit' \in {0, full} /\ due' <= limit'
      /\ open => owed' <= owed \/ (low /\ ~low')
  BY <1>6, <1>7, <1>8
<1> QED
  BY <1>9 DEF Priced, Falls, phase, limit, owed, due, full, open, low, Reservation

\* Every step keeps the prices, and every account that is open falls.
LEMMA CapPreserved ==
    ASSUME BilledWithinReservations, CapInv, [Next]_vars
    PROVE  CapInv' /\ \A a \in Attempts : Falls(a)
<1>1. AccountInv' /\ \A a \in Attempts : Moves(a) \/ Lowers(a)
  BY AccountMoves DEF CapInv, AllMove, AllLower
<1>2. IsFiniteSet(Acquired)'
  BY FinitePreserved DEF FiniteInv, CapInv, AccountInv, ChargeInv
<1>3. ASSUME NEW a \in Attempts PROVE Counted(a)' \in Nat
  <2>1. CountsTyped'
    BY <1>1, CountsAreTyped, PTL
  <2> QED
    BY <2>1 DEF CountsTyped
<1>4. \A a \in Attempts : Priced(a)' /\ Falls(a)
  BY <1>1, <1>3, PricesHold DEF CapInv
<1> QED
  BY <1>1, <1>2, <1>4 DEF CapInv

\* A job that gains no attempt counts for no more, unless a lowered guess of it is
\* replaced.
LEMMA CapFalls ==
    ASSUME CapSums, CapSums', \A a \in Attempts : Falls(a), NEW j \in Jobs,
           \A a \in AttemptsOf(j) : ~(Reconciled(a) /\ ~Reconciled(a)')
    PROVE  /\ Sum(Owed', AttemptsOf(j)) <= JobUsd(j)
           /\ Sum(Owed', AttemptsOf(j)) \in Nat /\ JobUsd(j) \in Nat
<1> DEFINE S == AttemptsOf(j)
<1>1. IsFiniteSet(S) /\ S \subseteq Attempts /\ JobUsd(j) = Sum(Owed, S)
  BY DEF CapSums
<1>2. \A a \in S : permit[a] # None
  BY DEF AttemptsOf, Acquired
<1>3. \A a \in S : Owed[a] \in Nat /\ Owed'[a] \in Nat
  BY <1>1 DEF CapSums
<1>4. \A a \in S : Owed'[a] <= Owed[a]
  BY <1>1, <1>2 DEF Falls, Owed
<1> HIDE DEF S
<1>5. Sum(Owed', S) <= Sum(Owed, S)
  BY <1>1, <1>3, <1>4, SumIsMonotone
<1>6. Sum(Owed', S) \in Nat /\ Sum(Owed, S) \in Nat
  BY <1>1, <1>3, SumIsNatural
<1> QED
  BY <1>1, <1>5, <1>6 DEF S

\* The job that gains an attempt was admitted: what it counts for and the new reservation
\* fit.
LEMMA CapAdmits ==
    ASSUME AccountInv, CapSums', NEW a \in Attempts, NEW pass \in Passes, NEW j \in Jobs,
           NEW owner \in Nat, NEW usd \in Nat,
           permit[a] = None, AcquirePaidPassLease(a, pass, j, owner, usd), permit' # permit
    PROVE  /\ JobUsd(j)' = usd + Sum(Owed', AttemptsOf(j))
           /\ usd > 0 => JobUsd(j) + usd <= JobCap
           /\ \A k \in Jobs \ {j} : AttemptsOf(k)' = AttemptsOf(k)
<1> DEFINE S == AttemptsOf(j)
<1>1. /\ Admitted(j, usd) /\ presumed' = PrunedPresumed /\ billed' = billed
      /\ lease' = [PrunedLease EXCEPT ![a] = Lease(usd)]
      /\ permit' = [permit EXCEPT ![a] =
            [job |-> j, gen |-> jobs[j].gen, owner |-> owner,
             pass |-> pass, usd |-> usd, stage |-> "held"]]
  BY Zenon DEF AcquirePaidPassLease
<1>2. /\ permit'[a] # None /\ permit'[a].job = j
      /\ \A b \in Attempts \ {a} : permit'[b] = permit[b]
  <2> DEFINE p == [job |-> j, gen |-> jobs[j].gen, owner |-> owner,
                   pass |-> pass, usd |-> usd, stage |-> "held"]
  <2>1. permit' = [permit EXCEPT ![a] = p] /\ p.job = j
    BY <1>1
  <2>2. jobs[j].gen \in Nat /\ permit \in [Attempts -> Permit \cup {None}]
    BY DEF AccountInv, ChargeInv, TypeInv, TypeOK, JobRow
  <2>3. p \in Permit
    BY <2>2 DEF Permit, Stages
  <2>4. p # None
    BY <2>3, NullFacts
  <2> HIDE DEF p
  <2> QED
    BY <2>1, <2>2, <2>4
<1>3. a \notin S /\ AttemptsOf(j)' = S \cup {a}
  <2>1. ASSUME NEW b \in Attempts \ {a}
        PROVE  b \in AttemptsOf(j)' <=> b \in S
    BY <1>2 DEF AttemptsOf, Acquired
  <2>2. a \in AttemptsOf(j)' /\ a \notin S
    BY <1>2 DEF AttemptsOf, Acquired
  <2>3. AttemptsOf(j)' \subseteq Attempts /\ S \subseteq Attempts
    BY DEF AttemptsOf, Acquired
  <2> QED
    BY <2>1, <2>2, <2>3
<1>4. \A k \in Jobs \ {j} : AttemptsOf(k)' = AttemptsOf(k)
  BY <1>2 DEF AttemptsOf, Acquired
<1>5. Counted(a)' = usd
  <2>1. lease[a] = None /\ billed[a] = None /\ presumed[a] = None
    BY RowTypes
  <2>2. billed'[a] = None /\ presumed'[a] = None
    BY <1>1, <2>1 DEF PrunedPresumed, Expired
  <2>3. Lease(usd) # None /\ Lease(usd).usd = usd
    <3>1. now \in Nat /\ now + PaidTtl \in Nat
      BY LimitsAssumption DEF LimitsAssumption, AccountInv, ChargeInv, TypeInv, TypeOK
    <3>2. Lease(usd) \in LeaseRow /\ Lease(usd).usd = usd
      BY <3>1 DEF Lease, LeaseRow
    <3> QED
      BY <3>2, NullFacts
  <2>4. lease'[a] = Lease(usd)
    BY <1>1 DEF PrunedLease
  <2> QED
    BY <2>2, <2>3, <2>4 DEF Counted, Usd
<1>6. usd > 0 => JobUsd(j) + usd <= JobCap
  BY <1>1, Zenon DEF Admitted, JobUsd
<1>7. JobUsd(j)' = Sum(Owed', S \cup {a}) /\ IsFiniteSet(S \cup {a}) /\ S \cup {a} \subseteq Attempts
  BY <1>3 DEF CapSums
<1>8. /\ \A b \in S \cup {a} : Owed'[b] \in Nat
      /\ Owed'[a] = usd
  BY <1>5, <1>7 DEF CapSums, Owed
<1> HIDE DEF S
<1>9. Sum(Owed', S \cup {a}) = usd + Sum(Owed', S)
  <2>1. (S \cup {a}) \ {a} = S
    BY <1>3
  <2>2. a \in S \cup {a}
    OBVIOUS
  <2> QED
    BY <1>7, <1>8, <2>1, <2>2, SumLeavesOut
<1> QED
  BY <1>4, <1>6, <1>7, <1>9 DEF S

\* At first nothing is acquired.
LEMMA CapAtFirst == Init => CapInv
<1> SUFFICES ASSUME Init PROVE CapInv
  OBVIOUS
<1>1. AccountInv /\ IsFiniteSet(Acquired)
  BY AccountsOpen, FiniteAtFirst DEF FiniteInv
<1>2. ASSUME NEW a \in Attempts PROVE Priced(a)
  BY DEF Init, Priced
<1> QED
  BY <1>1, <1>2 DEF CapInv

\* While the provider bills within the reservations, what a job has spent and reserved
\* grows within its cap only, whatever expires, settles late or is taken again by a stale
\* run (the admission of acquirePaidPassLease, and the sweeps and settlements that replace
\* a reservation by no more); a settlement in the place of a presumption the Cost API had
\* lowered is the exception.
THEOREM JobCapKept ==
    ASSUME BilledWithinReservations
    PROVE  Spec => JobCapHeld
<1>1. CapInv /\ [Next]_vars => CapInv'
  BY CapPreserved
<1>2. CapInv /\ CapInv' /\ [Next]_vars =>
        [\A j \in Jobs :
            JobUsd(j)' > JobUsd(j) =>
                \/ JobUsd(j)' <= JobCap
                \/ \E a \in AttemptsOf(j) : Reconciled(a) /\ ~Reconciled(a)']_vars
  <2> SUFFICES ASSUME CapInv, CapInv', [Next]_vars, NEW j \in Jobs, JobUsd(j)' > JobUsd(j),
                      \A a \in AttemptsOf(j) : ~(Reconciled(a) /\ ~Reconciled(a)')
               PROVE  JobUsd(j)' <= JobCap
    OBVIOUS
  <2>1. CapSums /\ CapSums'
    BY CapsSum, PTL
  <2>2. \A a \in Attempts : Falls(a)
    BY CapPreserved
  <2>3. /\ Sum(Owed', AttemptsOf(j)) <= JobUsd(j)
        /\ Sum(Owed', AttemptsOf(j)) \in Nat /\ JobUsd(j) \in Nat
    BY <2>1, <2>2, CapFalls
  <2>4. AttemptsOf(j)' # AttemptsOf(j)
    <3>1. JobUsd(j)' = Sum(Owed', AttemptsOf(j)')
      BY <2>1 DEF CapSums
    <3>2. AttemptsOf(j)' = AttemptsOf(j) => JobUsd(j)' = Sum(Owed', AttemptsOf(j))
      BY <3>1
    <3> QED
      BY <2>3, <3>2
  <2>5. PICK a \in Attempts, pass \in Passes, k \in Jobs, owner \in Nat, usd \in Nat :
            permit[a] = None /\ AcquirePaidPassLease(a, pass, k, owner, usd)
    BY <2>4, AcquiresOne DEF OneAcquired, CapInv, AccountInv, ChargeInv
  <2>6. permit' # permit
    BY <2>4 DEF AttemptsOf, Acquired
  <2>7. /\ JobUsd(k)' = usd + Sum(Owed', AttemptsOf(k))
        /\ usd > 0 => JobUsd(k) + usd <= JobCap
        /\ \A i \in Jobs \ {k} : AttemptsOf(i)' = AttemptsOf(i)
    BY <2>1, <2>5, <2>6, CapAdmits DEF CapInv
  <2>8. k = j
    BY <2>4, <2>7
  <2>9. JobCap \in Nat
    BY LimitsAssumption DEF LimitsAssumption
  <2> QED
    BY <2>3, <2>7, <2>8, <2>9
<1> QED
  BY <1>1, <1>2, CapAtFirst, PTL DEF Spec, JobCapHeld

===============================================================================
