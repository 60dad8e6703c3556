---------------------------- MODULE AttemptAccount ----------------------------
(***************************************************************************)
(* What the paid-pass ledger promises about the money of each attempt: the *)
(* life of its account, whoever acts on it and in whatever order.          *)
(*                                                                         *)
(* Money is reserved before it can be spent.  A reservation ends given     *)
(* back, measured, or counted as a guess that is no less than the charge,  *)
(* or is the whole reservation.  Evidence lowers a guess or replaces it by *)
(* a measurement; a measurement is exact and final, and an account is      *)
(* opened once.  One exception has a phase of its own: a call that ends    *)
(* short is counted at less than it may be charged.                        *)
(***************************************************************************)
EXTENDS Integers

CONSTANT Attempts

VARIABLE account    \* per attempt: its phase, what was reserved for it, what the
                    \* caps count for it, what the provider charged for it

Phases == {"unopened", "reserved", "guessed", "lowered", "measured", "empty", "short"}

Account == [phase : Phases, limit : Nat, owed : Nat, due : Nat]

Open(a) == account[a].phase \in {"reserved", "guessed", "lowered"}

Goes(a, phase, limit, owed) ==
    account'[a] = [phase |-> phase, limit |-> limit, owed |-> owed, due |-> account[a].due]

\* A guess that no charge exceeds, up to the limit.
Covers(owed, limit, due) == owed > 0 /\ owed <= limit /\ (due <= owed \/ owed = limit)

Init ==
    account = [a \in Attempts |-> [phase |-> "unopened", limit |-> 0, owed |-> 0, due |-> 0]]

\* acquirePaidPassLease
Reserve(a) ==
    /\ account[a].phase = "unopened"
    /\ Goes(a, "reserved", account'[a].limit, account'[a].limit)

\* resizePaidPassLease
Shrink(a) == account[a].phase = "reserved" /\ Goes(a, "reserved", 0, 0)

\* The provider charges for the attempt, once, and within a guess that stands.
Charge(a) ==
    /\ Open(a) \/ account[a].phase = "short"
    /\ account[a].due = 0
    /\ account'[a] = [account[a] EXCEPT !.due = account'[a].due]
    /\ account[a].phase = "guessed" =>
           Covers(account[a].owed, account[a].limit, account'[a].due)

\* Nothing is counted any more only when nothing was charged:
\* releaseUnbilledPaidPassLease, the sweep of an empty lease, an unbilled settlement.
Close(a) == Open(a) /\ account[a].due = 0 /\ Goes(a, "empty", account[a].limit, 0)

\* The sweep, or the settlement of a call whose end nobody saw.
Guess(a) ==
    /\ Open(a) /\ Covers(account'[a].owed, account[a].limit, account[a].due)
    /\ Goes(a, "guessed", account[a].limit, account'[a].owed)

\* A settlement reports exactly what the attempt was charged.
Measure(a) ==
    /\ Open(a) /\ account[a].due > 0
    /\ Goes(a, "measured", account[a].limit, account[a].due)

\* The call ends short: recorded at the part reported, presumed without its input, or
\* given back although it was sent.
EndShort(a) ==
    /\ Open(a) /\ account'[a].owed <= account[a].limit
    /\ Goes(a, "short", account[a].limit, account'[a].owed)

\* The Cost API's totals lower a guess.
Lower(a) ==
    /\ account[a].phase \in {"guessed", "lowered", "short"}
    /\ account'[a].owed < account[a].owed
    /\ Goes(a, IF account[a].phase = "short" THEN "short" ELSE "lowered",
            account[a].limit, account'[a].owed)

Step(a) ==
    \/ account'[a] = account[a]
    \/ Reserve(a) \/ Shrink(a) \/ Charge(a) \/ Close(a)
    \/ Guess(a) \/ Measure(a) \/ EndShort(a) \/ Lower(a)

\* One transaction may move several accounts: a sweep takes every expired lease.
Next == account' \in [Attempts -> Account] /\ \A a \in Attempts : Step(a)

Spec == Init /\ [][Next]_account

===============================================================================
