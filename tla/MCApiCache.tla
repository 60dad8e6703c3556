---------------------------- MODULE MCApiCache ----------------------------
(***************************************************************************)
(* ApiCache on a small instance: at one server a caller with a hard stale  *)
(* ceiling and a reader, at another a caller that is served stale for as   *)
(* long as the clock runs, and a sweeper of a third process.  g is at or   *)
(* above the compression threshold, h is not.                              *)
(***************************************************************************)
EXTENDS ApiCache

CONSTANTS s1, s2, strict, lax, reader, p, g, h

MCLarge == {g}
MCHome == [c \in Clients |-> IF c = strict THEN s1 ELSE s2]
MCTtl == [c \in Clients |-> 0]
MCCeiling == [c \in Clients |-> IF c = lax THEN MaxNow ELSE 1]
=============================================================================
