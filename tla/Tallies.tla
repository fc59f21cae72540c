------------------------------- MODULE Tallies --------------------------------
(***************************************************************************)
(* What a record of "how many, 0, 1, ... ticks ago" adds up to.  Events    *)
(* are counted as a set, the n-th of i ticks ago being <<i, n>>, so that   *)
(* totals can be compared by comparing sets.                               *)
(***************************************************************************)
EXTENDS Naturals, FiniteSets

Tally(f) == UNION {{i} \X (1..f[i]) : i \in DOMAIN f}

Total(f) == Cardinality(Tally(f))

=============================================================================
