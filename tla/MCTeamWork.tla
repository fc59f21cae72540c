------------------------------ MODULE MCTeamWork ------------------------------
(***************************************************************************)
(* Small instances of TeamWork: two members and two works over two         *)
(* months, with a reward of nothing, one at the limit and one above it.    *)
(***************************************************************************)
EXTENDS TeamWork, TLC

Symmetry == Permutations(Works) \cup Permutations(Members) \cup Permutations(ReportIds)
              \cup Permutations(References) \cup Permutations(Requests)

=============================================================================
