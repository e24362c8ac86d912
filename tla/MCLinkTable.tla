----------------------------- MODULE MCLinkTable -----------------------------
(* An instance of LinkTable for TLC. *)
EXTENDS LinkTable, TLC

CONSTANTS c1, c2, c3, p, q

\* All links, those of one status, and those of one status in a time range.
SomeFilters ==
    {[status |-> "any", after |-> 1, before |-> 2],
     [status |-> "active", after |-> 1, before |-> 2],
     [status |-> "any", after |-> 2, before |-> 2]}

CodesAndCallsAreAlike == Permutations(Codes) \cup Permutations(Creators)
=============================================================================
