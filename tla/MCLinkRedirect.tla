--------------------------- MODULE MCLinkRedirect ---------------------------
(* Instances of LinkRedirect for TLC. *)
EXTENDS LinkRedirect, TLC

CONSTANTS l1, l2, r1, r2, w1, w2

Links1 == {l1}
Links2 == {l1, l2}
Requests1 == {r1}
Requests2 == {r1, r2}
Writers1 == {w1}
Writers2 == {w1, w2}

\* Requests are interchangeable, and so are writers and row ids.
Symmetry ==
    Permutations(Links) \cup Permutations(Requests) \cup Permutations(Writers)
=============================================================================
