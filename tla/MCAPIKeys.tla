----------------------------- MODULE MCAPIKeys -----------------------------
(* Small instances of APIKeys.                                             *)
EXTENDS APIKeys, TLC

CONSTANTS k1, k2, u1, u2, r1, r2

\* k1 and k2 share a prefix.
MCPrefix == [k \in Keys |-> IF k \in {k1, k2} THEN "p" ELSE "q"]

\* Keys of two users.
TwoUsers ==
    k1 :> [user |-> u1, admin |-> TRUE, tier |-> "pro"] @@
    k2 :> [user |-> u2, admin |-> TRUE, tier |-> "free"]

\* A single key at first.
LoneKey == k1 :> [user |-> u1, admin |-> TRUE, tier |-> "pro"]

\* Keys can be inserted next to the first; keys of two users meet.
LoneOrTwo == {LoneKey, TwoUsers}
=============================================================================
