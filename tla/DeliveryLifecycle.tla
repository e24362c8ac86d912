-------------------------- MODULE DeliveryLifecycle --------------------------
(***************************************************************************)
(* What the table webhook_deliveries promises of a delivery, seen from     *)
(* outside: its status and its attempt count.  A delivery is queued once;  *)
(* while it waits (pending or failed) an attempt succeeds, fails or closes *)
(* it; the last attempt that fails exhausts it; success is final and an    *)
(* exhausted delivery goes back to pending only by a manual retry.         *)
(***************************************************************************)
EXTENDS Naturals

CONSTANTS Deliveries, MaxAttempts

VARIABLES status, attempts

lifecycle == <<status, attempts>>

IsWaiting(d) == status[d] \in {"pending", "failed"}

LInit ==
    /\ status = [d \in Deliveries |-> "absent"]
    /\ attempts = [d \in Deliveries |-> 0]

Enqueue(d) ==
    /\ status[d] = "absent"
    /\ status' = [status EXCEPT ![d] = "pending"]
    /\ UNCHANGED attempts

\* One attempt on a waiting delivery ends with the status s.
Attempt(d, s) ==
    /\ IsWaiting(d)
    /\ s = "failed" => attempts[d] + 1 < MaxAttempts
    /\ status' = [status EXCEPT ![d] = s]
    /\ attempts' = [attempts EXCEPT ![d] = @ + 1]

Retry(d) ==
    /\ status[d] = "exhausted"
    /\ status' = [status EXCEPT ![d] = "pending"]
    /\ UNCHANGED attempts

LNext ==
    \E d \in Deliveries :
        \/ Enqueue(d)
        \/ \E s \in {"success", "failed", "exhausted"} : Attempt(d, s)
        \/ Retry(d)

LSpec == LInit /\ [][LNext]_lifecycle
=============================================================================
