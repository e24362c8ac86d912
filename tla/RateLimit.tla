----------------------------- MODULE RateLimit -----------------------------
(***************************************************************************)
(* The token bucket of one API key or of one client IP: a Redis hash that  *)
(* tokenBucketScript reads and writes atomically, shared by every instance *)
(* of the server.                                                          *)
(*                                                                         *)
(* The script does not read Redis's clock.  The time it refills from is    *)
(* time.Now() of the instance, taken before the call is sent, so calls     *)
(* arrive with times that are behind, by up to Skew seconds, and not in    *)
(* order.  Rates are whole tokens per second, as those of every tier and   *)
(* of RATE_LIMIT_REDIRECT_RPS are.                                         *)
(***************************************************************************)
EXTENDS Integers

CONSTANTS
    Rate,       \* tokens per second
    Burst,      \* capacity of the bucket
    TTL,        \* rateLimitAPITTL or rateLimitIPTTL, in seconds
    Skew,       \* how far a call's time may be behind, in seconds
    MaxTime,    \* bound: seconds
    MaxFaults   \* bound: calls whose reply is an error

ASSUME RateAssumption ==
    /\ Rate \in Nat \ {0} /\ Burst \in Nat \ {0}
    /\ TTL \in Nat \ {0} /\ Skew \in Nat
    /\ MaxTime \in Nat /\ Skew <= MaxTime /\ MaxFaults \in Nat

VARIABLES
    now,       \* the time, in seconds
    live,      \* the hash exists
    tokens,    \* its fields
    last,
    exp,       \* when EXPIRE drops it
    reply,     \* what the last script run returned
    due,       \* history: when refusals told clients to come back, the
               \* earliest such time; 0 once a token has been taken since
    count,     \* history: calls let through since each second
    faults

vars == <<now, live, tokens, last, exp, reply, due, count, faults>>

hash == <<live, tokens, last, exp>>
-----------------------------------------------------------------------------
Seconds == 0 .. MaxTime

\* Times a call may carry.
Stamps == (now - Skew) .. now

\* An absent field reads as a full bucket updated now.
Stored     == IF live THEN tokens ELSE Burst
Elapsed(n) == IF live THEN n - last ELSE 0

\* math.min(burst, tokens + elapsed * rate); elapsed may be negative.
Refilled(n) ==
    LET t == Stored + Elapsed(n) * Rate
    IN  IF t > Burst THEN Burst ELSE t

Allowed(n) == Refilled(n) >= 1

\* A mutant, used to test the properties: math.floor.
RetryAfterRoundedDown(n) == (1 - Refilled(n)) \div Rate

\* math.ceil((1 - tokens) / rate)
RetryAfter(n) == (Rate - Refilled(n)) \div Rate

NoReply == [allowed |-> TRUE, remaining |-> Burst]

Init ==
    /\ now = Skew
    /\ live = FALSE /\ tokens = 0 /\ last = 0 /\ exp = 0
    /\ reply = NoReply
    /\ due = 0
    /\ count = [s \in Seconds |-> 0]
    /\ faults = 0

Earliest(d, t) == IF d = 0 \/ t < d THEN t ELSE d

LetThrough == count' = [s \in Seconds |-> IF s <= now THEN count[s] + 1 ELSE count[s]]

\* A mutant, used to test the properties: last_update is not written back.
ScriptKeepsLast(n) ==
    LET left == IF Allowed(n) THEN Refilled(n) - 1 ELSE Refilled(n)
    IN  /\ live' = TRUE /\ tokens' = left /\ exp' = now + TTL
        /\ last' = IF live THEN last ELSE n
        /\ reply' = [allowed |-> Allowed(n), remaining |-> left]
        /\ due' = 0

\* tokenBucketScript: refill, take a token or compute when one will be there,
\* HMSET, EXPIRE.
Script(n) ==
    LET left == IF Allowed(n) THEN Refilled(n) - 1 ELSE Refilled(n)
    IN  /\ live' = TRUE /\ tokens' = left /\ last' = n /\ exp' = now + TTL
        /\ reply' = [allowed |-> Allowed(n), remaining |-> left]
        /\ due' = IF Allowed(n) THEN 0 ELSE Earliest(due, n + RetryAfter(n))

\* checkRateLimit and the middleware: the request goes on or gets a 429.
CheckRateLimit(n) ==
    /\ Script(n)
    /\ IF Allowed(n) THEN LetThrough ELSE UNCHANGED count
    /\ UNCHANGED <<now, faults>>

\* An error from Redis lets the request through, whether or not the script
\* has run.
FailOpen(n) ==
    /\ faults < MaxFaults /\ faults' = faults + 1
    /\ LetThrough
    /\ Script(n) \/ UNCHANGED <<hash, reply, due>>
    /\ UNCHANGED now

\* Redis drops the hash TTL after the last call, within that second ...
Expire ==
    /\ live /\ now = exp
    /\ live' = FALSE /\ tokens' = 0 /\ last' = 0 /\ exp' = 0
    /\ UNCHANGED <<now, reply, due, count, faults>>

\* ... and by the end of it at the latest.
Tick ==
    /\ now < MaxTime
    /\ live => now < exp
    /\ now' = now + 1
    /\ UNCHANGED <<hash, reply, due, count, faults>>

Next ==
    \/ \E n \in Stamps : CheckRateLimit(n) \/ FailOpen(n)
    \/ Expire
    \/ Tick

Spec == Init /\ [][Next]_vars
-----------------------------------------------------------------------------
(* Properties.                                                             *)

\* The types.  The bucket holds no more than the burst and owes no more than
\* calls that are Skew seconds behind can take from it (tokenBucketScript).
TypeOK ==
    /\ now \in Skew .. MaxTime
    /\ live \in BOOLEAN
    /\ tokens \in (0 - Skew * Rate) .. Burst
    /\ last \in Nat /\ exp \in Nat
    /\ reply \in [allowed : BOOLEAN, remaining : Int]
    /\ due \in Nat
    /\ count \in [Seconds -> Nat]
    /\ faults \in 0 .. MaxFaults

\* In no span of time do more calls get through than the burst and the rate
\* allow, but for the time calls are behind and the calls Redis failed: neither
\* calls that arrive out of order nor the expiry of the hash add tokens.
AdmissionBounded ==
    \A s \in Skew .. now :
        count[s] <= Burst + Rate * (now - s + Skew) + faults

\* What AdmissionBounded needs of the configuration: a hash that expires had
\* had the time to fill up anyway.
TTLCoversBurst == Burst + 2 * Skew * Rate <= TTL * Rate

\* A refused client that comes back at the time it was told is served, if no
\* token was taken meanwhile: other refusals do not put it off.
RetryIsEnough == due > 0 => Allowed(due)

\* What makes them inductive.  A call at time c = exp - TTL carried a time last
\* within Skew of it and left a debt of tokens that the time to c makes up for.
BucketInv ==
    /\ live => /\ last \in (exp - TTL - Skew) .. (exp - TTL)
               /\ now \in (exp - TTL) .. exp
               /\ 0 <= tokens + (exp - TTL - last) * Rate
    /\ ~live => tokens = 0

\* tokens - last * Rate never grows while the hash lives, so what got through
\* since s is paid for by it; without a hash, by the time since s.
Paid(s) ==
    IF live THEN tokens - last * Rate <= Burst - (s - Skew) * Rate - (count[s] - faults)
            ELSE count[s] - faults <= (now - s) * Rate

CountInv ==
    /\ \A s \in Skew .. now : count[s] <= faults \/ Paid(s)
    /\ \A s \in Seconds : s > now => count[s] = 0
=============================================================================
