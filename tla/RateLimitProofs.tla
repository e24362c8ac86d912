-------------------------- MODULE RateLimitProofs --------------------------
(***************************************************************************)
(* Proofs about RateLimit, for any rate, burst, time to live, skew and     *)
(* bounds.                                                                 *)
(***************************************************************************)
EXTENDS RateLimit, TLAPS

(***************************************************************************)
(* Arithmetic.                                                             *)
(***************************************************************************)

\* Multiplication by the rate keeps the order.
LEMMA Monotone ==
    ASSUME NEW x \in Int, NEW y \in Int, x <= y
    PROVE  x * Rate <= y * Rate
<1>1. Rate \in Nat
  BY RateAssumption
<1>2. PICK d \in Nat : y = x + d
  <2>1. y - x \in Nat /\ y = x + (y - x)
    OBVIOUS
  <2> QED
    BY <2>1
<1>3. d * Rate \in Nat
  BY <1>1, <1>2
<1>4. y * Rate = x * Rate + d * Rate
  BY <1>1, <1>2
<1> QED
  BY <1>1, <1>3, <1>4

\* Multiplication by the rate distributes.
LEMMA Distributes ==
    ASSUME NEW x \in Int, NEW y \in Int
    PROVE  /\ (x + y) * Rate = x * Rate + y * Rate
           /\ (x - y) * Rate = x * Rate - y * Rate
           /\ Rate * x = x * Rate
           /\ x * Rate \in Int
BY RateAssumption

\* Rounding up: RetryAfter seconds bring at least the missing tokens.
LEMMA RoundsUp ==
    ASSUME NEW t \in Int, t < 1
    PROVE  /\ (Rate - t) \div Rate \in Nat \ {0}
           /\ t + ((Rate - t) \div Rate) * Rate >= 1
<1> DEFINE q == (Rate - t) \div Rate
           m == (Rate - t) % Rate
<1>1. Rate \in Nat /\ Rate > 0 /\ Rate - t \in Int /\ Rate - t >= Rate
  BY RateAssumption
<1>2. q \in Int /\ m \in 0 .. (Rate - 1) /\ Rate - t = Rate * q + m
  BY <1>1
<1>3. Rate * q >= 1 - t
  BY <1>1, <1>2
<1>4. q >= 1
  <2> SUFFICES ASSUME q <= 0 PROVE FALSE
    BY <1>2
  <2>1. q * Rate <= 0 * Rate
    BY <1>2, Monotone
  <2> QED
    BY <1>1, <1>2, <1>3, <2>1
<1> QED
  BY <1>1, <1>2, <1>3, <1>4

(***************************************************************************)
(* Types, and the debt of the bucket.                                      *)
(***************************************************************************)

\* The empty bucket has its type.
LEMMA BucketInit == Init => TypeOK /\ BucketInv
<1> SUFFICES ASSUME Init PROVE TypeOK /\ BucketInv
  OBVIOUS
<1>1. Skew * Rate \in Nat
  BY RateAssumption
<1>2. tokens \in (0 - Skew * Rate) .. Burst
  BY <1>1, RateAssumption DEF Init
<1>3. reply \in [allowed : BOOLEAN, remaining : Int]
  BY RateAssumption DEF Init, NoReply
<1>4. count \in [Seconds -> Nat]
  BY DEF Init
<1>5. now \in Skew .. MaxTime /\ faults \in 0 .. MaxFaults
  BY RateAssumption DEF Init
<1>6. live = FALSE /\ last = 0 /\ exp = 0 /\ due = 0 /\ tokens = 0
  BY DEF Init
<1>7. TypeOK
  BY <1>2, <1>3, <1>4, <1>5, <1>6 DEF TypeOK
<1>8. BucketInv
  BY <1>6, Zenon DEF BucketInv
<1> QED
  BY <1>7, <1>8

\* What a run of the script computes from: a refilled bucket is never above the
\* burst, gains nothing on tokens - last * Rate, and owes no more than the
\* time a call may be behind.
LEMMA RefillFacts ==
    ASSUME TypeOK, BucketInv, NEW n \in Stamps
    PROVE  /\ n \in Nat /\ n \in (now - Skew) .. now /\ now \in Nat
           /\ Refilled(n) \in Int /\ Refilled(n) <= Burst
           /\ live => Refilled(n) - n * Rate <= tokens - last * Rate
           /\ ~live => Refilled(n) = Burst
           /\ 0 <= Refilled(n) + (now - n) * Rate
           /\ Refilled(n) < 1 =>
                live /\ Refilled(n) - n * Rate = tokens - last * Rate
<1>1. /\ n \in Nat /\ n \in (now - Skew) .. now /\ now \in Nat
      /\ Rate \in Nat /\ Burst \in Nat /\ Burst >= 1 /\ TTL \in Nat
      /\ tokens \in Int /\ last \in Nat /\ exp \in Nat /\ Skew \in Nat
  <2>1. Skew * Rate \in Int
    BY RateAssumption
  <2> QED
    BY <2>1, RateAssumption DEF TypeOK, Stamps
<1>2. 0 <= (now - n) * Rate /\ (now - n) * Rate \in Int
  <2>1. 0 <= now - n
    BY <1>1
  <2>2. 0 * Rate <= (now - n) * Rate
    BY <1>1, <2>1, Monotone
  <2> QED
    BY <1>1, <2>2
<1>3. CASE ~live
  <2>1. Refilled(n) = Burst
    BY <1>1, <1>3 DEF Refilled, Stored, Elapsed
  <2> QED
    BY <1>1, <1>2, <1>3, <2>1
<1>4. CASE live
  <2> DEFINE t == tokens + (n - last) * Rate
  <2>1. t \in Int /\ t - n * Rate = tokens - last * Rate
    BY <1>1, Distributes
  <2>2. Refilled(n) = IF t > Burst THEN Burst ELSE t
    BY <1>4 DEF Refilled, Stored, Elapsed
  <2>3. 0 <= t + (now - n) * Rate
    <3> DEFINE c == exp - TTL
    <3>1. c <= now /\ c \in Int /\ 0 <= tokens + (c - last) * Rate
      BY <1>1, <1>4 DEF BucketInv
    <3>2. c * Rate <= now * Rate
      BY <1>1, <3>1, Monotone
    <3>3. (c - last) * Rate = c * Rate - last * Rate /\ c * Rate \in Int
      BY <1>1, <3>1, Distributes
    <3>4. (now - n) * Rate = now * Rate - n * Rate /\ now * Rate \in Int
      BY <1>1, Distributes
    <3>5. n * Rate \in Int /\ last * Rate \in Int
      BY <1>1
    <3> HIDE DEF t, c
    <3> QED
      BY <1>1, <2>1, <3>1, <3>2, <3>3, <3>4, <3>5
  <2>4. n * Rate \in Int /\ last * Rate \in Int
    BY <1>1
  <2> HIDE DEF t
  <2> QED
    BY <1>1, <1>2, <1>4, <2>1, <2>2, <2>3, <2>4
<1> QED
  BY <1>3, <1>4

\* A run of the script keeps the types and the debt.
LEMMA BucketScript ==
    ASSUME TypeOK, BucketInv, NEW n \in Stamps, Script(n), UNCHANGED now,
           count' \in [Seconds -> Nat], faults' \in 0 .. MaxFaults
    PROVE  TypeOK' /\ BucketInv'
<1> DEFINE left == IF Allowed(n) THEN Refilled(n) - 1 ELSE Refilled(n)
<1>1. /\ n \in Nat /\ n \in (now - Skew) .. now /\ now \in Nat
      /\ Refilled(n) \in Int /\ Refilled(n) <= Burst
      /\ 0 <= Refilled(n) + (now - n) * Rate
  BY RefillFacts
<1>2. /\ live' = TRUE /\ tokens' = left /\ last' = n /\ exp' = now + TTL
      /\ reply' = [allowed |-> Allowed(n), remaining |-> left]
      /\ due' = IF Allowed(n) THEN 0 ELSE Earliest(due, n + RetryAfter(n))
  BY DEF Script
<1>3. 0 <= (now - n) * Rate /\ (now - n) * Rate <= Skew * Rate
      /\ (now - n) * Rate \in Int /\ Skew * Rate \in Int
  <2>1. 0 <= now - n /\ now - n <= Skew /\ Skew \in Nat
    BY <1>1, RateAssumption
  <2>2. 0 * Rate <= (now - n) * Rate /\ (now - n) * Rate <= Skew * Rate
    BY <1>1, <2>1, Monotone
  <2> QED
    BY <1>1, <2>1, <2>2, RateAssumption
<1>4. left \in Int /\ left <= Burst /\ 0 <= left + (now - n) * Rate
  BY <1>1, <1>3, RateAssumption DEF Allowed
<1>5. left \in (0 - Skew * Rate) .. Burst
  BY <1>3, <1>4, RateAssumption
<1>6. due' \in Nat
  <2>1. Refilled(n) < 1 => RetryAfter(n) \in Nat \ {0}
    BY <1>1, RoundsUp DEF RetryAfter
  <2>2. due \in Nat
    BY DEF TypeOK
  <2> QED
    BY <1>1, <1>2, <2>1, <2>2 DEF Allowed, Earliest
<1>7. reply' \in [allowed : BOOLEAN, remaining : Int]
  BY <1>2, <1>4 DEF Allowed
<1>8. now + TTL - TTL = now /\ now + TTL \in Nat /\ now \in now .. (now + TTL)
  BY <1>1, RateAssumption
<1>9. BucketInv'
  <2>0. exp' - TTL = now /\ last' = n /\ tokens' = left /\ now' = now
    <3>1. exp' = now + TTL /\ last' = n /\ tokens' = left
      BY <1>2
    <3>2. now \in Nat /\ TTL \in Nat
      BY <1>1, RateAssumption
    <3>3. exp' - TTL = now
      BY <3>1, <3>2
    <3> QED
      BY <3>1, <3>3
  <2>1. last' \in (exp' - TTL - Skew) .. (exp' - TTL)
    BY <1>1, <2>0
  <2>2. now' \in (exp' - TTL) .. exp'
    BY <1>2, <1>8, <2>0
  <2>3. 0 <= tokens' + (exp' - TTL - last') * Rate
    <3> HIDE DEF left
    <3> QED
      BY <1>4, <2>0
  <2>4. live' = TRUE
    BY <1>2
  <2> QED
    BY <2>1, <2>2, <2>3, <2>4, Zenon DEF BucketInv
<1> QED
  BY <1>1, <1>2, <1>5, <1>6, <1>7, <1>8, <1>9 DEF TypeOK

\* Calls let through are counted.
LEMMA CountType ==
    ASSUME TypeOK, LetThrough
    PROVE  count' \in [Seconds -> Nat]
BY DEF TypeOK, LetThrough

\* Every step keeps the types and the debt.
LEMMA BucketNext == TypeOK /\ BucketInv /\ [Next]_vars => TypeOK' /\ BucketInv'
<1> SUFFICES ASSUME TypeOK, BucketInv, [Next]_vars PROVE TypeOK' /\ BucketInv'
  OBVIOUS
<1>1. ASSUME NEW n \in Stamps, CheckRateLimit(n) PROVE TypeOK' /\ BucketInv'
  <2>1. count' \in [Seconds -> Nat] /\ faults' \in 0 .. MaxFaults
    BY <1>1, CountType DEF CheckRateLimit, TypeOK
  <2> QED
    BY <1>1, <2>1, BucketScript DEF CheckRateLimit
<1>2. ASSUME NEW n \in Stamps, FailOpen(n) PROVE TypeOK' /\ BucketInv'
  <2>1. count' \in [Seconds -> Nat]
    BY <1>2, CountType DEF FailOpen
  <2>2. faults' \in 0 .. MaxFaults
    BY <1>2, RateAssumption DEF FailOpen, TypeOK
  <2>3. CASE Script(n)
    BY <1>2, <2>1, <2>2, <2>3, BucketScript DEF FailOpen
  <2>4. CASE UNCHANGED <<hash, reply, due>>
    BY <1>2, <2>1, <2>2, <2>4 DEF FailOpen, TypeOK, BucketInv, hash
  <2> QED
    BY <1>2, <2>3, <2>4 DEF FailOpen
<1>3. CASE Expire
  <2>1. Skew * Rate \in Nat
    BY RateAssumption
  <2>2. 0 \in (0 - Skew * Rate) .. Burst
    BY <2>1, RateAssumption
  <2>3. live' = FALSE /\ tokens' = 0 /\ last' = 0 /\ exp' = 0
        /\ UNCHANGED <<now, reply, due, count, faults>>
    BY <1>3 DEF Expire
  <2>4. TypeOK'
    BY <2>2, <2>3 DEF TypeOK
  <2>5. BucketInv'
    BY <2>3, Zenon DEF BucketInv
  <2> QED
    BY <2>4, <2>5
<1>4. CASE Tick
  <2>1. now' \in Skew .. MaxTime /\ now' = now + 1 /\ now \in Int
    BY <1>4, RateAssumption DEF Tick, TypeOK
  <2>2. live => now' \in (exp - TTL) .. exp
    BY <1>4, <2>1, RateAssumption DEF Tick, TypeOK, BucketInv
  <2> QED
    BY <1>4, <2>1, <2>2 DEF Tick, TypeOK, BucketInv, hash
<1>5. CASE UNCHANGED vars
  BY <1>5 DEF vars, TypeOK, BucketInv
<1> QED
  BY <1>1, <1>2, <1>3, <1>4, <1>5 DEF Next

\* The bucket has its type: it never holds more than the burst, nor owes more
\* than calls can be behind.
THEOREM TypeCorrect == Spec => []TypeOK
BY BucketInit, BucketNext, PTL DEF Spec

(***************************************************************************)
(* Retry-After.                                                            *)
(***************************************************************************)

\* Allowed, in terms of the hash.
LEMMA AllowedFacts ==
    ASSUME TypeOK, NEW t \in Nat
    PROVE  Allowed(t) <=> (live => tokens + (t - last) * Rate >= 1)
<1>1. Burst >= 1 /\ Burst \in Nat /\ (t - last) * Rate \in Int
  BY RateAssumption DEF TypeOK
<1>2. tokens \in Int
  BY RateAssumption DEF TypeOK
<1>3. CASE live
  <2>1. Refilled(t) = IF tokens + (t - last) * Rate > Burst THEN Burst
                      ELSE tokens + (t - last) * Rate
    BY <1>3 DEF Refilled, Stored, Elapsed
  <2> QED
    BY <1>1, <1>2, <1>3, <2>1 DEF Allowed
<1>4. CASE ~live
  <2>1. Refilled(t) = IF Burst + 0 * Rate > Burst THEN Burst ELSE Burst + 0 * Rate
    BY <1>4 DEF Refilled, Stored, Elapsed
  <2>2. 0 * Rate = 0
    BY RateAssumption
  <2>3. Refilled(t) >= 1
    BY <1>1, <2>1, <2>2
  <2> QED
    BY <1>4, <2>3 DEF Allowed
<1> QED
  BY <1>3, <1>4

\* A run of the script keeps the promise made to refused clients, or takes a
\* token.
LEMMA RetryScript ==
    ASSUME TypeOK, BucketInv, RetryIsEnough, TypeOK', NEW n \in Stamps, Script(n)
    PROVE  RetryIsEnough'
<1>1. CASE Allowed(n)
  BY <1>1 DEF Script, RetryIsEnough
<1>2. CASE ~Allowed(n)
  <2> DEFINE r == Refilled(n)
  <2>1. r \in Int /\ n \in Nat /\ r < 1 /\ live /\ r - n * Rate = tokens - last * Rate
    BY <1>2, RefillFacts DEF Allowed
  <2>2. live' /\ tokens' = r /\ last' = n /\ due' = Earliest(due, n + RetryAfter(n))
    BY <1>2 DEF Script
  <2>3. RetryAfter(n) \in Nat \ {0} /\ r + RetryAfter(n) * Rate >= 1
    BY <2>1, RoundsUp DEF RetryAfter
  <2>4. due \in Nat /\ tokens \in Int /\ last \in Nat /\ Rate \in Nat
    BY RateAssumption DEF TypeOK
  <2>5. ASSUME NEW d \in Nat, r + (d - n) * Rate >= 1, due' = d PROVE RetryIsEnough'
    BY <2>2, <2>5, AllowedFacts, RateAssumption
       DEF RetryIsEnough, Allowed, Refilled, Stored, Elapsed
  <2>6. CASE due' = n + RetryAfter(n)
    <3> DEFINE d == n + RetryAfter(n)
    <3>1. d - n = RetryAfter(n) /\ d \in Nat
      BY <2>1, <2>3
    <3>2. r + (d - n) * Rate >= 1
      BY <2>3, <3>1
    <3>3. due' = d
      BY <2>6
    <3> HIDE DEF d, r
    <3> QED
      BY <2>5, <3>1, <3>2, <3>3
  <2>7. CASE due' = due /\ due # 0
    <3>1. tokens + (due - last) * Rate >= 1
      BY <2>1, <2>4, <2>7, AllowedFacts DEF RetryIsEnough
    <3>2. (due - last) * Rate = due * Rate - last * Rate
          /\ (due - n) * Rate = due * Rate - n * Rate
      BY <2>1, <2>4, Distributes
    <3>3. due * Rate \in Int /\ last * Rate \in Int /\ n * Rate \in Int
      BY <2>1, <2>4
    <3>4. r + (due - n) * Rate >= 1
      BY <2>1, <2>4, <3>1, <3>2, <3>3
    <3> QED
      BY <2>4, <2>5, <2>7, <3>4
  <2> QED
    BY <2>2, <2>6, <2>7 DEF Earliest
<1> QED
  BY <1>1, <1>2

\* A refused client that comes back when told is served, unless a token was
\* taken meanwhile.
THEOREM RetryCorrect == Spec => []RetryIsEnough
<1>1. Init => RetryIsEnough
  BY DEF Init, RetryIsEnough
<1>2. TypeOK /\ BucketInv /\ RetryIsEnough /\ TypeOK' /\ [Next]_vars => RetryIsEnough'
  <2> SUFFICES ASSUME TypeOK, BucketInv, RetryIsEnough, TypeOK', [Next]_vars
               PROVE  RetryIsEnough'
    OBVIOUS
  <2>1. ASSUME NEW n \in Stamps, CheckRateLimit(n) \/ FailOpen(n)
        PROVE  RetryIsEnough'
    <3>1. CASE Script(n)
      BY <3>1, RetryScript
    <3>2. CASE UNCHANGED <<hash, reply, due>>
      BY <3>2 DEF hash, RetryIsEnough, Allowed, Refilled, Stored, Elapsed
    <3> QED
      BY <2>1, <3>1, <3>2 DEF CheckRateLimit, FailOpen
  <2>2. CASE Expire
    BY <2>2, RateAssumption DEF Expire, RetryIsEnough, Allowed, Refilled, Stored, Elapsed
  <2>3. CASE Tick \/ UNCHANGED vars
    BY <2>3 DEF Tick, vars, hash, RetryIsEnough, Allowed, Refilled, Stored, Elapsed
  <2> QED
    BY <2>1, <2>2, <2>3 DEF Next
<1> QED
  BY <1>1, <1>2, BucketInit, BucketNext, TypeCorrect, PTL DEF Spec

(***************************************************************************)
(* How many calls get through.                                             *)
(***************************************************************************)

\* The values of the state as numbers, and the products the proofs use.
LEMMA Numbers ==
    ASSUME TypeOK, NEW s \in Skew .. now
    PROVE  /\ now \in Nat /\ s \in Nat /\ s \in Seconds /\ s <= now
           /\ tokens \in Int /\ last \in Nat /\ exp \in Nat /\ faults \in Nat
           /\ count[s] \in Nat /\ Burst \in Nat /\ Skew \in Nat /\ TTL \in Nat
           /\ last * Rate \in Int /\ now * Rate \in Int /\ s * Rate \in Int
           /\ Skew * Rate \in Nat /\ TTL * Rate \in Nat
           /\ (s - Skew) * Rate = s * Rate - Skew * Rate
           /\ (now - s) * Rate = now * Rate - s * Rate
<1>1. Rate \in Nat /\ Burst \in Nat /\ Skew \in Nat /\ TTL \in Nat /\ MaxTime \in Nat
  BY RateAssumption
<1>2. now \in Nat /\ s \in Nat /\ s \in Seconds /\ s <= now
  BY <1>1 DEF TypeOK, Seconds
<1>3. tokens \in Int /\ last \in Nat /\ exp \in Nat /\ faults \in Nat /\ count[s] \in Nat
  BY <1>1, <1>2, RateAssumption DEF TypeOK
<1>4. (s - Skew) * Rate = s * Rate - Skew * Rate /\ (now - s) * Rate = now * Rate - s * Rate
  BY <1>1, <1>2, Distributes
<1>5. /\ last * Rate \in Int /\ now * Rate \in Int /\ s * Rate \in Int
      /\ Skew * Rate \in Nat /\ TTL * Rate \in Nat
  BY <1>1, <1>2, <1>3
<1> QED
  BY <1>1, <1>2, <1>3, <1>4, <1>5

\* Since the start nothing got through.
LEMMA CountInit == Init => CountInv
<1> SUFFICES ASSUME Init PROVE CountInv
  OBVIOUS
<1>1. \A s \in Seconds : count[s] = 0 /\ faults = 0
  BY DEF Init
<1>2. \A s \in Skew .. now : s \in Seconds
  BY RateAssumption DEF Init, Seconds
<1> QED
  BY <1>1, <1>2 DEF CountInv

\* A run of the script pays for the call it lets through: with a hash,
\* tokens - last * Rate drops by one; without, the new bucket is worth no more
\* than the time since s and the burst.  slack is what a fault adds.
LEMMA CountScript ==
    ASSUME TypeOK, BucketInv, CountInv, TypeOK', NEW n \in Stamps, Script(n),
           UNCHANGED now, NEW slack \in {0, 1}, faults' = faults + slack,
           \/ LetThrough /\ (slack = 1 \/ Allowed(n))
           \/ UNCHANGED count /\ slack = 0
    PROVE  CountInv'
<1>1. ASSUME NEW s \in Skew .. now PROVE count'[s] <= faults' \/ Paid(s)'
  <2> DEFINE left == IF Allowed(n) THEN Refilled(n) - 1 ELSE Refilled(n)
  <2>1. /\ n \in Nat /\ n \in (now - Skew) .. now
        /\ Refilled(n) \in Int /\ Refilled(n) <= Burst
        /\ live => Refilled(n) - n * Rate <= tokens - last * Rate
        /\ ~live => Refilled(n) = Burst
    BY RefillFacts
  <2>2. live' = TRUE /\ tokens' = left /\ last' = n
    BY DEF Script
  <2>3. /\ now \in Nat /\ s \in Nat /\ s \in Seconds /\ s <= now
        /\ tokens \in Int /\ last \in Nat /\ faults \in Nat
        /\ count[s] \in Nat /\ Burst \in Nat /\ Skew \in Nat
        /\ last * Rate \in Int /\ now * Rate \in Int /\ s * Rate \in Int
        /\ Skew * Rate \in Nat
        /\ (s - Skew) * Rate = s * Rate - Skew * Rate
        /\ (now - s) * Rate = now * Rate - s * Rate
    BY Numbers
  <2>4. n * Rate \in Int /\ now * Rate - Skew * Rate <= n * Rate
        /\ s * Rate - Skew * Rate <= n * Rate
    <3>1. now - Skew <= n /\ s - Skew <= n
      BY <2>1, <2>3
    <3>2. (now - Skew) * Rate <= n * Rate /\ (s - Skew) * Rate <= n * Rate
      BY <2>1, <2>3, <3>1, Monotone
    <3>3. (now - Skew) * Rate = now * Rate - Skew * Rate /\ n * Rate \in Int
      BY <2>1, <2>3, Distributes
    <3> QED
      BY <2>3, <3>2, <3>3
  <2>5. count'[s] - faults' \in Int /\ left \in Int
        /\ count'[s] - faults' + left <= count[s] - faults + Refilled(n)
        /\ count'[s] - faults' <= count[s] - faults + 1
        /\ (count'[s] - faults' > count[s] - faults => left = Refilled(n) - 1)
    <3>1. CASE UNCHANGED count /\ slack = 0
      BY <2>1, <2>3, <3>1 DEF Allowed
    <3>2. CASE LetThrough /\ (slack = 1 \/ Allowed(n))
      <4>1. count'[s] = count[s] + 1
        BY <2>3, <3>2 DEF LetThrough
      <4> QED
        BY <2>1, <2>3, <3>2, <4>1 DEF Allowed
    <3> QED
      BY <3>1, <3>2
  <2>6. count'[s] \in Int /\ faults' \in Int
    BY <2>3 DEF TypeOK
  <2>7. Paid(s)' <=> left - n * Rate <= Burst - (s - Skew) * Rate - (count'[s] - faults')
    BY <2>2 DEF Paid
  <2>8. CASE count[s] <= faults
    <3>1. CASE count'[s] <= faults'
      BY <3>1
    <3>2. CASE ~(count'[s] <= faults')
      <4>1. count'[s] - faults' = 1 /\ left = Refilled(n) - 1
        BY <2>3, <2>5, <2>6, <2>8, <3>2
      <4> HIDE DEF left
      <4> QED
        BY <2>1, <2>3, <2>4, <2>7, <4>1
    <3> QED
      BY <3>1, <3>2
  <2>9. CASE live /\ Paid(s)
    <3>1. tokens - last * Rate <= Burst - (s - Skew) * Rate - (count[s] - faults)
      BY <2>9 DEF Paid
    <3>2. Refilled(n) - n * Rate <= tokens - last * Rate
      BY <2>1, <2>9
    <3> HIDE DEF left
    <3> QED
      BY <2>1, <2>3, <2>4, <2>5, <2>6, <2>7, <3>1, <3>2
  <2>10. CASE ~live /\ Paid(s)
    <3>1. count[s] - faults <= (now - s) * Rate
      BY <2>10 DEF Paid
    <3>2. Refilled(n) = Burst
      BY <2>1, <2>10
    <3> HIDE DEF left
    <3> QED
      BY <2>1, <2>3, <2>4, <2>5, <2>6, <2>7, <3>1, <3>2
  <2> QED
    BY <2>8, <2>9, <2>10 DEF CountInv
<1>2. ASSUME NEW s \in Seconds, s > now PROVE count'[s] = 0
  BY <1>2 DEF CountInv, LetThrough, TypeOK, Seconds
<1> QED
  BY <1>1, <1>2 DEF CountInv

\* Losing the hash is no gain, since TTL is time enough to fill the bucket.
LEMMA CountExpire ==
    ASSUME TTLCoversBurst, TypeOK, BucketInv, CountInv, Expire
    PROVE  CountInv'
<1>1. ASSUME NEW s \in Skew .. now, ~(count[s] <= faults)
      PROVE  count[s] - faults <= (now - s) * Rate
  <2>1. /\ now \in Nat /\ s \in Nat /\ s <= now
        /\ tokens \in Int /\ last \in Nat /\ exp \in Nat /\ faults \in Nat
        /\ count[s] \in Nat /\ Burst \in Nat /\ Skew \in Nat /\ TTL \in Nat
        /\ last * Rate \in Int /\ now * Rate \in Int /\ s * Rate \in Int
        /\ Skew * Rate \in Nat /\ TTL * Rate \in Nat
        /\ (s - Skew) * Rate = s * Rate - Skew * Rate
        /\ (now - s) * Rate = now * Rate - s * Rate
    BY Numbers
  <2>2. live /\ now = exp
    BY DEF Expire
  <2>3. tokens - last * Rate <= Burst - (s - Skew) * Rate - (count[s] - faults)
    BY <1>1, <2>2 DEF CountInv, Paid
  <2> DEFINE c == exp - TTL
  <2>4. c \in Int /\ c = now - TTL /\ last \in (c - Skew) .. c
        /\ 0 <= tokens + (c - last) * Rate
    BY <2>1, <2>2 DEF BucketInv
  <2>5. (c - last) * Rate = c * Rate - last * Rate
        /\ c * Rate = now * Rate - TTL * Rate /\ c * Rate \in Int
    BY <2>1, <2>4, Distributes
  <2>6. Burst + 2 * (Skew * Rate) <= TTL * Rate
    <3>1. 2 * Skew * Rate = 2 * (Skew * Rate)
      BY RateAssumption
    <3> QED
      BY <3>1 DEF TTLCoversBurst
  <2> HIDE DEF c
  <2> QED
    BY <2>1, <2>3, <2>4, <2>5, <2>6
<1>2. live' = FALSE /\ UNCHANGED <<now, count, faults>>
  BY DEF Expire
<1>3. \A s \in Skew .. now : count[s] <= faults \/ Paid(s)'
  BY <1>1, <1>2 DEF Paid
<1> QED
  BY <1>2, <1>3 DEF CountInv

\* Time pays, and opens a second since which nothing got through.
LEMMA CountTick ==
    ASSUME TypeOK, CountInv, Tick
    PROVE  CountInv'
<1>1. now' = now + 1 /\ UNCHANGED <<live, tokens, last, count, faults>> /\ now < MaxTime
  BY DEF Tick, hash
<1>2. now \in Nat /\ MaxTime \in Nat /\ Skew \in Nat /\ faults \in Nat
  BY RateAssumption DEF TypeOK
<1>3. ASSUME NEW s \in Skew .. now' PROVE count'[s] <= faults' \/ Paid(s)'
  <2>1. CASE s = now + 1
    <3>1. s \in Seconds /\ s > now
      BY <1>1, <1>2, <2>1 DEF Seconds
    <3> QED
      BY <1>1, <1>2, <3>1 DEF CountInv
  <2>2. CASE s # now + 1
    <3>1. s \in Skew .. now
      BY <1>1, <1>2, <2>2
    <3>2. CASE count[s] <= faults
      BY <1>1, <3>2
    <3>3. CASE live /\ Paid(s)
      BY <1>1, <3>3 DEF Paid
    <3>4. CASE ~live /\ Paid(s)
      <4>1. count[s] \in Nat /\ s \in Nat
        BY <3>1, Numbers
      <4>2. (now - s) * Rate <= (now + 1 - s) * Rate
        BY <1>2, <4>1, Monotone
      <4>3. (now - s) * Rate \in Int /\ (now + 1 - s) * Rate \in Int
        BY <1>2, <4>1, RateAssumption
      <4>4. count[s] - faults <= (now + 1 - s) * Rate
        BY <1>2, <3>4, <4>1, <4>2, <4>3 DEF Paid
      <4>5. count'[s] - faults' <= (now' - s) * Rate
        <5>1. count' = count /\ faults' = faults /\ now' = now + 1
          BY <1>1
        <5> QED
          BY <1>2, <4>1, <4>3, <4>4, <5>1
      <4>6. Paid(s)' <=> count'[s] - faults' <= (now' - s) * Rate
        BY <1>1, <3>4 DEF Paid
      <4> QED
        BY <4>5, <4>6
    <3> QED
      BY <3>1, <3>2, <3>3, <3>4 DEF CountInv
  <2> QED
    BY <2>1, <2>2
<1>4. ASSUME NEW s \in Seconds, s > now' PROVE count'[s] = 0
  BY <1>1, <1>2, <1>4 DEF CountInv, Seconds
<1> QED
  BY <1>3, <1>4 DEF CountInv

\* Every step keeps CountInv.
LEMMA CountNext ==
    ASSUME TTLCoversBurst, TypeOK, BucketInv, CountInv, TypeOK', [Next]_vars
    PROVE  CountInv'
<1>1. ASSUME NEW n \in Stamps, CheckRateLimit(n) PROVE CountInv'
  <2>1. Script(n) /\ UNCHANGED now /\ faults' = faults + 0
        /\ ((LetThrough /\ Allowed(n)) \/ UNCHANGED count)
    BY <1>1, RateAssumption DEF CheckRateLimit, TypeOK
  <2> QED
    BY <2>1, CountScript
<1>2. ASSUME NEW n \in Stamps, FailOpen(n) PROVE CountInv'
  <2>1. CASE Script(n)
    BY <1>2, <2>1, CountScript DEF FailOpen
  <2>2. CASE UNCHANGED <<hash, reply, due>>
    <3>1. LetThrough /\ faults' = faults + 1 /\ UNCHANGED <<live, tokens, last, now>>
      BY <1>2, <2>2 DEF FailOpen, hash
    <3>2. ASSUME NEW s \in Skew .. now PROVE count'[s] <= faults' \/ Paid(s)'
      <4>1. s \in Seconds /\ s <= now /\ count[s] \in Nat /\ faults \in Nat
        BY Numbers
      <4>2. count'[s] = count[s] + 1
        BY <3>1, <4>1 DEF LetThrough
      <4>3. count'[s] - faults' = count[s] - faults /\ (count[s] <= faults => count'[s] <= faults')
        BY <3>1, <4>1, <4>2
      <4>4. Paid(s) => Paid(s)'
        BY <3>1, <4>3 DEF Paid
      <4> QED
        BY <4>3, <4>4 DEF CountInv
    <3>3. ASSUME NEW s \in Seconds, s > now PROVE count'[s] = 0
      BY <3>1, <3>3 DEF CountInv, LetThrough, TypeOK, Seconds
    <3> QED
      BY <3>1, <3>2, <3>3 DEF CountInv
  <2> QED
    BY <1>2, <2>1, <2>2 DEF FailOpen
<1>3. CASE UNCHANGED vars
  BY <1>3 DEF vars, CountInv, Paid
<1> QED
  BY <1>1, <1>2, <1>3, CountExpire, CountTick DEF Next

\* No span of time sees more calls through than burst and rate allow, if the
\* hash lives long enough for the bucket to fill up.
THEOREM AdmissionCorrect == TTLCoversBurst => (Spec => []AdmissionBounded)
<1> SUFFICES ASSUME TTLCoversBurst PROVE Spec => []AdmissionBounded
  OBVIOUS
<1>1. TypeOK /\ BucketInv /\ CountInv => AdmissionBounded
  <2> SUFFICES ASSUME TypeOK, BucketInv, CountInv, NEW s \in Skew .. now
               PROVE  count[s] <= Burst + Rate * (now - s + Skew) + faults
    BY DEF AdmissionBounded
  <2>1. /\ now \in Nat /\ s \in Nat /\ s <= now
        /\ tokens \in Int /\ last \in Nat /\ exp \in Nat /\ faults \in Nat
        /\ count[s] \in Nat /\ Burst \in Nat /\ Skew \in Nat /\ TTL \in Nat
        /\ last * Rate \in Int /\ now * Rate \in Int /\ s * Rate \in Int
        /\ Skew * Rate \in Nat
        /\ (s - Skew) * Rate = s * Rate - Skew * Rate
        /\ (now - s) * Rate = now * Rate - s * Rate
    BY Numbers
  <2>2. Rate * (now - s + Skew) = now * Rate - s * Rate + Skew * Rate
        /\ s * Rate <= now * Rate
    BY <2>1, Distributes, Monotone
  <2>3. CASE count[s] <= faults
    <3> DEFINE a == Rate * (now - s + Skew)
    <3>1. a >= 0 /\ a \in Int
      BY <2>1, <2>2
    <3> HIDE DEF a
    <3> QED
      BY <2>1, <2>3, <3>1 DEF a
  <2>4. CASE live /\ Paid(s)
    <3> DEFINE c == exp - TTL
    <3>1. c \in Int /\ c <= now /\ 0 <= tokens + (c - last) * Rate
      BY <2>1, <2>4 DEF BucketInv
    <3>2. (c - last) * Rate = c * Rate - last * Rate /\ c * Rate \in Int
          /\ c * Rate <= now * Rate
      BY <2>1, <3>1, Distributes, Monotone
    <3>3. tokens - last * Rate <= Burst - (s - Skew) * Rate - (count[s] - faults)
      BY <2>4 DEF Paid
    <3> HIDE DEF c
    <3> QED
      BY <2>1, <2>2, <3>1, <3>2, <3>3
  <2>5. CASE ~live /\ Paid(s)
    <3>1. count[s] - faults <= (now - s) * Rate
      BY <2>5 DEF Paid
    <3> QED
      BY <2>1, <2>2, <3>1
  <2> QED
    BY <2>3, <2>4, <2>5 DEF CountInv
<1>2. TypeOK /\ BucketInv /\ CountInv /\ TypeOK' /\ [Next]_vars => CountInv'
  BY CountNext
<1> QED
  BY <1>1, <1>2, CountInit, BucketInit, BucketNext, TypeCorrect, PTL DEF Spec
=============================================================================
