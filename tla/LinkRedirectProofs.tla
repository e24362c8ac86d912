------------------------- MODULE LinkRedirectProofs -------------------------
(***************************************************************************)
(* Proofs about LinkRedirect, for any number of rows, requests and API     *)
(* calls, any TTLs and any bound on writes and faults.                     *)
(***************************************************************************)
EXTENDS LinkRedirect, TLAPS

(***************************************************************************)
(* Facts about time.                                                       *)
(***************************************************************************)

\* A remainder lies below its divisor (the tick within the second, whole
\* seconds for EXPIRE and Unix seconds for expires_at).
LEMMA ModRange ==
    ASSUME NEW a \in Nat, NEW b \in Nat \ {0}
    PROVE  a % b \in Nat /\ a % b < b /\ a % b <= a
OBVIOUS

\* Ageing an expires_at keeps its type (time passing in the rows and copies).
LEMMA AgeType ==
    ASSUME NEW e \in Expiry
    PROVE  Age(e) \in Expiry
BY LinkAssumption DEF Age, Expiry

\* Time passes at the same pace for a copy and for the content it stems from.
LEMMA AgeMonotone ==
    ASSUME NEW e \in Expiry, NEW f \in Expiry, NoLater(e, f)
    PROVE  NoLater(Age(e), Age(f))
BY LinkAssumption DEF NoLater, Age, Expiry

\* Dropping the fraction of a second never makes an expires_at later
\* (ToCachedLink).
LEMMA ToUnixEarlier ==
    ASSUME clock \in 0 .. (Sec - 1), NEW e \in Expiry, e # Never, e > 0
    PROVE  ToUnix(e) \in Expiry /\ ToUnix(e) # Never /\ ToUnix(e) <= e
<1>1. e \in Nat /\ clock + e \in Nat /\ Sec \in Nat \ {0}
  BY LinkAssumption DEF Expiry
<1>2. (clock + e) % Sec \in Nat
  BY <1>1, ModRange
<1> QED
  BY <1>1, <1>2, LinkAssumption DEF ToUnix, Expiry

\* The TTL that SetLink gives to EXPIRE is a positive number of ticks.
LEMMA TTLPositive ==
    ASSUME NEW e \in Expiry, ~NoTimeLeft(e)
    PROVE  FormatSec(TTLFor(e)) \in Nat \ {0}
<1>1. TTLFor(e) \in Nat \ {0}
  BY LinkAssumption DEF TTLFor, NoTimeLeft, Expiry
<1> DEFINE d == TTLFor(e)
<1>2. CASE d < Sec
  BY <1>2, LinkAssumption DEF FormatSec
<1>3. CASE d >= Sec
  <2>1. d % Sec \in Nat /\ d % Sec < Sec
    BY <1>1, LinkAssumption, ModRange
  <2>2. d - (d % Sec) \in Nat \ {0}
    BY <1>1, <1>3, <2>1, LinkAssumption
  <2> QED
    BY <1>1, <1>3, <2>2, LinkAssumption DEF FormatSec
<1> QED
  BY <1>1, <1>2, <1>3, LinkAssumption
-----------------------------------------------------------------------------
(***************************************************************************)
(* Type correctness.                                                       *)
(***************************************************************************)

\* Before any call Redis and the tables are empty, which is well typed
\* (Init).
LEMMA TypeInit == Init => TypeOK
<1> SUFFICES ASSUME Init PROVE TypeOK
  OBVIOUS
<1> USE LinkAssumption DEF Init
<1>1. StoreOK
  BY DEF StoreOK, NoRow, Row, NoEntry, Expiry
<1>2. RequestOK
  BY DEF RequestOK, RequestStep, NoLink, Link, NoReply, Reply, Expiry
<1>3. WriterOK
  BY DEF WriterOK, WriterStep, NoLink, Link, Expiry
<1>4. GhostOK
  <2>1. faults \in 0 .. MaxFaults
    OBVIOUS
  <2>2. history \subseteq Content /\ raced \in BOOLEAN
    BY Zenon
  <2> QED
    BY <2>1, <2>2 DEF GhostOK
<1> QED
  BY <1>1, <1>2, <1>3, <1>4 DEF TypeOK

\* The placeholders for "no link held" and "no answer" are well typed.
LEMMA NullTypes == NoLink \in Link /\ NoReply \in Reply
BY LinkAssumption DEF NoLink, Link, NoReply, Reply, Expiry

\* A request that ends leaves well-typed request variables (Answer).
LEMMA AnswerType ==
    ASSUME RequestOK, NEW r \in Requests, NEW l \in Link,
           NEW a \in {"redirect", "notfound", "disabled", "expired", "error"},
           Answer(r, a, l), UNCHANGED rttl
    PROVE  RequestOK'
<1>1. Say(a, l) \in Reply
  BY DEF Say, Reply, Link
<1> QED
  BY <1>1, NullTypes DEF RequestOK, RequestStep, Answer

\* A request that goes on with the link it has leaves them well-typed too.
LEMMA GotoType ==
    ASSUME RequestOK, NEW r \in Requests, NEW pc \in RequestStep,
           RGoto(r, pc), UNCHANGED <<rlink, rttl>>, reply' = NoReply
    PROVE  RequestOK'
BY NullTypes DEF RequestOK, RGoto

\* An evicted or deleted hash is a well-typed cache entry.
LEMMA EntryGone ==
    NoEntry \in [dest : Nat, enabled : BOOLEAN, exp : Expiry, ttl : Nat \cup {-1}]
BY DEF NoEntry, Expiry

\* No step of ResolveRedirect, and no eviction, breaks the types.
LEMMA TypeResolve ==
    ASSUME TypeOK, NEW r \in Requests, GetLink(r) \/ Resolve(r)
    PROVE  TypeOK'
<1> USE LinkAssumption DEF TypeOK
<1>1. WriterOK'
  BY DEF WriterOK, writer, Resolve, GetLink, IsNegativelyCached, GetLinkByShortCode,
         SetNegativeCache, SetLinkExpired, SetLinkHSet, SetLinkExpire, SetLinkDelNeg,
         Validate, EvictHash, EvictNeg
<1>2. GhostOK'
  <2>1. faults' \in 0 .. MaxFaults
    BY DEF GhostOK, Fault, NoFault, Resolve, GetLink, IsNegativelyCached,
           GetLinkByShortCode, SetNegativeCache, SetLinkExpired, SetLinkHSet,
           SetLinkExpire, SetLinkDelNeg, Validate, EvictHash, EvictNeg
  <2>2. UNCHANGED history
    BY DEF ghost, Resolve, GetLink, IsNegativelyCached,
           GetLinkByShortCode, SetNegativeCache, SetLinkExpired, SetLinkHSet,
           SetLinkExpire, SetLinkDelNeg, Validate, EvictHash, EvictNeg
  <2>3. raced' \in BOOLEAN
    <3>1. UNCHANGED raced \/ raced' = (raced \/ ~IsCurrent(rlink[r]))
      BY Zenon DEF ghost, Resolve, GetLink, IsNegativelyCached,
             GetLinkByShortCode, SetNegativeCache, SetLinkExpired, SetLinkHSet,
             SetLinkExpire, SetLinkDelNeg, Validate, EvictHash, EvictNeg
    <3> QED
      BY <3>1, Zenon DEF GhostOK
  <2> QED
    BY <2>1, <2>2, <2>3 DEF GhostOK
<1>3. CASE GetLink(r)
  <2>1. StoreOK'
    BY <1>3 DEF GetLink, StoreOK
  <2>2. ToLink(entry) \in Link
    BY DEF StoreOK, ToLink, Link
  <2>3. RequestOK'
    BY <1>3, <2>2, NullTypes DEF GetLink, RGoto, RequestOK, RequestStep
  <2> QED
    BY <1>1, <1>2, <2>1, <2>3
<1>4. CASE IsNegativelyCached(r)
  <2>1. StoreOK'
    BY <1>4 DEF IsNegativelyCached, StoreOK
  <2>2. RequestOK'
    BY <1>4, AnswerType, GotoType, NullTypes DEF IsNegativelyCached, RequestStep
  <2> QED
    BY <1>1, <1>2, <2>1, <2>2
<1>5. CASE GetLinkByShortCode(r)
  <2>1. StoreOK'
    BY <1>5 DEF GetLinkByShortCode, StoreOK
  <2>2. \A l \in Links : RowToLink(l) \in Link
    BY DEF StoreOK, RowToLink, Link, Row
  <2>3. ASSUME NEW l \in Links, RGoto(r, "backfill"), UNCHANGED rttl, reply' = NoReply,
               rlink' = [rlink EXCEPT ![r] = RowToLink(l)]
        PROVE  RequestOK'
    BY <2>2, <2>3, NullTypes DEF RGoto, RequestOK, RequestStep
  <2>4. RequestOK'
    BY <1>5, <2>3, AnswerType, GotoType, NullTypes DEF GetLinkByShortCode, RequestStep
  <2> QED
    BY <1>1, <1>2, <2>1, <2>4
<1>6. CASE SetNegativeCache(r)
  <2>1. StoreOK'
    BY <1>6 DEF SetNegativeCache, StoreOK
  <2>2. RequestOK'
    BY <1>6, AnswerType, NullTypes DEF SetNegativeCache
  <2> QED
    BY <1>1, <1>2, <2>1, <2>2
<1>7. CASE SetLinkExpired(r)
  <2>1. StoreOK'
    BY <1>7, EntryGone DEF SetLinkExpired, StoreOK
  <2>2. RequestOK'
    BY <1>7, GotoType DEF SetLinkExpired, RequestStep
  <2> QED
    BY <1>1, <1>2, <2>1, <2>2
<1>8. CASE SetLinkHSet(r)
  <2>1. rlink[r] \in Link /\ rlink[r].exp \in Expiry /\ ~NoTimeLeft(rlink[r].exp)
    BY <1>8 DEF RequestOK, SetLinkHSet, Link
  <2>2. rlink[r].exp # Never => ToUnix(rlink[r].exp) \in Expiry
    BY <2>1, ToUnixEarlier DEF StoreOK, NoTimeLeft, Expiry
  <2>3. FormatSec(TTLFor(rlink[r].exp)) \in Nat
    BY <2>1, TTLPositive
  <2>4. StoreOK'
    BY <1>8, <2>1, <2>2 DEF SetLinkHSet, StoreOK, HSet, Link, Cached
  <2>5. RequestOK'
    BY <1>8, <2>3, NullTypes DEF SetLinkHSet, RGoto, RequestOK, RequestStep
  <2> QED
    BY <1>1, <1>2, <2>4, <2>5
<1>9. CASE SetLinkExpire(r)
  <2>1. StoreOK'
    BY <1>9 DEF SetLinkExpire, StoreOK, RequestOK, SetTTL
  <2>2. RequestOK'
    BY <1>9, NullTypes DEF SetLinkExpire, RGoto, RequestOK, RequestStep
  <2> QED
    BY <1>1, <1>2, <2>1, <2>2
<1>10. CASE SetLinkDelNeg(r)
  <2>1. StoreOK'
    BY <1>10 DEF SetLinkDelNeg, StoreOK
  <2>2. RequestOK'
    BY <1>10, GotoType DEF SetLinkDelNeg, RequestStep
  <2> QED
    BY <1>1, <1>2, <2>1, <2>2
<1>11. CASE Validate(r)
  <2>1. StoreOK'
    BY <1>11 DEF Validate, StoreOK
  <2>2. rlink[r] \in Link
    BY DEF RequestOK
  <2>3. RequestOK'
    BY <1>11, <2>2, AnswerType, GotoType DEF Validate, RequestStep
  <2> QED
    BY <1>1, <1>2, <2>1, <2>3
<1>12. CASE EvictHash(r)
  <2>1. StoreOK'
    BY <1>12, EntryGone DEF EvictHash, StoreOK
  <2>2. rlink[r] \in Link
    BY DEF RequestOK
  <2>3. RequestOK'
    BY <1>12, <2>2, AnswerType, GotoType DEF EvictHash, RequestStep
  <2> QED
    BY <1>1, <1>2, <2>1, <2>3
<1>13. CASE EvictNeg(r)
  <2>1. StoreOK'
    BY <1>13 DEF EvictNeg, StoreOK
  <2>2. rlink[r] \in Link
    BY DEF RequestOK
  <2>3. RequestOK'
    BY <1>13, <2>2, AnswerType DEF EvictNeg
  <2> QED
    BY <1>1, <1>2, <2>1, <2>3
<1> QED
  BY <1>3, <1>4, <1>5, <1>6, <1>7, <1>8, <1>9, <1>10, <1>11, <1>12, <1>13 DEF Resolve

\* An API call that ends holds no row (WEnd).
LEMMA WEndType ==
    ASSUME WriterOK, NEW w \in Writers, WEnd(w), UNCHANGED writes
    PROVE  WriterOK'
BY NullTypes DEF WriterOK, WriterStep, WEnd, WGoto

\* An API call that goes on with the row it holds stays well typed (WGoto).
LEMMA WGotoType ==
    ASSUME WriterOK, NEW w \in Writers, wpc[w] # "idle", NEW pc \in WriterStep,
           WGoto(w, pc), UNCHANGED <<wlink, writes>>
    PROVE  WriterOK'
BY DEF WriterOK, WGoto

\* No step of CreateLink, UpdateLink or DeleteLink breaks the types.
LEMMA TypeWrite ==
    ASSUME TypeOK, NEW w \in Writers, Begin(w) \/ Write(w)
    PROVE  TypeOK'
<1> USE LinkAssumption DEF TypeOK
<1>1. RequestOK'
  BY NullTypes
     DEF RequestOK, request, Begin, Write, CreateLink, UpdateLinkRead, DeleteLinkRead,
         UpdateLinkCommit, DeleteLinkCommit, InvalidateHash, InvalidateNeg
<1>2. faults' \in 0 .. MaxFaults
  BY DEF GhostOK, Fault, NoFault, Begin, Write, CreateLink, UpdateLinkRead, DeleteLinkRead,
         UpdateLinkCommit, DeleteLinkCommit, InvalidateHash, InvalidateNeg
<1>3. raced' \in BOOLEAN
  <2>1. UNCHANGED raced
    BY Zenon
       DEF ghost, Begin, Write, CreateLink, UpdateLinkRead, DeleteLinkRead,
           UpdateLinkCommit, DeleteLinkCommit, InvalidateHash, InvalidateNeg
  <2> QED
    BY <2>1, Zenon DEF GhostOK
<1>4. ASSUME NEW l \in Links, NEW e \in Lifetimes \cup {Never}, CreateLink(w, l, e)
      PROVE  TypeOK'
  <2>1. e \in Expiry
    BY DEF Expiry
  <2>2. WriterOK' /\ writes' \in Nat
    BY <1>4 DEF CreateLink, StartWrite, WriterOK, writer
  <2>3. rows' \in [Links -> Row] /\ ContentOf(rows'[l]) \in Content
    BY <1>4, <2>1, <2>2 DEF CreateLink, StoreOK, Row, ContentOf, Content
  <2>4. StoreOK'
    BY <1>4, <2>3 DEF CreateLink, StoreOK
  <2>5. GhostOK'
    BY <1>2, <1>3, <1>4, <2>3 DEF CreateLink, GhostOK
  <2> QED
    BY <1>1, <2>2, <2>4, <2>5
<1>5. ASSUME NEW l \in Links, NEW d \in BOOLEAN, NEW en \in BOOLEAN,
             NEW e \in Lifetimes \cup {Never}, UpdateLinkRead(w, l, d, en, e)
      PROVE  TypeOK'
  <2>1. e \in Expiry
    BY DEF Expiry
  <2>2. writes' \in 0 .. MaxWrites /\ rows[l] \in Row
    BY <1>5 DEF UpdateLinkRead, StartWrite, WriterOK, StoreOK
  <2> DEFINE x == [id |-> l, dest |-> IF d THEN writes' ELSE rows[l].dest,
                   enabled |-> en, exp |-> IF e = Never THEN rows[l].exp ELSE e]
  <2>3. x \in Link /\ x.id \in Links
    BY <2>1, <2>2 DEF Row, Link
  <2>4. WriterOK'
    <3>1. wlink' = [wlink EXCEPT ![w] = x] /\ WGoto(w, "update")
      BY <1>5 DEF UpdateLinkRead
    <3> HIDE DEF x
    <3> QED
      BY <2>2, <2>3, <3>1 DEF WriterOK, WriterStep, WGoto
  <2>5. StoreOK' /\ UNCHANGED history
    BY <1>5 DEF UpdateLinkRead, StoreOK, ghost
  <2> QED
    BY <1>1, <1>2, <1>3, <2>4, <2>5 DEF GhostOK
<1>6. ASSUME NEW l \in Links, DeleteLinkRead(w, l)
      PROVE  TypeOK'
  <2>1. RowToLink(l) \in Link /\ RowToLink(l).id \in Links
    BY DEF StoreOK, RowToLink, Row, Link
  <2>2. WriterOK'
    BY <1>6, <2>1 DEF DeleteLinkRead, StartWrite, WriterOK, WriterStep, WGoto
  <2>3. StoreOK' /\ UNCHANGED history
    BY <1>6 DEF DeleteLinkRead, StoreOK, ghost
  <2> QED
    BY <1>1, <1>2, <1>3, <2>2, <2>3 DEF GhostOK
<1>7. CASE UpdateLinkCommit(w)
  <2>1. wlink[w] \in Link /\ wlink[w].id \in Links
    BY <1>7 DEF UpdateLinkCommit, WriterOK
  <2>2. ASSUME UpdateRow(w) PROVE rows' \in [Links -> Row]
    <3> DEFINE l == wlink[w].id
    <3>1. rows' = [rows EXCEPT ![l].dest = wlink[w].dest,
                               ![l].enabled = wlink[w].enabled,
                               ![l].exp = wlink[w].exp]
      BY <2>2 DEF UpdateRow
    <3>2. rows \in [Links -> Row] /\ rows[l] \in Row
      BY <2>1 DEF StoreOK
    <3>3. rows' = [rows EXCEPT ![l] = [@ EXCEPT !.dest = wlink[w].dest,
                                               !.enabled = wlink[w].enabled,
                                               !.exp = wlink[w].exp]]
      BY <3>1, <3>2 DEF Row
    <3>4. [rows[l] EXCEPT !.dest = wlink[w].dest, !.enabled = wlink[w].enabled,
                          !.exp = wlink[w].exp] \in Row
      BY <2>1, <3>2 DEF Row, Link
    <3> QED
      BY <2>1, <3>2, <3>3, <3>4
  <2>3. UpdateRow(w) => history' \subseteq Content
    <3> SUFFICES ASSUME UpdateRow(w) PROVE history' \subseteq Content
      OBVIOUS
    <3> DEFINE r == rows'[wlink[w].id]
    <3>1. r \in Row
      BY <2>1, <2>2
    <3>2. history' = history \cup {ContentOf(r)}
      BY DEF UpdateRow
    <3> HIDE DEF r
    <3>3. ContentOf(r) \in Content
      BY <3>1 DEF Row, ContentOf, Content
    <3> QED
      BY <3>2, <3>3 DEF GhostOK
  <2>4. StoreOK'
    BY <1>7, <2>2 DEF UpdateLinkCommit, StoreOK
  <2>5. history' \subseteq Content
    BY <1>7, <2>3 DEF UpdateLinkCommit, GhostOK
  <2>6. WriterOK'
    BY <1>7, WEndType, WGotoType DEF UpdateLinkCommit, WriterStep
  <2> QED
    BY <1>1, <1>2, <1>3, <2>4, <2>5, <2>6 DEF GhostOK
<1>8. CASE DeleteLinkCommit(w)
  <2>1. wlink[w].id \in Links
    BY <1>8 DEF DeleteLinkCommit, WriterOK
  <2>2. DeleteRow(w) => rows' \in [Links -> Row]
    BY <2>1 DEF DeleteRow, StoreOK, Row
  <2>3. StoreOK' /\ UNCHANGED history
    BY <1>8, <2>2 DEF DeleteLinkCommit, StoreOK, ghost
  <2>4. WriterOK'
    BY <1>8, WEndType, WGotoType DEF DeleteLinkCommit, WriterStep
  <2> QED
    BY <1>1, <1>2, <1>3, <2>3, <2>4 DEF GhostOK
<1>9. CASE InvalidateHash(w)
  <2>1. StoreOK' /\ UNCHANGED history
    BY <1>9, EntryGone DEF InvalidateHash, StoreOK, ghost
  <2>2. WriterOK'
    BY <1>9, WEndType, WGotoType DEF InvalidateHash, WriterStep
  <2> QED
    BY <1>1, <1>2, <1>3, <2>1, <2>2 DEF GhostOK
<1>10. CASE InvalidateNeg(w)
  <2>1. StoreOK' /\ UNCHANGED history
    BY <1>10 DEF InvalidateNeg, StoreOK, ghost
  <2>2. WriterOK'
    BY <1>10, WEndType DEF InvalidateNeg
  <2> QED
    BY <1>1, <1>2, <1>3, <2>1, <2>2 DEF GhostOK
<1> QED
  BY <1>4, <1>5, <1>6, <1>7, <1>8, <1>9, <1>10 DEF Begin, Write

\* Time passing keeps TTLs and expires_at well typed.
LEMMA TypeTick == ASSUME TypeOK, Tick PROVE TypeOK'
<1> USE LinkAssumption, AgeType DEF TypeOK, Tick, Older
<1>1. StoreOK'
  <2>1. clock' \in 0 .. (Sec - 1)
    BY ModRange DEF StoreOK
  <2>2. rows' \in [Links -> Row]
    BY DEF StoreOK, Row
  <2>3. entry' \in [dest : Nat, enabled : BOOLEAN, exp : Expiry, ttl : Nat \cup {-1}]
    <3> DEFINE E == [dest : Nat, enabled : BOOLEAN, exp : Expiry, ttl : Nat \cup {-1}]
               x == Older(entry)
               t == IF x.ttl > 0 THEN x.ttl - 1 ELSE x.ttl
    <3>1. x \in E
      BY DEF StoreOK
    <3>2. t \in Nat \cup {-1}
      BY <3>1
    <3>3. entry' = NoEntry \/ entry' = [x EXCEPT !.ttl = t]
      OBVIOUS
    <3> HIDE DEF x, t
    <3> QED
      BY <3>1, <3>2, <3>3, EntryGone
  <2> QED
    BY <2>1, <2>2, <2>3 DEF StoreOK
<1>2. RequestOK'
  BY NullTypes DEF RequestOK, Link
<1>3. WriterOK'
  BY DEF WriterOK, Link
<1>4. GhostOK'
  <2>1. history' \subseteq Content
    BY DEF GhostOK, Content
  <2>2. faults' \in 0 .. MaxFaults
    BY DEF GhostOK
  <2>3. raced' \in BOOLEAN
    BY Zenon DEF GhostOK
  <2> QED
    BY <2>1, <2>2, <2>3 DEF GhostOK
<1> QED
  BY <1>1, <1>2, <1>3, <1>4

\* Type correctness is inductive: every step of the system keeps it.
LEMMA TypeNext == TypeOK /\ [Next]_vars => TypeOK'
<1> SUFFICES ASSUME TypeOK, [Next]_vars PROVE TypeOK'
  OBVIOUS
<1>1. CASE UNCHANGED vars
  <2>1. StoreOK' /\ RequestOK' /\ WriterOK'
    BY <1>1 DEF vars, TypeOK, StoreOK, RequestOK, WriterOK
  <2>2. UNCHANGED <<faults, history, raced>>
    BY <1>1 DEF vars
  <2>3. GhostOK'
    BY <2>2 DEF TypeOK, GhostOK
  <2> QED
    BY <2>1, <2>3 DEF TypeOK
<1> QED
  BY <1>1, TypeResolve, TypeWrite, TypeTick DEF Next

\* Every reachable state of the redirect path and the link writes is well
\* typed, and an API call that has begun holds the id of a row.
THEOREM TypeCorrect == Spec => []TypeOK
BY TypeInit, TypeNext, PTL DEF Spec
-----------------------------------------------------------------------------
(***************************************************************************)
(* What is served was committed.                                           *)
(***************************************************************************)

\* A wider history commits what it did before.
LEMMA CommittedMonotone ==
    ASSUME NEW x, Committed(x), history \subseteq history'
    PROVE  \E c \in history' : c.dest = x.dest /\ c.enabled = x.enabled /\ NoLater(x.exp, c.exp)
BY DEF Committed

\* When time passes, a copy and the content it stems from age together.
LEMMA CommittedAges ==
    ASSUME TypeOK, NEW x, x.exp \in Expiry, Committed(x),
           history' = {Older(c) : c \in history}
    PROVE  \E c \in history' : c.dest = x.dest /\ c.enabled = x.enabled
                               /\ NoLater(Age(x.exp), c.exp)
<1>1. PICK c \in history : c.dest = x.dest /\ c.enabled = x.enabled /\ NoLater(x.exp, c.exp)
  BY DEF Committed
<1>2. c \in Content
  BY DEF TypeOK, GhostOK
<1>3. Older(c) \in history' /\ Older(c).dest = c.dest /\ Older(c).enabled = c.enabled
      /\ Older(c).exp = Age(c.exp)
  BY <1>2 DEF Older, Content
<1>4. NoLater(Age(x.exp), Age(c.exp))
  BY <1>1, <1>2, AgeMonotone DEF Content
<1> QED
  BY <1>1, <1>3, <1>4

\* A hash into which SetLink merged a committed link is committed: if the link
\* has no expiry, whatever expiry the hash keeps is earlier (HSET of SetLink).
LEMMA HSetCommitted ==
    ASSUME TypeOK, NEW x \in Link, Committed(x), ~NoTimeLeft(x.exp), HSet(x),
           UNCHANGED history
    PROVE  Committed(entry)'
<1>1. PICK c \in history : c.dest = x.dest /\ c.enabled = x.enabled /\ NoLater(x.exp, c.exp)
  BY DEF Committed
<1>2. c \in Content /\ c.exp \in Expiry /\ x.exp \in Expiry
  BY DEF TypeOK, GhostOK, Content, Link
<1>3. entry'.dest = c.dest /\ entry'.enabled = c.enabled
  BY <1>1 DEF HSet
<1>4. NoLater(entry'.exp, c.exp)
  <2>1. CASE x.exp = Never
    BY <1>1, <2>1 DEF NoLater
  <2>2. CASE x.exp # Never
    <3>1. ToUnix(x.exp) \in Expiry /\ ToUnix(x.exp) # Never /\ ToUnix(x.exp) <= x.exp
      BY <1>2, <2>2, ToUnixEarlier DEF TypeOK, StoreOK, NoTimeLeft, Expiry
    <3>2. entry'.exp = ToUnix(x.exp)
      BY <2>2 DEF HSet
    <3> QED
      BY <1>1, <1>2, <2>2, <3>1, <3>2, LinkAssumption DEF NoLater, Expiry
  <2> QED
    BY <2>1, <2>2
<1> QED
  BY <1>1, <1>3, <1>4 DEF Committed

\* With no link yet, nothing uncommitted is live, cached, held or served.
LEMMA HistoryInit == Init => HistoryInv
BY DEF Init, HistoryInv, LiveIsCommitted, IsLive, NoRow, EntryWasCommitted, Cached,
       NoEntry, HeldIsCommitted, ServedWasCommitted, NoReply

\* ResolveRedirect copies only committed contents from row to cache to
\* reply.
LEMMA HistoryResolve ==
    ASSUME TypeOK, HistoryInv, NEW r \in Requests, GetLink(r) \/ Resolve(r)
    PROVE  HistoryInv'
<1> USE DEF HistoryInv
<1>1. UNCHANGED <<rows, history>>
  BY DEF ghost, Resolve, GetLink, IsNegativelyCached, GetLinkByShortCode,
         SetNegativeCache, SetLinkExpired, SetLinkHSet, SetLinkExpire, SetLinkDelNeg,
         Validate, EvictHash, EvictNeg
<1>2. LiveIsCommitted'
  BY <1>1 DEF LiveIsCommitted, IsLive, ContentOf
<1>3. EntryWasCommitted'
  <2>1. CASE SetLinkHSet(r)
    <3>1. Committed(rlink[r]) /\ rlink[r] \in Link
      BY <2>1 DEF SetLinkHSet, HeldIsCommitted, TypeOK, RequestOK
    <3>2. CASE UNCHANGED entry
      BY <1>1, <3>2 DEF EntryWasCommitted, Cached, Committed
    <3>3. CASE HSet(rlink[r])
      BY <1>1, <2>1, <3>1, <3>3, HSetCommitted DEF SetLinkHSet, EntryWasCommitted
    <3> QED
      BY <2>1, <3>2, <3>3 DEF SetLinkHSet
  <2>2. CASE SetLinkExpire(r)
    <3>1. entry' = entry \/ (Cached /\ entry' = [entry EXCEPT !.ttl = rttl[r]])
      BY <2>2 DEF SetLinkExpire, SetTTL
    <3>2. entry'.dest = entry.dest /\ entry'.enabled = entry.enabled /\ entry'.exp = entry.exp
          /\ (Cached' => Cached)
      BY <3>1 DEF TypeOK, StoreOK, Cached
    <3> QED
      BY <1>1, <3>2 DEF EntryWasCommitted, Committed
  <2>3. CASE UNCHANGED entry
    BY <1>1, <2>3 DEF EntryWasCommitted, Cached, Committed
  <2>4. CASE entry' = NoEntry
    BY <2>4 DEF EntryWasCommitted, Cached, NoEntry
  <2> QED
    BY <2>1, <2>2, <2>3, <2>4
       DEF Resolve, GetLink, IsNegativelyCached, GetLinkByShortCode, SetNegativeCache,
           SetLinkExpired, SetLinkDelNeg, Validate, EvictHash, EvictNeg
<1>4. HeldIsCommitted'
  <2>1. \A q \in Requests \ {r} : rpc'[q] = rpc[q] /\ rlink'[q] = rlink[q]
    BY DEF RGoto, Answer, TypeOK, RequestOK, Resolve, GetLink, IsNegativelyCached,
           GetLinkByShortCode, SetNegativeCache, SetLinkExpired, SetLinkHSet,
           SetLinkExpire, SetLinkDelNeg, Validate, EvictHash, EvictNeg
  <2>2. rpc'[r] \in {"backfill", "expire", "unneg", "validate"} => Committed(rlink'[r])
    <3>1. CASE GetLink(r)
      <4>1. rpc'[r] = "validate" => Cached /\ rlink'[r] = ToLink(entry)
        BY <3>1 DEF GetLink, RGoto, TypeOK, RequestOK
      <4>2. Cached => Committed(ToLink(entry))
        BY DEF EntryWasCommitted, Committed, ToLink
      <4> QED
        BY <3>1, <4>1, <4>2 DEF GetLink, RGoto, TypeOK, RequestOK
    <3>2. CASE GetLinkByShortCode(r)
      <4>1. \/ rpc'[r] = "setneg" \/ rpc'[r] = "idle"
            \/ \E l \in Links : IsLive(l) /\ rlink' = [rlink EXCEPT ![r] = RowToLink(l)]
        BY <3>2 DEF GetLinkByShortCode, RGoto, Answer, TypeOK, RequestOK
      <4>2. \A l \in Links : IsLive(l) => Committed(RowToLink(l))
        <5> SUFFICES ASSUME NEW l \in Links, IsLive(l)
                     PROVE  Committed(RowToLink(l))
          OBVIOUS
        <5>1. rows[l].exp \in Expiry
          BY DEF TypeOK, StoreOK, Row
        <5>2. NoLater(rows[l].exp, rows[l].exp)
          BY <5>1, LinkAssumption DEF NoLater, Expiry
        <5>3. ContentOf(rows[l]) \in history
          BY DEF LiveIsCommitted
        <5> QED
          BY <5>2, <5>3 DEF Committed, RowToLink, ContentOf
      <4> QED
        BY <4>1, <4>2 DEF TypeOK, RequestOK
    <3>3. CASE IsNegativelyCached(r) \/ SetNegativeCache(r) \/ EvictHash(r) \/ EvictNeg(r)
      BY <3>3 DEF IsNegativelyCached, SetNegativeCache, EvictHash, EvictNeg, RGoto, Answer,
                  TypeOK, RequestOK
    <3>4. CASE SetLinkExpired(r) \/ SetLinkHSet(r) \/ SetLinkExpire(r) \/ SetLinkDelNeg(r)
      BY <3>4 DEF SetLinkExpired, SetLinkHSet, SetLinkExpire, SetLinkDelNeg, RGoto,
                  HeldIsCommitted
    <3>5. CASE Validate(r)
      BY <3>5 DEF Validate, RGoto, Answer, TypeOK, RequestOK
    <3> QED
      BY <3>1, <3>2, <3>3, <3>4, <3>5 DEF Resolve
  <2> QED
    BY <1>1, <2>1, <2>2 DEF HeldIsCommitted, Committed
<1>5. ServedWasCommitted'
  <2>1. ASSUME reply'.answer = "redirect"
        PROVE  Validate(r) /\ rlink[r].enabled /\ ~IsExpired(rlink[r].exp)
               /\ reply'.dest = rlink[r].dest
    BY <2>1 DEF NoReply, Answer, Say, Resolve, GetLink, IsNegativelyCached,
           GetLinkByShortCode, SetNegativeCache, SetLinkExpired, SetLinkHSet,
           SetLinkExpire, SetLinkDelNeg, Validate, EvictHash, EvictNeg
  <2>2. ASSUME Validate(r), rlink[r].enabled, ~IsExpired(rlink[r].exp)
        PROVE  \E c \in history : c.dest = rlink[r].dest /\ c.enabled /\ ~IsExpired(c.exp)
    <3>1. PICK c \in history : c.dest = rlink[r].dest /\ c.enabled = rlink[r].enabled
                               /\ NoLater(rlink[r].exp, c.exp)
      BY <2>2 DEF Validate, HeldIsCommitted, Committed
    <3>2. c.exp \in Expiry /\ rlink[r].exp \in Expiry
      BY DEF TypeOK, GhostOK, RequestOK, Content, Link
    <3>3. ~IsExpired(c.exp)
      BY <2>2, <3>1, <3>2, LinkAssumption DEF NoLater, IsExpired, Expiry
    <3> QED
      BY <2>2, <3>1, <3>3
  <2> QED
    BY <1>1, <2>1, <2>2 DEF ServedWasCommitted, IsExpired
<1> QED
  BY <1>2, <1>3, <1>4, <1>5

\* Every row a write commits is entered in the history in the same step.
LEMMA HistoryWrite ==
    ASSUME TypeOK, HistoryInv, NEW w \in Writers, Begin(w) \/ Write(w)
    PROVE  HistoryInv'
<1> USE DEF HistoryInv
<1>1. UNCHANGED <<rpc, rlink>> /\ reply' = NoReply /\ history \subseteq history'
  BY DEF request, ghost, UpdateRow, Begin, Write, CreateLink, UpdateLinkRead,
         DeleteLinkRead, UpdateLinkCommit, DeleteLinkCommit, InvalidateHash, InvalidateNeg
<1>2. UNCHANGED entry \/ entry' = NoEntry
  BY DEF Begin, Write, CreateLink, UpdateLinkRead, DeleteLinkRead, UpdateLinkCommit,
         DeleteLinkCommit, InvalidateHash, InvalidateNeg
<1>3. EntryWasCommitted'
  <2>1. CASE UNCHANGED entry
    BY <1>1, <2>1, CommittedMonotone DEF EntryWasCommitted, Cached, Committed
  <2>2. CASE entry' = NoEntry
    BY <2>2 DEF EntryWasCommitted, Cached, NoEntry
  <2> QED
    BY <1>2, <2>1, <2>2
<1>4. HeldIsCommitted'
  BY <1>1, CommittedMonotone DEF HeldIsCommitted, Committed
<1>5. ServedWasCommitted'
  BY <1>1 DEF ServedWasCommitted, NoReply
<1>6. LiveIsCommitted'
  <2>1. CASE UNCHANGED rows
    BY <1>1, <2>1 DEF LiveIsCommitted, IsLive, ContentOf
  <2>2. ASSUME NEW l \in Links, NEW e \in Lifetimes \cup {Never}, CreateLink(w, l, e)
        PROVE  LiveIsCommitted'
    <3>1. \A k \in Links \ {l} : rows'[k] = rows[k]
      BY <2>2 DEF CreateLink, TypeOK, StoreOK
    <3>2. ContentOf(rows'[l]) \in history'
      BY <2>2 DEF CreateLink
    <3> QED
      BY <1>1, <3>1, <3>2 DEF LiveIsCommitted, IsLive, ContentOf
  <2>3. ASSUME wlink[w].id \in Links, UpdateRow(w)
        PROVE  LiveIsCommitted'
    <3>1. \A k \in Links \ {wlink[w].id} : rows'[k] = rows[k]
      BY <2>3 DEF UpdateRow, TypeOK, StoreOK
    <3>2. ContentOf(rows'[wlink[w].id]) \in history'
      BY <2>3 DEF UpdateRow
    <3> QED
      BY <1>1, <2>3, <3>1, <3>2 DEF LiveIsCommitted, IsLive, ContentOf
  <2>4. ASSUME wlink[w].id \in Links, DeleteRow(w)
        PROVE  LiveIsCommitted'
    <3>1. \A k \in Links \ {wlink[w].id} : rows'[k] = rows[k]
      BY <2>4 DEF DeleteRow, TypeOK, StoreOK
    <3>2. rows'[wlink[w].id].state = "deleted"
      BY <2>4 DEF DeleteRow, TypeOK, StoreOK, Row
    <3> QED
      BY <1>1, <2>4, <3>1, <3>2 DEF LiveIsCommitted, IsLive, ContentOf
  <2>5. CASE UpdateLinkCommit(w)
    <3>1. wlink[w].id \in Links
      BY <2>5 DEF UpdateLinkCommit, TypeOK, WriterOK
    <3> QED
      BY <2>1, <2>3, <2>5, <3>1 DEF UpdateLinkCommit
  <2>6. CASE DeleteLinkCommit(w)
    <3>1. wlink[w].id \in Links
      BY <2>6 DEF DeleteLinkCommit, TypeOK, WriterOK
    <3> QED
      BY <2>1, <2>4, <2>6, <3>1 DEF DeleteLinkCommit
  <2> QED
    BY <2>1, <2>2, <2>5, <2>6
       DEF Begin, Write, UpdateLinkRead, DeleteLinkRead, InvalidateHash, InvalidateNeg
<1> QED
  BY <1>3, <1>4, <1>5, <1>6

\* Ageing rows, hashes and held links together keeps them committed.
LEMMA HistoryTick == ASSUME TypeOK, HistoryInv, Tick PROVE HistoryInv'
<1> USE DEF HistoryInv
<1>1. history' = {Older(c) : c \in history} /\ reply' = NoReply /\ UNCHANGED rpc
  BY DEF Tick
<1>2. LiveIsCommitted'
  <2> SUFFICES ASSUME NEW l \in Links, rows'[l].state = "live"
               PROVE  ContentOf(rows'[l]) \in history'
    BY DEF LiveIsCommitted, IsLive
  <2>1. rows[l] \in Row /\ rows'[l] = Older(rows[l])
    BY DEF Tick, TypeOK, StoreOK
  <2>2. ContentOf(rows[l]) \in history
    BY <2>1 DEF LiveIsCommitted, IsLive, Older, Row
  <2>3. ContentOf(rows'[l]) = Older(ContentOf(rows[l]))
    BY <2>1 DEF ContentOf, Older, Row
  <2> QED
    BY <1>1, <2>2, <2>3
<1>3. EntryWasCommitted'
  <2>1. CASE entry' = NoEntry
    BY <2>1 DEF EntryWasCommitted, Cached, NoEntry
  <2>2. CASE entry' # NoEntry
    <3>1. entry'.dest = entry.dest /\ entry'.enabled = entry.enabled
          /\ entry'.exp = Age(entry.exp) /\ (Cached' => Cached) /\ entry.exp \in Expiry
      BY <2>2 DEF Tick, Older, TypeOK, StoreOK, Cached
    <3> QED
      BY <1>1, <3>1, CommittedAges DEF EntryWasCommitted, Committed
  <2> QED
    BY <2>1, <2>2
<1>4. HeldIsCommitted'
  <2> SUFFICES ASSUME NEW r \in Requests,
                      rpc[r] \in {"backfill", "expire", "unneg", "validate"}
               PROVE  Committed(rlink[r])'
    BY <1>1 DEF HeldIsCommitted
  <2>1. rlink'[r].dest = rlink[r].dest /\ rlink'[r].enabled = rlink[r].enabled
        /\ rlink'[r].exp = Age(rlink[r].exp) /\ rlink[r].exp \in Expiry
    BY DEF Tick, Older, TypeOK, RequestOK, Link
  <2>2. Committed(rlink[r])
    BY DEF HeldIsCommitted
  <2> QED
    BY <1>1, <2>1, <2>2, CommittedAges DEF Committed
<1>5. ServedWasCommitted'
  BY <1>1 DEF ServedWasCommitted, NoReply
<1> QED
  BY <1>2, <1>3, <1>4, <1>5

\* HistoryInv is inductive, given the types.
LEMMA HistoryNext == TypeOK /\ HistoryInv /\ [Next]_vars => HistoryInv'
<1> SUFFICES ASSUME TypeOK, HistoryInv, [Next]_vars PROVE HistoryInv'
  OBVIOUS
<1>1. CASE UNCHANGED vars
  BY <1>1 DEF vars, HistoryInv, LiveIsCommitted, IsLive, ContentOf, EntryWasCommitted,
              Cached, HeldIsCommitted, ServedWasCommitted, Committed
<1> QED
  BY <1>1, HistoryResolve, HistoryWrite, HistoryTick DEF Next

\* ResolveRedirect never redirects to a destination that was not committed as
\* enabled with an expires_at still ahead, for any number of rows, requests
\* and API calls, whatever Redis, PostgreSQL or a process loses.
THEOREM ServedCorrect == Spec => []ServedWasCommitted
<1>1. HistoryInv => ServedWasCommitted
  BY DEF HistoryInv
<1> QED
  BY <1>1, TypeInit, TypeNext, HistoryInit, HistoryNext, PTL DEF Spec

\* SetLink never leaves a hash that mixes two contents or outlives its own.
THEOREM EntryCorrect == Spec => []EntryWasCommitted
<1>1. HistoryInv => EntryWasCommitted
  BY DEF HistoryInv
<1> QED
  BY <1>1, TypeInit, TypeNext, HistoryInit, HistoryNext, PTL DEF Spec
-----------------------------------------------------------------------------
(***************************************************************************)
(* Why a hash may be stale.                                                *)
(***************************************************************************)

\* A backfill (SetLink) leaves a stale hash only with one of the causes.
LEMMA StaleResolve ==
    ASSUME TypeOK, StaleHasCause, NEW r \in Requests, GetLink(r) \/ Resolve(r)
    PROVE  StaleHasCause'
<1>1. UNCHANGED <<rows, wpc>>
  BY DEF writer, Resolve, GetLink, IsNegativelyCached, GetLinkByShortCode,
         SetNegativeCache, SetLinkExpired, SetLinkHSet, SetLinkExpire, SetLinkDelNeg,
         Validate, EvictHash, EvictNeg
<1>2. faults > 0 => faults' > 0
  BY DEF TypeOK, GhostOK, Fault, NoFault, Resolve, GetLink, IsNegativelyCached,
         GetLinkByShortCode, SetNegativeCache, SetLinkExpired, SetLinkHSet,
         SetLinkExpire, SetLinkDelNeg, Validate, EvictHash, EvictNeg
<1>3. raced => raced'
  BY Zenon DEF ghost, Resolve, GetLink, IsNegativelyCached, GetLinkByShortCode,
         SetNegativeCache, SetLinkExpired, SetLinkHSet, SetLinkExpire, SetLinkDelNeg,
         Validate, EvictHash, EvictNeg
<1>4. ASSUME entry'.dest = entry.dest, entry'.enabled = entry.enabled, Cached' => Cached
      PROVE  StaleHasCause'
  BY <1>1, <1>2, <1>3, <1>4 DEF StaleHasCause, IsCurrent, IsLive
<1>5. CASE entry' = NoEntry
  BY <1>5 DEF StaleHasCause, Cached, NoEntry
<1>6. CASE UNCHANGED entry
  BY <1>4, <1>6 DEF Cached
<1>7. CASE SetLinkHSet(r)
  <2>1. CASE HSet(rlink[r]) /\ raced' = (raced \/ ~IsCurrent(rlink[r]))
    <3>1. entry'.dest = rlink[r].dest /\ entry'.enabled = rlink[r].enabled
      BY <2>1 DEF HSet
    <3>2. IsCurrent(rlink[r]) => IsCurrent(entry)'
      BY <1>1, <3>1 DEF IsCurrent, IsLive
    <3> QED
      BY <2>1, <3>2 DEF StaleHasCause
  <2> QED
    BY <1>6, <1>7, <2>1 DEF SetLinkHSet
<1>8. CASE SetLinkExpire(r)
  <2>1. entry' = entry \/ (Cached /\ entry' = [entry EXCEPT !.ttl = rttl[r]])
    BY <1>8 DEF SetLinkExpire, SetTTL
  <2>2. entry'.dest = entry.dest /\ entry'.enabled = entry.enabled /\ (Cached' => Cached)
    BY <2>1 DEF TypeOK, StoreOK, Cached
  <2> QED
    BY <1>4, <2>2
<1> QED
  BY <1>5, <1>6, <1>7, <1>8
     DEF Resolve, GetLink, IsNegativelyCached, GetLinkByShortCode, SetNegativeCache,
         SetLinkExpired, SetLinkDelNeg, Validate, EvictHash, EvictNeg

\* A commit that makes a hash stale has its invalidation still to run, or
\* failed.
LEMMA StaleWrite ==
    ASSUME TypeOK, StaleHasCause, NEW w \in Writers, Begin(w) \/ Write(w)
    PROVE  StaleHasCause'
<1>1. UNCHANGED raced
  BY Zenon
     DEF ghost, Begin, Write, CreateLink, UpdateLinkRead, DeleteLinkRead,
         UpdateLinkCommit, DeleteLinkCommit, InvalidateHash, InvalidateNeg
<1>2. faults \in Nat /\ (faults' = faults \/ faults' = faults + 1)
  BY LinkAssumption
     DEF TypeOK, GhostOK, Fault, NoFault, Begin, Write, CreateLink, UpdateLinkRead,
         DeleteLinkRead, UpdateLinkCommit, DeleteLinkCommit, InvalidateHash, InvalidateNeg
<1>3. ASSUME NEW l \in Links, NEW e \in Lifetimes \cup {Never}, CreateLink(w, l, e)
      PROVE  StaleHasCause'
  <2>1. UNCHANGED <<entry, wpc>> /\ ~IsCurrent(entry)
    BY <1>3 DEF CreateLink, writer, IsCurrent
  <2> QED
    BY <1>1, <1>2, <2>1 DEF StaleHasCause, Cached
<1>4. ASSUME UNCHANGED <<entry, rows>>, \A v \in Writers : wpc[v] = "invalidate" => wpc'[v] = "invalidate"
      PROVE  StaleHasCause'
  BY <1>1, <1>2, <1>4 DEF StaleHasCause, Cached, IsCurrent, IsLive
<1>5. ASSUME wpc[w] # "invalidate", WGoto(w, "invalidate") \/ faults' = faults + 1
      PROVE  StaleHasCause'
  BY <1>2, <1>5 DEF StaleHasCause, WGoto, TypeOK, WriterOK
<1>6. ASSUME NEW pc, wpc[w] # "invalidate", WGoto(w, pc), UNCHANGED <<entry, rows>>
      PROVE  StaleHasCause'
  BY <1>4, <1>6 DEF WGoto, TypeOK, WriterOK
<1>7. CASE UpdateLinkCommit(w)
  BY <1>5, <1>6, <1>7 DEF UpdateLinkCommit, WEnd, Fault
<1>8. CASE DeleteLinkCommit(w)
  BY <1>5, <1>6, <1>8 DEF DeleteLinkCommit, WEnd, Fault
<1>9. CASE InvalidateHash(w)
  <2>1. CASE entry' = NoEntry
    BY <2>1 DEF StaleHasCause, Cached, NoEntry
  <2>2. CASE faults' = faults + 1
    BY <1>2, <2>2 DEF StaleHasCause
  <2> QED
    BY <1>9, <2>1, <2>2 DEF InvalidateHash, Fault
<1>10. CASE InvalidateNeg(w)
  BY <1>6, <1>10 DEF InvalidateNeg, WEnd
<1> QED
  BY <1>3, <1>6, <1>7, <1>8, <1>9, <1>10
     DEF Begin, Write, UpdateLinkRead, DeleteLinkRead, StartWrite

\* Time passing ages a hash and its row alike, so it adds no staleness.
LEMMA StaleTick == ASSUME TypeOK, StaleHasCause, Tick PROVE StaleHasCause'
<1>1. UNCHANGED <<raced, faults, wpc>>
  BY DEF Tick
<1>2. \A l \in Links : /\ rows'[l].state = rows[l].state /\ rows'[l].dest = rows[l].dest
                       /\ rows'[l].enabled = rows[l].enabled
  BY DEF Tick, Older, TypeOK, StoreOK, Row
<1>3. CASE entry' = NoEntry
  BY <1>3 DEF StaleHasCause, Cached, NoEntry
<1>4. CASE entry' # NoEntry
  <2>1. entry'.dest = entry.dest /\ entry'.enabled = entry.enabled /\ (Cached' => Cached)
    BY <1>4 DEF Tick, Older, TypeOK, StoreOK, Cached
  <2> QED
    BY <1>1, <1>2, <2>1 DEF StaleHasCause, IsCurrent, IsLive
<1> QED
  BY <1>3, <1>4

\* A hash that differs from the live row has one of the three causes: an
\* invalidation still to run, a backfill that raced a commit, a failed step.
THEOREM StaleCorrect == Spec => []StaleHasCause
<1>1. Init => StaleHasCause
  BY DEF Init, StaleHasCause, Cached, NoEntry
<1>2. TypeOK /\ StaleHasCause /\ [Next]_vars => StaleHasCause'
  <2> SUFFICES ASSUME TypeOK, StaleHasCause, [Next]_vars PROVE StaleHasCause'
    OBVIOUS
  <2>1. CASE UNCHANGED vars
    BY <2>1 DEF vars, StaleHasCause, Cached, IsCurrent, IsLive
  <2> QED
    BY <2>1, StaleResolve, StaleWrite, StaleTick DEF Next
<1> QED
  BY <1>1, <1>2, TypeInit, TypeNext, PTL DEF Spec
-----------------------------------------------------------------------------
(***************************************************************************)
(* Deleted rows.                                                           *)
(***************************************************************************)

\* No step rewrites or revives a deleted row, however many PATCH and DELETE
\* calls read it before it was deleted.
THEOREM DeletedCorrect == Spec => DeletedIsFinal
<1> DEFINE Frozen == \A l \in Links : rows[l].state = "deleted" =>
                         /\ rows'[l].state = "deleted"
                         /\ rows'[l].dest = rows[l].dest
                         /\ rows'[l].enabled = rows[l].enabled
<1>1. TypeOK /\ [Next]_vars => [Frozen]_vars
  <2> SUFFICES ASSUME TypeOK, Next PROVE Frozen
    BY DEF vars
  <2>1. CASE UNCHANGED rows
    BY <2>1
  <2>2. CASE \E r \in Requests : GetLink(r) \/ Resolve(r)
    BY <2>1, <2>2
       DEF Resolve, GetLink, IsNegativelyCached, GetLinkByShortCode, SetNegativeCache,
           SetLinkExpired, SetLinkHSet, SetLinkExpire, SetLinkDelNeg, Validate,
           EvictHash, EvictNeg
  <2>3. CASE Tick
    BY <2>3 DEF Tick, Older, TypeOK, StoreOK, Row
  <2>4. ASSUME NEW w \in Writers, NEW l \in Links, NEW e \in Lifetimes \cup {Never},
               CreateLink(w, l, e)
        PROVE  Frozen
    BY <2>4 DEF CreateLink, TypeOK, StoreOK
  <2>5. ASSUME NEW w \in Writers, UpdateLinkCommit(w)
        PROVE  Frozen
    <3>1. CASE UpdateRow(w)
      BY <3>1 DEF UpdateRow, IsLive, TypeOK, StoreOK
    <3> QED
      BY <2>1, <2>5, <3>1 DEF UpdateLinkCommit
  <2>6. ASSUME NEW w \in Writers, DeleteLinkCommit(w)
        PROVE  Frozen
    <3>1. CASE DeleteRow(w)
      BY <3>1 DEF DeleteRow, IsLive, TypeOK, StoreOK
    <3> QED
      BY <2>1, <2>6, <3>1 DEF DeleteLinkCommit
  <2> QED
    BY <2>1, <2>2, <2>3, <2>4, <2>5, <2>6
       DEF Next, Begin, Write, UpdateLinkRead, DeleteLinkRead, InvalidateHash, InvalidateNeg
<1> QED
  BY <1>1, TypeInit, TypeNext, PTL DEF Spec, DeletedIsFinal
=============================================================================
