---------------------------- MODULE LinkRedirect ----------------------------
(***************************************************************************)
(* The redirect path and the link writes of the link service, for ONE      *)
(* short code: the rows that ever carried the code in PostgreSQL, the two  *)
(* Redis keys of the code (the hash link:{code} and the negative marker    *)
(* link:{code}:neg), the requests that resolve it and the API calls that   *)
(* create, update and delete links under it.  Keys and rows of different   *)
(* codes share nothing, so one code is the whole story.                    *)
(*                                                                         *)
(* Every Redis command and every SQL statement is one step; any other      *)
(* process may run between two of them.  Time is kept as what remains: an  *)
(* expires_at is the number of ticks until it, a TTL the number of ticks   *)
(* the key still has, so that a behaviour may go on for ever.              *)
(*                                                                         *)
(* The pair (destination, redirect_type) is abstracted to one value, dest: *)
(* the number of the write that set it.  The deleted_at field of the hash  *)
(* is left out: SetLink is only given rows read under deleted_at IS NULL.  *)
(***************************************************************************)
EXTENDS Integers

CONSTANTS
    Links,          \* the ids of the rows that may carry the code
    Requests,       \* concurrent GET /{code} requests
    Writers,        \* concurrent API calls on links
    Never,          \* an absent expires_at
    NoID,           \* the empty string where a link id is expected
    Lifetimes,      \* the expires_at a client may ask for, in ticks from now
    Sec,            \* ticks in a second
    LinkTTL,        \* DefaultLinkTTL in ticks
    NegTTL,         \* NegativeCacheTTL in ticks
    MaxWrites,      \* bound: API writes started in a behaviour
    MaxFaults,      \* bound: failing Redis, SQL or process steps
    TornPipelines   \* TRUE: a pipeline may be cut between two commands

ASSUME LinkAssumption ==
    /\ Never \notin Int
    /\ NoID \notin Links
    /\ Lifetimes \subseteq Nat
    /\ Sec \in Nat \ {0}
    /\ LinkTTL \in Nat \ {0} /\ LinkTTL >= Sec
    /\ NegTTL \in Nat \ {0}
    /\ MaxWrites \in Nat
    /\ MaxFaults \in Nat
    /\ TornPipelines \in BOOLEAN

VARIABLES
    rows,       \* the table links: one record for each id
    entry,      \* the hash link:{code}, ttl = 0 when the key does not exist
    neg,        \* remaining TTL of link:{code}:neg, 0 when it does not exist
    clock,      \* the current tick within the second
    rpc,        \* where each redirect request is
    rlink,      \* the link a request has in hand
    rttl,       \* the TTL a request computed for its backfill
    wpc,        \* where each API call is
    wlink,      \* the row an API call read, patched
    reply,      \* the answer given by the last step, if it gave one
    writes,     \* API writes started
    faults,     \* failures so far
    history,    \* every content ever committed to a live row
    raced       \* TRUE once a request cached a link that was no longer current

vars == <<rows, entry, neg, clock, rpc, rlink, rttl, wpc, wlink, reply,
          writes, faults, history, raced>>

request == <<rpc, rlink, rttl>>
writer  == <<wpc, wlink>>
ghost   == <<history, raced>>
-----------------------------------------------------------------------------
(* Time. *)

Expiry == {Never} \cup (Nat \cup {-1})

\* time.Now().After(expires_at)
IsExpired(e) == e # Never /\ e < 0

\* time.Until(expires_at) <= 0
NoTimeLeft(e) == e # Never /\ e <= 0

\* One tick nearer; what is past stays past.
Age(e) == IF e = Never \/ e = -1 THEN e ELSE e - 1

\* A mutant, used to test the properties: the fraction of a second is
\* rounded up.
ToUnixRoundedUp(e) ==
    IF e = Never THEN Never ELSE e + ((Sec - ((clock + e) % Sec)) % Sec)

\* expires_at goes through the hash as Unix seconds, so its fraction of a
\* second is lost on the way.
ToUnix(e) ==
    IF e = Never THEN Never
    ELSE LET t == e - ((clock + e) % Sec)
         IN  IF t < 0 THEN -1 ELSE t

\* EXPIRE takes whole seconds; the client library raises less than one to one.
FormatSec(d) == IF d < Sec THEN Sec ELSE d - (d % Sec)

TTLFor(e) == IF e = Never \/ e > LinkTTL THEN LinkTTL ELSE e
-----------------------------------------------------------------------------
(* Links in the table, in the hash and in hand. *)

Content == [dest : Nat, enabled : BOOLEAN, exp : Expiry]
Row     == [state : {"absent", "live", "deleted"},
            dest : Nat, enabled : BOOLEAN, exp : Expiry]
Link    == [id : Links \cup {NoID},
            dest : Nat, enabled : BOOLEAN, exp : Expiry]

NoRow   == [state |-> "absent", dest |-> 0, enabled |-> FALSE, exp |-> Never]
NoEntry == [dest |-> 0, enabled |-> FALSE, exp |-> Never, ttl |-> 0]
NoLink  == [id |-> NoID, dest |-> 0, enabled |-> FALSE, exp |-> Never]

NoReply == [answer |-> "none", dest |-> 0, id |-> NoID]
Say(a, l) == [answer |-> a, dest |-> l.dest, id |-> l.id]

IsLive(l) == rows[l].state = "live"
Cached    == entry.ttl # 0

ContentOf(r) == [dest |-> r.dest, enabled |-> r.enabled, exp |-> r.exp]

RowToLink(l) == [id |-> l, dest |-> rows[l].dest,
                 enabled |-> rows[l].enabled, exp |-> rows[l].exp]

\* The hash has no link id and no owner.
ToLink(h) == [id |-> NoID, dest |-> h.dest, enabled |-> h.enabled, exp |-> h.exp]

\* x has the destination and the flag of the live row of the code.
IsCurrent(x) ==
    \E l \in Links : IsLive(l) /\ rows[l].dest = x.dest
                               /\ rows[l].enabled = x.enabled
-----------------------------------------------------------------------------
Init ==
    /\ rows = [l \in Links |-> NoRow]
    /\ entry = NoEntry
    /\ neg = 0
    /\ clock = 0
    /\ rpc = [r \in Requests |-> "idle"]
    /\ rlink = [r \in Requests |-> NoLink]
    /\ rttl = [r \in Requests |-> 0]
    /\ wpc = [w \in Writers |-> "idle"]
    /\ wlink = [w \in Writers |-> NoLink]
    /\ reply = NoReply
    /\ writes = 0
    /\ faults = 0
    /\ history = {}
    /\ raced = FALSE

\* A step that fails: Redis or PostgreSQL unreachable, the connection cut.  A
\* command whose answer is an error may have been executed all the same; that
\* case is spelled out where the error changes what the code does next.
Fault   == faults < MaxFaults /\ faults' = faults + 1
NoFault == UNCHANGED faults
-----------------------------------------------------------------------------
(* GET /{code}: LinkService.ResolveRedirect. *)

RGoto(r, pc) == rpc' = [rpc EXCEPT ![r] = pc]

\* The request ends: 302/301 with a click event, 404, 410 or 500.
Answer(r, a, l) ==
    /\ rpc' = [rpc EXCEPT ![r] = "idle"]
    /\ rlink' = [rlink EXCEPT ![r] = NoLink]
    /\ reply' = Say(a, l)

\* Step 1: HGETALL link:{code}.
GetLink(r) ==
    /\ rpc[r] = "idle"
    /\ \/ /\ Cached
          /\ RGoto(r, "validate")
          /\ rlink' = [rlink EXCEPT ![r] = ToLink(entry)]
          /\ NoFault
       \/ /\ ~Cached
          /\ RGoto(r, "negcheck")
          /\ NoFault /\ UNCHANGED rlink
       \/ /\ RGoto(r, "lookup")
          /\ Fault /\ UNCHANGED rlink
    /\ reply' = NoReply
    /\ UNCHANGED <<rows, entry, neg, clock, rttl, writer, writes, ghost>>

\* Step 2: EXISTS link:{code}:neg; an error counts as "not there".
IsNegativelyCached(r) ==
    /\ rpc[r] = "negcheck"
    /\ \/ neg > 0 /\ Answer(r, "notfound", NoLink) /\ NoFault
       \/ neg = 0 /\ RGoto(r, "lookup") /\ NoFault
                  /\ reply' = NoReply /\ UNCHANGED rlink
       \/ RGoto(r, "lookup") /\ Fault
                  /\ reply' = NoReply /\ UNCHANGED rlink
    /\ UNCHANGED <<rows, entry, neg, clock, rttl, writer, writes, ghost>>

\* Step 3: SELECT ... WHERE short_code = $1 AND deleted_at IS NULL.
GetLinkByShortCode(r) ==
    /\ rpc[r] = "lookup"
    /\ \/ \E l \in Links :
             /\ IsLive(l)
             /\ RGoto(r, "backfill")
             /\ rlink' = [rlink EXCEPT ![r] = RowToLink(l)]
             /\ reply' = NoReply
             /\ NoFault
       \/ /\ \A l \in Links : ~IsLive(l)
          /\ RGoto(r, "setneg")
          /\ reply' = NoReply
          /\ NoFault /\ UNCHANGED rlink
       \/ Answer(r, "error", NoLink) /\ Fault
    /\ UNCHANGED <<rows, entry, neg, clock, rttl, writer, writes, ghost>>

\* SETEX link:{code}:neg; the answer does not depend on its success.
SetNegativeCache(r) ==
    /\ rpc[r] = "setneg"
    /\ \/ neg' = NegTTL /\ NoFault
       \/ UNCHANGED neg /\ Fault
    /\ Answer(r, "notfound", NoLink)
    /\ UNCHANGED <<rows, entry, clock, rttl, writer, writes, ghost>>

\* Step 4: SetLink.  A link with no time left drops both keys.
SetLinkExpired(r) ==
    /\ rpc[r] = "backfill"
    /\ NoTimeLeft(rlink[r].exp)
    /\ \/ entry' = NoEntry /\ neg' = 0 /\ NoFault
       \/ UNCHANGED <<entry, neg>> /\ Fault
    /\ RGoto(r, "validate")
    /\ reply' = NoReply
    /\ UNCHANGED <<rows, clock, rlink, rttl, writer, writes, ghost>>

\* A mutant, used to test the properties: expires_at is not among the
\* fields.
HSetWithoutExpiry(x) ==
    entry' = [dest |-> x.dest, enabled |-> x.enabled, exp |-> entry.exp,
              ttl |-> IF Cached THEN entry.ttl ELSE -1]

\* HSET writes the fields it is given and keeps the others of the key: an
\* expires_at already in the hash survives a link that has none.  The key
\* keeps its TTL; a new key has none (-1).
HSet(x) ==
    entry' = [dest |-> x.dest, enabled |-> x.enabled,
              exp |-> IF x.exp = Never THEN entry.exp ELSE ToUnix(x.exp),
              ttl |-> IF Cached THEN entry.ttl ELSE -1]

SetLinkHSet(r) ==
    /\ rpc[r] = "backfill"
    /\ ~NoTimeLeft(rlink[r].exp)
    /\ \/ /\ HSet(rlink[r])
          /\ RGoto(r, "expire")
          /\ rttl' = [rttl EXCEPT ![r] = FormatSec(TTLFor(rlink[r].exp))]
          /\ raced' = (raced \/ ~IsCurrent(rlink[r]))
          /\ NoFault
       \/ RGoto(r, "validate") /\ Fault /\ UNCHANGED <<entry, rttl, raced>>
    /\ reply' = NoReply
    /\ UNCHANGED <<rows, neg, clock, rlink, writer, writes, history>>

\* A mutant, used to test the properties: no EXPIRE after HSET.
SetNoTTL(t) == entry

\* EXPIRE does nothing to a key that does not exist.
SetTTL(t) == IF Cached THEN [entry EXCEPT !.ttl = t] ELSE entry

SetLinkExpire(r) ==
    /\ rpc[r] = "expire"
    /\ \/ /\ entry' = SetTTL(rttl[r])
          /\ RGoto(r, "unneg")
          /\ NoFault
       \/ /\ entry' = SetTTL(rttl[r]) \/ (TornPipelines /\ UNCHANGED entry)
          /\ RGoto(r, "validate")
          /\ Fault
    /\ rttl' = [rttl EXCEPT ![r] = 0]
    /\ reply' = NoReply
    /\ UNCHANGED <<rows, neg, clock, rlink, writer, writes, ghost>>

\* DEL link:{code}:neg; its error is dropped.
SetLinkDelNeg(r) ==
    /\ rpc[r] = "unneg"
    /\ \/ neg' = 0 /\ NoFault
       \/ UNCHANGED neg /\ Fault
    /\ RGoto(r, "validate")
    /\ reply' = NoReply
    /\ UNCHANGED <<rows, entry, clock, rlink, rttl, writer, writes, ghost>>

\* What the analytics worker accepts: an event without link_id is refused.
ValidateClickEventPayload(event) == event.id # NoID

\* Step 5: validateRedirectLink, and the redirect with its click event.
Validate(r) ==
    /\ rpc[r] = "validate"
    /\ \/ /\ ~rlink[r].enabled
          /\ Answer(r, "disabled", rlink[r])
       \/ /\ rlink[r].enabled /\ IsExpired(rlink[r].exp)
          /\ RGoto(r, "evict")
          /\ reply' = NoReply
          /\ UNCHANGED rlink
       \/ /\ rlink[r].enabled /\ ~IsExpired(rlink[r].exp)
          /\ Answer(r, "redirect", rlink[r])
    /\ UNCHANGED <<rows, entry, neg, clock, rttl, writer, writes, faults, ghost>>

\* cache.DeleteLink, first command: DEL link:{code}.
EvictHash(r) ==
    /\ rpc[r] = "evict"
    /\ \/ entry' = NoEntry /\ RGoto(r, "evictneg") /\ reply' = NoReply
                           /\ NoFault /\ UNCHANGED rlink
       \/ UNCHANGED entry  /\ Answer(r, "expired", rlink[r]) /\ Fault
    /\ UNCHANGED <<rows, neg, clock, rttl, writer, writes, ghost>>

\* cache.DeleteLink, second command: DEL link:{code}:neg.
EvictNeg(r) ==
    /\ rpc[r] = "evictneg"
    /\ \/ neg' = 0 /\ NoFault
       \/ TornPipelines /\ UNCHANGED neg /\ Fault
    /\ Answer(r, "expired", rlink[r])
    /\ UNCHANGED <<rows, entry, clock, rttl, writer, writes, ghost>>
-----------------------------------------------------------------------------
(* POST, PATCH and DELETE /api/v1/links. *)

WGoto(w, pc) == wpc' = [wpc EXCEPT ![w] = pc]

WEnd(w) == WGoto(w, "idle") /\ wlink' = [wlink EXCEPT ![w] = NoLink]

StartWrite(w) == wpc[w] = "idle" /\ writes < MaxWrites /\ writes' = writes + 1

\* INSERT: the partial unique index refuses a second live row of the code.
\* The cache is left alone.
CreateLink(w, l, e) ==
    /\ StartWrite(w)
    /\ rows[l].state = "absent"
    /\ \A k \in Links : ~IsLive(k)
    /\ rows' = [rows EXCEPT ![l] =
                   [state |-> "live", dest |-> writes', enabled |-> TRUE, exp |-> e]]
    /\ history' = history \cup {ContentOf(rows'[l])}
    /\ reply' = NoReply
    /\ UNCHANGED <<entry, neg, clock, request, writer, faults, raced>>

\* GetLinkByID, the expiry check and the patch in memory: the destination
\* (when d), the flag, and expires_at when the client gives one (ClearExpiry
\* is set by no caller).
UpdateLinkRead(w, l, d, en, e) ==
    /\ StartWrite(w)
    /\ IsLive(l) /\ ~IsExpired(rows[l].exp)
    /\ wlink' = [wlink EXCEPT ![w] =
                   [id |-> l,
                    dest |-> IF d THEN writes' ELSE rows[l].dest,
                    enabled |-> en,
                    exp |-> IF e = Never THEN rows[l].exp ELSE e]]
    /\ WGoto(w, "update")
    /\ reply' = NoReply
    /\ UNCHANGED <<rows, entry, neg, clock, request, faults, ghost>>

\* A mutant, used to test the properties: no "AND deleted_at IS NULL".
UpdateAnyRow(w) ==
    LET l == wlink[w].id
    IN  /\ rows' = [rows EXCEPT ![l].dest = wlink[w].dest,
                                ![l].enabled = wlink[w].enabled,
                                ![l].exp = wlink[w].exp]
        /\ history' = history \cup {ContentOf(rows'[l])}

\* UPDATE links SET ... WHERE id = $1 AND deleted_at IS NULL: all mutable
\* fields of the copy read before.
UpdateRow(w) ==
    LET l == wlink[w].id
    IN  /\ IsLive(l)
        /\ rows' = [rows EXCEPT ![l].dest = wlink[w].dest,
                                ![l].enabled = wlink[w].enabled,
                                ![l].exp = wlink[w].exp]
        /\ history' = history \cup {ContentOf(rows'[l])}

\* A mutant, used to test the properties: the cache is not invalidated after
\* the commit.
UpdateWithoutInvalidation(w) ==
    /\ wpc[w] = "update"
    /\ \/ UpdateRow(w)
       \/ ~IsLive(wlink[w].id) /\ UNCHANGED <<rows, history>>
    /\ WEnd(w)
    /\ reply' = NoReply
    /\ UNCHANGED <<entry, neg, clock, request, writes, faults, raced>>

UpdateLinkCommit(w) ==
    /\ wpc[w] = "update"
    /\ \/ UpdateRow(w) /\ WGoto(w, "invalidate") /\ NoFault /\ UNCHANGED wlink
       \/ UpdateRow(w) /\ WEnd(w) /\ Fault              \* committed, answer lost
       \/ UNCHANGED <<rows, history>> /\ WEnd(w) /\ Fault
       \/ /\ ~IsLive(wlink[w].id)                       \* no row: ErrLinkNotFound
          /\ WEnd(w) /\ NoFault /\ UNCHANGED <<rows, history>>
    /\ reply' = NoReply
    /\ UNCHANGED <<entry, neg, clock, request, writes, raced>>

\* GetLinkByID for the short code.
DeleteLinkRead(w, l) ==
    /\ StartWrite(w)
    /\ IsLive(l)
    /\ wlink' = [wlink EXCEPT ![w] = RowToLink(l)]
    /\ WGoto(w, "delete")
    /\ reply' = NoReply
    /\ UNCHANGED <<rows, entry, neg, clock, request, faults, ghost>>

\* UPDATE links SET deleted_at = NOW() WHERE id = $1 AND deleted_at IS NULL.
DeleteRow(w) ==
    /\ IsLive(wlink[w].id)
    /\ rows' = [rows EXCEPT ![wlink[w].id].state = "deleted"]

DeleteLinkCommit(w) ==
    /\ wpc[w] = "delete"
    /\ \/ DeleteRow(w) /\ WGoto(w, "invalidate") /\ NoFault /\ UNCHANGED wlink
       \/ DeleteRow(w) /\ WEnd(w) /\ Fault              \* committed, answer lost
       \/ UNCHANGED rows /\ WEnd(w) /\ Fault
       \/ /\ ~IsLive(wlink[w].id)
          /\ WEnd(w) /\ NoFault /\ UNCHANGED rows
    /\ reply' = NoReply
    /\ UNCHANGED <<entry, neg, clock, request, writes, ghost>>

\* cache.DeleteLink after the commit: its error is dropped, and a process
\* that stops here never runs it.
InvalidateHash(w) ==
    /\ wpc[w] = "invalidate"
    /\ \/ entry' = NoEntry /\ WGoto(w, "invalidateneg") /\ NoFault /\ UNCHANGED wlink
       \/ UNCHANGED entry  /\ WEnd(w) /\ Fault
    /\ reply' = NoReply
    /\ UNCHANGED <<rows, neg, clock, request, writes, ghost>>

InvalidateNeg(w) ==
    /\ wpc[w] = "invalidateneg"
    /\ \/ neg' = 0 /\ NoFault
       \/ TornPipelines /\ UNCHANGED neg /\ Fault
    /\ WEnd(w)
    /\ reply' = NoReply
    /\ UNCHANGED <<rows, entry, clock, request, writes, ghost>>
-----------------------------------------------------------------------------
\* Time passes for the rows, the keys and the copies in hand.
Older(x) == [x EXCEPT !.exp = Age(@)]

Tick ==
    /\ clock' = (clock + 1) % Sec
    /\ rows' = [l \in Links |-> Older(rows[l])]
    /\ entry' = IF entry.ttl = 1 THEN NoEntry
                ELSE [Older(entry) EXCEPT !.ttl = IF @ > 0 THEN @ - 1 ELSE @]
    /\ neg' = IF neg > 0 THEN neg - 1 ELSE 0
    /\ rlink' = [r \in Requests |-> Older(rlink[r])]
    /\ wlink' = [w \in Writers |-> Older(wlink[w])]
    /\ history' = {Older(c) : c \in history}
    /\ reply' = NoReply
    /\ UNCHANGED <<rpc, rttl, wpc, writes, faults, raced>>

\* What a request does once it has begun.
Resolve(r) ==
    \/ IsNegativelyCached(r) \/ GetLinkByShortCode(r) \/ SetNegativeCache(r)
    \/ SetLinkExpired(r) \/ SetLinkHSet(r) \/ SetLinkExpire(r) \/ SetLinkDelNeg(r)
    \/ Validate(r) \/ EvictHash(r) \/ EvictNeg(r)

\* What an API call does once it has read its row.
Write(w) ==
    \/ UpdateLinkCommit(w) \/ DeleteLinkCommit(w)
    \/ InvalidateHash(w) \/ InvalidateNeg(w)

Begin(w) ==
    \E l \in Links :
        \/ \E e \in Lifetimes \cup {Never} : CreateLink(w, l, e)
        \/ \E d, en \in BOOLEAN, e \in Lifetimes \cup {Never} :
               UpdateLinkRead(w, l, d, en, e)
        \/ DeleteLinkRead(w, l)

Next ==
    \/ \E r \in Requests : GetLink(r) \/ Resolve(r)
    \/ \E w \in Writers : Begin(w) \/ Write(w)
    \/ Tick

Spec == Init /\ [][Next]_vars

\* Time passes, and a request or a call that has begun runs to its end (the
\* server gives each its own goroutine); clients owe nothing.
Fairness ==
    /\ WF_vars(Tick)
    /\ \A r \in Requests : WF_vars(Resolve(r))
    /\ \A w \in Writers : WF_vars(Write(w))

FairSpec == Spec /\ Fairness
-----------------------------------------------------------------------------
(* Properties. *)

Reply == [answer : {"none", "redirect", "notfound", "disabled", "expired", "error"},
          dest : Nat, id : Links \cup {NoID}]

RequestStep == {"idle", "negcheck", "lookup", "setneg", "backfill", "expire",
                "unneg", "validate", "evict", "evictneg"}

WriterStep == {"idle", "update", "delete", "invalidate", "invalidateneg"}

StoreOK ==
    /\ rows \in [Links -> Row]
    /\ entry \in [dest : Nat, enabled : BOOLEAN, exp : Expiry, ttl : Nat \cup {-1}]
    /\ neg \in Nat
    /\ clock \in 0 .. (Sec - 1)

RequestOK ==
    /\ rpc \in [Requests -> RequestStep]
    /\ rlink \in [Requests -> Link]
    /\ rttl \in [Requests -> Nat]
    /\ reply \in Reply

WriterOK ==
    /\ wpc \in [Writers -> WriterStep]
    /\ wlink \in [Writers -> Link]
    /\ \A w \in Writers : wpc[w] # "idle" => wlink[w].id \in Links
    /\ writes \in 0 .. MaxWrites

GhostOK ==
    /\ faults \in 0 .. MaxFaults
    /\ history \subseteq Content
    /\ raced \in BOOLEAN

\* Every variable has its type; an API call that has begun has a row in hand.
TypeOK == StoreOK /\ RequestOK /\ WriterOK /\ GhostOK

\* e is over no later than f.
NoLater(e, f) == f = Never \/ (e # Never /\ e <= f)

\* x carries the destination and the flag of one committed content, and does
\* not live longer than it.
Committed(x) ==
    \E c \in history : c.dest = x.dest /\ c.enabled = x.enabled /\ NoLater(x.exp, c.exp)

\* A redirect (301/302 answered by ResolveRedirect, from the hash or from the
\* table) goes to a destination that was committed, at some time, together
\* with enabled = true and an expires_at that has not passed even now.  No
\* interleaving of backfills, merging HSETs, truncated expires_at fields and
\* invalidations makes a destination outlive the expiry it was given, or
\* pairs it with a flag it never had.
ServedWasCommitted ==
    reply.answer = "redirect" =>
        \E c \in history : c.dest = reply.dest /\ c.enabled /\ ~IsExpired(c.exp)

\* The hash always holds one committed content, with an expires_at that is
\* not later than that content's own (cache.SetLink merging into an old hash).
EntryWasCommitted == Cached => Committed(entry)

\* The parts of the induction that carries the two above: the live row is in
\* the history, and so is, up to an earlier expiry, the link a request holds
\* between its lookup (or its hit) and its answer.
LiveIsCommitted == \A l \in Links : IsLive(l) => ContentOf(rows[l]) \in history

HeldIsCommitted ==
    \A r \in Requests :
        rpc[r] \in {"backfill", "expire", "unneg", "validate"} => Committed(rlink[r])

HistoryInv ==
    LiveIsCommitted /\ EntryWasCommitted /\ HeldIsCommitted /\ ServedWasCommitted

\* UpdateLink and DeleteLink invalidate after they commit.  A hash that differs
\* from the live row therefore means one of three things: the invalidation
\* is still to come, a request cached a row it had read before a commit, or
\* a step failed.
StaleHasCause ==
    (Cached /\ ~IsCurrent(entry)) =>
        \/ raced
        \/ faults > 0
        \/ \E w \in Writers : wpc[w] = "invalidate"

\* A PATCH that read its row before a DELETE committed does not bring the row
\* back and does not rewrite it: what is deleted keeps its content for ever
\* (WHERE id = $1 AND deleted_at IS NULL in UpdateLink and DeleteLink).
DeletedIsFinal ==
    [][\A l \in Links : rows[l].state = "deleted" =>
           /\ rows'[l].state = "deleted"
           /\ rows'[l].dest = rows[l].dest
           /\ rows'[l].enabled = rows[l].enabled]_vars

\* The cache agrees with the table: the hash, if any, shows the live row, and
\* the negative marker, if any, marks a code without one.
Consistent ==
    /\ Cached => IsCurrent(entry)
    /\ neg > 0 => \A l \in Links : ~IsLive(l)

\* "eventual consistency is acceptable" (UpdateLink): once API writes stop,
\* whatever stale backfills, lost invalidations and stale negative markers
\* they left behind is gone for good, because every key has a TTL.
EventuallyConsistent == <>[]Consistent
-----------------------------------------------------------------------------
(* What the documents say of the program and the code does not do. *)

\* docs/redirects.md: "Every successful redirect: ... Records click event".
\* The worker refuses an event without link_id, and a redirect answered from
\* the hash has none.
ClickIsRecordable ==
    reply.answer = "redirect" => ValidateClickEventPayload(reply)
=============================================================================
