------------------------------ MODULE APIKeys ------------------------------
(***************************************************************************)
(* API keys: the api_keys table, the Redis cache of auth contexts in front *)
(* of it, the Auth middleware every /api/v1 request passes, RequireAdmin,  *)
(* and the handlers that create, revoke and rotate keys.                   *)
(*                                                                         *)
(* A request is a process.  It presents the plaintext of a key; a key and  *)
(* its plaintext are one element of Keys.  Every call to Redis or Postgres *)
(* is a step, so that requests interleave between them, and each of them   *)
(* can fail (MaxFaults in all).  The rate limiter, which runs between Auth *)
(* and the handler, touches none of this state.                            *)
(***************************************************************************)
EXTENDS Naturals, FiniteSets

CONSTANTS
    Keys,        \* ids of api_keys rows, used or still unused
    Users,
    PrefixOf,    \* key_prefix of each key: several keys may share one
    Seeds,       \* the tables to start with: some keys, and what they grant
    Requests,    \* requests served concurrently
    TTL,         \* authCacheTTL, in ticks
    MaxFaults    \* bound: calls to Redis or Postgres that fail

\* What a row says about the bearer: UserID, Scopes, RateLimitTier.  Of the
\* scopes only whether ScopeAdmin is among them decides anything here.
Grants == [user : Users, admin : BOOLEAN, tier : {"free", "pro"}]

ASSUME KeysAssumption ==
    /\ Seeds \subseteq UNION {[S -> Grants] : S \in SUBSET Keys}
    /\ DOMAIN PrefixOf = Keys
    /\ TTL \in Nat \ {0}
    /\ MaxFaults \in Nat

VARIABLES
    table,    \* the api_keys row of each key
    cache,    \* auth:ctx:<QuickHash(key)>, with its remaining time to live
    req,      \* what each request asks
    pc,       \* the call each request makes next
    ctx,      \* the AuthContext of each request, or the candidate for it
    old,      \* oldKey, as RotateAPIKey read it
    new,      \* newKey.ID of a rotation
    rotated,  \* history: the rotations answered 201, and whether they revoked
              \* the old key themselves
    quiet,    \* history: ticks since a revoked key was last known as active
    faults

vars == <<table, cache, req, pc, ctx, old, new, rotated, quiet, faults>>
-----------------------------------------------------------------------------
NoGrant == [user |-> "none", admin |-> FALSE, tier |-> "none"]
NoEntry == [grant |-> NoGrant, ttl |-> 0]
NoKey   == "none"
NoRow   == [status |-> "absent", grant |-> NoGrant]

Row   == [status : {"active", "revoked"}, grant : Grants] \cup {NoRow}
Entry == [grant : Grants, ttl : 1 .. TTL] \cup {NoEntry}

Ops == {"use", "create", "revoke", "rotate"}

Rotation  == [from : Keys, to : Keys]
Request   == [key : Keys, op : Ops, target : Keys]
NoRequest == [key |-> NoKey, op |-> "none", target |-> NoKey]

IsRevoked(k) == table[k].status = "revoked"
Unused == {k \in Keys : table[k].status = "absent"}

Fault   == faults < MaxFaults /\ faults' = faults + 1
NoFault == UNCHANGED faults

\* A statement that is committed, whether or not its answer arrives.
Committed == NoFault \/ Fault

Goto(r, next) == pc' = [pc EXCEPT ![r] = next]

\* The response is written and the handler returns.
Respond(r) ==
    /\ Goto(r, "idle")
    /\ req' = [req EXCEPT ![r] = NoRequest]
    /\ ctx' = [ctx EXCEPT ![r] = NoGrant]
    /\ old' = [old EXCEPT ![r] = NoGrant]
    /\ new' = [new EXCEPT ![r] = NoKey]

Init ==
    /\ \E seed \in Seeds :
           table = [k \in Keys |->
                      IF k \in DOMAIN seed
                      THEN [status |-> "active", grant |-> seed[k]]
                      ELSE NoRow]
    /\ cache = [k \in Keys |-> NoEntry]
    /\ req = [r \in Requests |-> NoRequest]
    /\ pc = [r \in Requests |-> "idle"]
    /\ ctx = [r \in Requests |-> NoGrant]
    /\ old = [r \in Requests |-> NoGrant]
    /\ new = [r \in Requests |-> NoKey]
    /\ rotated = {}
    /\ quiet = [k \in Keys |-> 0]
    /\ faults = 0
-----------------------------------------------------------------------------
(* A request arrives.                                                      *)

\* Requests that may still insert a row; the bound on Keys is the bound on
\* the rows ever inserted.
Inserting == {r \in Requests : pc[r] # "idle" /\ req[r].op \in {"create", "rotate"}}

Arrive(r, k, op, t) ==
    /\ pc[r] = "idle"
    /\ op \in {"create", "rotate"} => Cardinality(Inserting) < Cardinality(Unused)
    /\ op \in {"use", "create"} => t = k
    /\ req' = [req EXCEPT ![r] = [key |-> k, op |-> op, target |-> t]]
    /\ Goto(r, "cached?")
    /\ UNCHANGED <<table, cache, ctx, old, new, rotated, quiet, faults>>
-----------------------------------------------------------------------------
(* middleware.Auth                                                         *)

\* A mutant, used to test the properties: a hit prolongs the entry.
GetAndTouchAuthContext(r) ==
    LET k == req[r].key
    IN  /\ pc[r] = "cached?"
        /\ IF cache[k] = NoEntry THEN Goto(r, "lookup") /\ UNCHANGED <<ctx, cache>>
           ELSE /\ ctx' = [ctx EXCEPT ![r] = cache[k].grant]
                /\ cache' = [cache EXCEPT ![k].ttl = TTL]
                /\ Goto(r, "handler")
        /\ UNCHANGED <<table, req, old, new, rotated, quiet, faults>>

\* GetAuthContext: a failed GET is a miss.
GetAuthContext(r) ==
    LET hit == cache[req[r].key]
    IN  /\ pc[r] = "cached?"
        /\ \/ /\ NoFault
              /\ hit # NoEntry
              /\ ctx' = [ctx EXCEPT ![r] = hit.grant]
              /\ Goto(r, "handler")
           \/ /\ IF hit = NoEntry THEN NoFault ELSE Fault
              /\ Goto(r, "lookup")
              /\ UNCHANGED ctx
        /\ UNCHANGED <<table, cache, req, old, new, rotated, quiet>>

\* GetAPIKeysByPrefix returns the active rows with the key's prefix.
Candidates(k) ==
    {c \in Keys : PrefixOf[c] = PrefixOf[k] /\ table[c].status = "active"}

\* A mutant, used to test the properties: the first key with the prefix is
\* taken.
MatchesPrefix(k) == Candidates(k)

\* VerifyPassword accepts the candidate whose hash is of this plaintext.
Matches(k) == Candidates(k) \cap {k}

\* No match, or a database error: 401.
Lookup(r) ==
    LET match == Matches(req[r].key)
    IN  /\ pc[r] = "lookup"
        /\ \/ /\ NoFault
              /\ \E k \in match : ctx' = [ctx EXCEPT ![r] = table[k].grant]
              /\ Goto(r, "store")
              /\ UNCHANGED <<req, old, new>>
           \/ /\ IF match = {} THEN NoFault ELSE Fault
              /\ Respond(r)
        /\ UNCHANGED <<table, cache, rotated, quiet>>

\* SetAuthContext: SET with authCacheTTL, its error ignored.
SetAuthContext(r) ==
    /\ pc[r] = "store"
    /\ \/ /\ NoFault
          /\ cache' = [cache EXCEPT ![req[r].key] = [grant |-> ctx[r], ttl |-> TTL]]
       \/ /\ Fault
          /\ UNCHANGED cache
    /\ Goto(r, "handler")
    /\ UNCHANGED <<table, req, ctx, old, new, rotated, quiet>>
-----------------------------------------------------------------------------
(* The endpoints behind it.                                                *)

\* Any endpoint that is not about keys, and 403 from RequireAdmin.
ServeOrForbid(r) ==
    /\ pc[r] = "handler"
    /\ req[r].op = "use" \/ ~ctx[r].admin
    /\ Respond(r)
    /\ UNCHANGED <<table, cache, rotated, quiet, faults>>

\* repository.CreateAPIKey
InsertKey(k, g) ==
    /\ k \in Unused
    /\ table' = [table EXCEPT ![k] = [status |-> "active", grant |-> g]]

\* POST /api-keys: a free-tier key for the caller's user, with the scopes
\* the body asks for.
CreateAPIKey(r) ==
    /\ pc[r] = "handler"
    /\ req[r].op = "create" /\ ctx[r].admin
    /\ \/ /\ Committed
          /\ \E k \in Keys, admin \in BOOLEAN :
                InsertKey(k, [user |-> ctx[r].user, admin |-> admin, tier |-> "free"])
       \/ /\ Fault
          /\ UNCHANGED table
    /\ Respond(r)
    /\ UNCHANGED <<cache, rotated, quiet>>

\* A mutant, used to test the properties: the owner of the key is not
\* compared.
MayManageAny(r) == table[req[r].target].status = "active"

\* GetAPIKeyByID and the checks on the row, shared by revoke and rotate: no
\* row, another user's row, a revoked row and a database error are all 404.
MayManage(r) ==
    LET row == table[req[r].target]
    IN  row.status = "active" /\ row.grant.user = ctx[r].user

ReadTarget(r) ==
    /\ pc[r] = "handler"
    /\ req[r].op \in {"revoke", "rotate"} /\ ctx[r].admin
    /\ \/ /\ NoFault
          /\ MayManage(r)
          /\ Goto(r, req[r].op)
          /\ old' = [old EXCEPT ![r] = table[req[r].target].grant]
          /\ UNCHANGED <<req, ctx, new>>
       \/ /\ IF MayManage(r) THEN Fault ELSE NoFault
          /\ Respond(r)
    /\ UNCHANGED <<table, cache, rotated, quiet>>

\* UPDATE ... SET revoked_at WHERE revoked_at IS NULL; the cached contexts
\* of the key are left alone.
RevokeRow(k) ==
    /\ table[k].status = "active"
    /\ table' = [table EXCEPT ![k].status = "revoked"]

\* Already revoked meanwhile, or a database error: 500.
RevokeAPIKey(r) ==
    /\ pc[r] = "revoke"
    /\ \/ /\ Committed
          /\ RevokeRow(req[r].target)
       \/ /\ IF table[req[r].target].status = "active" THEN Fault ELSE NoFault
          /\ UNCHANGED table
    /\ Respond(r)
    /\ UNCHANGED <<cache, rotated, quiet>>

\* A mutant, used to test the properties: the new key starts on the default
\* tier.
RotateInsertFree(r) ==
    /\ pc[r] = "rotate"
    /\ \E k \in Keys :
          /\ InsertKey(k, [old[r] EXCEPT !.tier = "free"])
          /\ new' = [new EXCEPT ![r] = k]
    /\ Goto(r, "retire")
    /\ UNCHANGED <<cache, req, ctx, old, rotated, quiet, faults>>

\* RotateAPIKey inserts a key that grants what it read of the old one; after
\* an error it answers 500, even if the INSERT was committed ...
RotateInsert(r) ==
    /\ pc[r] = "rotate"
    /\ \/ /\ NoFault
          /\ \E k \in Keys :
                /\ InsertKey(k, old[r])
                /\ new' = [new EXCEPT ![r] = k]
          /\ Goto(r, "retire")
          /\ UNCHANGED <<req, ctx, old>>
       \/ /\ Fault
          /\ UNCHANGED table \/ \E k \in Keys : InsertKey(k, old[r])
          /\ Respond(r)
    /\ UNCHANGED <<cache, rotated, quiet>>

\* ... and then revokes the old one.  A failure is logged; the answer is 201
\* with old_key_revoked_at either way.
RotateRevoke(r) ==
    LET t == req[r].target
    IN  /\ pc[r] = "retire"
        /\ \/ Committed /\ RevokeRow(t)
           \/ /\ IF table[t].status = "active" THEN Fault ELSE NoFault
              /\ UNCHANGED table
        /\ rotated' = rotated \cup {[from |-> t, to |-> new[r]]}
        /\ Respond(r)
        /\ UNCHANGED <<cache, quiet>>
-----------------------------------------------------------------------------
\* A request that found the key's row active and has not cached that yet.
Holding(k) == \E r \in Requests : pc[r] = "store" /\ req[r].key = k

\* Redis counts down the entries and drops them.
Older(e) == IF e.ttl <= 1 THEN NoEntry ELSE [e EXCEPT !.ttl = @ - 1]

\* Time passes.  quiet counts, up to TTL, the ticks since a revoked key was
\* last known as active outside the cache.
Tick ==
    /\ cache' = [k \in Keys |-> Older(cache[k])]
    /\ quiet' = [k \in Keys |->
                   IF IsRevoked(k) /\ ~Holding(k) /\ quiet[k] < TTL
                   THEN quiet[k] + 1 ELSE quiet[k]]
    /\ UNCHANGED <<table, req, pc, ctx, old, new, rotated, faults>>

Authenticate(r) == GetAuthContext(r) \/ Lookup(r) \/ SetAuthContext(r)

Handle(r) ==
    \/ ServeOrForbid(r)
    \/ CreateAPIKey(r)
    \/ ReadTarget(r)
    \/ RevokeAPIKey(r)
    \/ RotateInsert(r)
    \/ RotateRevoke(r)

Next ==
    \/ \E r \in Requests, k, t \in Keys, op \in Ops : Arrive(r, k, op, t)
    \/ \E r \in Requests : Authenticate(r) \/ Handle(r)
    \/ Tick

Spec == Init /\ [][Next]_vars

\* Handlers run to their end and time passes; nobody has to call the API.
Fairness ==
    /\ \A r \in Requests : WF_vars(Authenticate(r) \/ Handle(r))
    /\ WF_vars(Tick)

FairSpec == Spec /\ Fairness
-----------------------------------------------------------------------------
(* Properties.                                                             *)

\* Past Auth, and past the checks of ReadTarget.
Authenticated(r) == pc[r] \in {"store", "handler", "revoke", "rotate", "retire"}
Managing(r)      == pc[r] \in {"revoke", "rotate", "retire"}

\* The types.  A request past Auth has the grant of a real row, one past the
\* checks of ReadTarget the row it read, a rotation about to revoke its new key.
TypeOK ==
    /\ table \in [Keys -> Row]
    /\ cache \in [Keys -> Entry]
    /\ req \in [Requests -> Request \cup {NoRequest}]
    /\ pc \in [Requests -> {"idle", "cached?", "lookup", "store", "handler",
                            "revoke", "rotate", "retire"}]
    /\ ctx \in [Requests -> Grants \cup {NoGrant}]
    /\ old \in [Requests -> Grants \cup {NoGrant}]
    /\ new \in [Requests -> Keys \cup {NoKey}]
    /\ rotated \subseteq Rotation
    /\ quiet \in [Keys -> 0 .. TTL]
    /\ faults \in 0 .. MaxFaults
    /\ \A r \in Requests :
        /\ pc[r] # "idle" => req[r] \in Request
        /\ Authenticated(r) => ctx[r] \in Grants
        /\ Managing(r) => old[r] \in Grants
        /\ pc[r] = "retire" => new[r] \in Keys

\* Whatever the cache or a request knows of a key is what its row says, but
\* for the revocation: a hit never grants another user, scope or tier than a
\* lookup would, and keys that share a prefix are never taken for each other.
ContextMatchesKey ==
    /\ \A k \in Keys : cache[k] # NoEntry => cache[k].grant = table[k].grant
    /\ \A r \in Requests : Authenticated(r) => ctx[r] = table[req[r].key].grant

\* A revoked key is out of the cache once authCacheTTL has passed since the
\* last request that had looked it up before the revocation: entries are not
\* prolonged by hits and not written back after the revocation.
RevokedWithinTTL == \A k \in Keys : quiet[k] = TTL => cache[k] = NoEntry

\* The two together, with what makes them inductive: the time an entry of a
\* revoked key has left never reaches past the TTL.
KeysInv ==
    /\ ContextMatchesKey
    /\ \A k \in Keys :
        /\ table[k].status = "absent" => cache[k] = NoEntry
        /\ cache[k] # NoEntry => cache[k].ttl + quiet[k] <= TTL
        /\ quiet[k] > 0 => IsRevoked(k) /\ ~Holding(k)
    /\ \A r \in Requests :
        Authenticated(r) => table[req[r].key].status # "absent"

\* Only a request authenticated as an admin of the same user revokes a key,
\* although the check is made on an earlier read than the UPDATE.
RevokedByOwner ==
    [][\A k \in Keys : IsRevoked(k)' /\ ~IsRevoked(k) =>
         \E r \in Requests :
            /\ pc[r] \in {"revoke", "retire"} /\ req[r].target = k
            /\ table[req[r].key].grant.admin
            /\ table[req[r].key].grant.user = table[k].grant.user]_vars

\* A rotation answered 201 left a key that grants exactly what the old one
\* did, whatever ran between the read and the insert.
RotationKeepsGrant ==
    \A x \in rotated : table[x.to].grant = table[x.from].grant

\* The two above, with what makes them inductive: a request past the checks
\* of ReadTarget holds what they established, since grants never change.
ManageInv ==
    /\ \A r \in Requests : Managing(r) =>
        /\ ctx[r].admin /\ ctx[r].user = old[r].user
        /\ table[req[r].target].status # "absent"
        /\ table[req[r].target].grant = old[r]
    /\ \A r \in Requests : pc[r] = "retire" =>
        /\ table[new[r]].status # "absent"
        /\ table[new[r]].grant = old[r]
    /\ \A x \in rotated :
        table[x.from].status # "absent" /\ table[x.to].status # "absent"
    /\ RotationKeepsGrant

\* A revoked key eventually stops being accepted for good, however often it
\* is presented.
RevocationTakesEffect ==
    \A k \in Keys : IsRevoked(k) ~> [](cache[k] = NoEntry)
=============================================================================
