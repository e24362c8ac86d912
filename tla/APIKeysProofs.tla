--------------------------- MODULE APIKeysProofs ---------------------------
(***************************************************************************)
(* Proofs about APIKeys, for any keys, users, prefixes, numbers of         *)
(* concurrent requests, time to live and number of faults.                 *)
(***************************************************************************)
EXTENDS APIKeys, TLAPS

(***************************************************************************)
(* Types.                                                                  *)
(***************************************************************************)

\* The seeded table and the empty cache have their types.
LEMMA TypeInit == Init => TypeOK
<1> SUFFICES ASSUME Init PROVE TypeOK
  OBVIOUS
<1>1. PICK seed \in Seeds :
        table = [k \in Keys |-> IF k \in DOMAIN seed
                               THEN [status |-> "active", grant |-> seed[k]]
                               ELSE NoRow]
  BY DEF Init
<1>a. \A k \in DOMAIN seed : k \in Keys /\ seed[k] \in Grants
  BY KeysAssumption
<1>2. table \in [Keys -> Row]
  BY <1>1, <1>a DEF Row, NoRow
<1>3. cache \in [Keys -> Entry]
  BY DEF Init, Entry
<1>4. \A r \in Requests : ~Authenticated(r) /\ ~Managing(r) /\ pc[r] = "idle"
  BY DEF Init, Authenticated, Managing
<1>5. quiet \in [Keys -> 0 .. TTL] /\ faults \in 0 .. MaxFaults
  BY KeysAssumption DEF Init
<1> QED
  BY <1>2, <1>3, <1>4, <1>5 DEF Init, TypeOK

\* Answering a request leaves it with no context and nothing in hand.
LEMMA RespondType ==
    ASSUME TypeOK, NEW r \in Requests, Respond(r), table' \in [Keys -> Row],
           cache' \in [Keys -> Entry], rotated' \subseteq Rotation,
           UNCHANGED quiet, faults' \in 0 .. MaxFaults
    PROVE  TypeOK'
<1>1. \A q \in Requests \ {r} :
        /\ pc'[q] = pc[q] /\ req'[q] = req[q] /\ ctx'[q] = ctx[q]
        /\ old'[q] = old[q] /\ new'[q] = new[q]
  BY DEF TypeOK, Respond, Goto
<1>2. pc'[r] = "idle"
  BY DEF TypeOK, Respond, Goto
<1>3. \A q \in Requests :
        /\ pc'[q] # "idle" => req'[q] \in Request
        /\ Authenticated(q)' => ctx'[q] \in Grants
        /\ Managing(q)' => old'[q] \in Grants
        /\ pc'[q] = "retire" => new'[q] \in Keys
  BY <1>1, <1>2 DEF TypeOK, Authenticated, Managing
<1>4. /\ pc' \in [Requests -> {"idle", "cached?", "lookup", "store", "handler",
                               "revoke", "rotate", "retire"}]
      /\ req' \in [Requests -> Request \cup {NoRequest}]
      /\ ctx' \in [Requests -> Grants \cup {NoGrant}]
      /\ old' \in [Requests -> Grants \cup {NoGrant}]
      /\ new' \in [Requests -> Keys \cup {NoKey}]
  BY DEF TypeOK, Respond, Goto
<1> QED
  BY <1>3, <1>4 DEF TypeOK

\* A fault is counted up to its bound, and no fault leaves the count alone.
LEMMA FaultType ==
    ASSUME TypeOK, Fault \/ NoFault
    PROVE  faults' \in 0 .. MaxFaults
BY KeysAssumption DEF TypeOK, Fault, NoFault

\* Inserting a key and revoking one write rows.
LEMMA RowTypes ==
    ASSUME TypeOK, NEW k \in Keys, NEW g \in Grants
    PROVE  /\ InsertKey(k, g) => table' \in [Keys -> Row]
           /\ RevokeRow(k) => table' \in [Keys -> Row]
<1>1. [status |-> "active", grant |-> g] \in Row
  BY DEF Row
<1>2. ASSUME RevokeRow(k) PROVE table' \in [Keys -> Row]
  <2>1. table[k] \in [status : {"active", "revoked"}, grant : Grants]
    BY <1>2 DEF TypeOK, RevokeRow, Row, NoRow
  <2>2. [table[k] EXCEPT !.status = "revoked"] \in Row
    BY <2>1 DEF Row
  <2> QED
    BY <1>2, <2>2 DEF TypeOK, RevokeRow
<1> QED
  BY <1>1, <1>2 DEF TypeOK, InsertKey

\* Arrivals and authentication keep the types.
LEMMA TypeAuthenticate ==
    ASSUME TypeOK, NEW r \in Requests,
           \/ \E k, t \in Keys, op \in Ops : Arrive(r, k, op, t)
           \/ Authenticate(r)
    PROVE  TypeOK'
<1>1. CASE \E k, t \in Keys, op \in Ops : Arrive(r, k, op, t)
  <2> PICK k \in Keys, t \in Keys, op \in Ops : Arrive(r, k, op, t)
    BY <1>1
  <2> DEFINE q == [key |-> k, op |-> op, target |-> t]
  <2>1. q \in Request
    BY DEF Request
  <2>2. req' = [req EXCEPT ![r] = q] /\ pc' = [pc EXCEPT ![r] = "cached?"]
    BY DEF Arrive, Goto
  <2> HIDE DEF q
  <2> QED
    BY <2>1, <2>2 DEF Arrive, TypeOK, Authenticated, Managing
<1>2. CASE GetAuthContext(r)
  <2>1. req[r].key \in Keys
    BY <1>2 DEF GetAuthContext, TypeOK, Request
  <2>2. cache[req[r].key] # NoEntry => cache[req[r].key].grant \in Grants
    BY <2>1 DEF TypeOK, Entry
  <2>3. faults' \in 0 .. MaxFaults
    BY <1>2, FaultType DEF GetAuthContext
  <2> QED
    BY <1>2, <2>2, <2>3 DEF GetAuthContext, Goto, TypeOK, Authenticated, Managing
<1>3. CASE Lookup(r)
  <2>1. faults' \in 0 .. MaxFaults
    BY <1>3, FaultType DEF Lookup
  <2>2. CASE Respond(r)
    BY <1>3, <2>1, <2>2, RespondType DEF Lookup, TypeOK
  <2>3. CASE \E k \in Matches(req[r].key) :
               /\ ctx' = [ctx EXCEPT ![r] = table[k].grant]
               /\ Goto(r, "store") /\ UNCHANGED <<req, old, new>>
    <3> PICK k \in Matches(req[r].key) :
               /\ ctx' = [ctx EXCEPT ![r] = table[k].grant]
               /\ Goto(r, "store") /\ UNCHANGED <<req, old, new>>
      BY <2>3
    <3>1. k \in Keys /\ table[k].status = "active"
      BY DEF Matches, Candidates
    <3>2. table[k].grant \in Grants
      BY <3>1 DEF TypeOK, Row, NoRow
    <3>3. pc[r] = "lookup" /\ UNCHANGED <<table, cache, rotated, quiet>>
      BY <1>3 DEF Lookup
    <3> QED
      BY <2>1, <3>2, <3>3 DEF Goto, TypeOK, Authenticated, Managing
  <2> QED
    BY <1>3, <2>2, <2>3 DEF Lookup
<1>4. CASE SetAuthContext(r)
  <2>1. faults' \in 0 .. MaxFaults
    BY <1>4, FaultType DEF SetAuthContext
  <2>2. [grant |-> ctx[r], ttl |-> TTL] \in Entry
    BY <1>4, KeysAssumption DEF SetAuthContext, TypeOK, Authenticated, Entry
  <2>3. cache' \in [Keys -> Entry]
    BY <1>4, <2>2 DEF SetAuthContext, TypeOK
  <2>4. pc[r] = "store" /\ Goto(r, "handler")
        /\ UNCHANGED <<table, req, ctx, old, new, rotated, quiet>>
    BY <1>4 DEF SetAuthContext
  <2> QED
    BY <2>1, <2>3, <2>4 DEF Goto, TypeOK, Authenticated, Managing
<1> QED
  BY <1>1, <1>2, <1>3, <1>4 DEF Authenticate

\* The handlers keep the types.
LEMMA TypeHandle ==
    ASSUME TypeOK, NEW r \in Requests, Handle(r)
    PROVE  TypeOK'
<1>1. CASE ServeOrForbid(r)
  BY <1>1, RespondType DEF ServeOrForbid, TypeOK
<1>2. CASE CreateAPIKey(r)
  <2>1. faults' \in 0 .. MaxFaults
    BY <1>2, FaultType DEF CreateAPIKey, Committed
  <2>2. ctx[r].user \in Users
    BY <1>2 DEF CreateAPIKey, TypeOK, Authenticated, Grants
  <2>3. \A a \in BOOLEAN : [user |-> ctx[r].user, admin |-> a, tier |-> "free"] \in Grants
    BY <2>2 DEF Grants
  <2>4. table' \in [Keys -> Row]
    <3>1. CASE UNCHANGED table
      BY <3>1 DEF TypeOK
    <3>2. ASSUME NEW k \in Keys, NEW a \in BOOLEAN,
                 InsertKey(k, [user |-> ctx[r].user, admin |-> a, tier |-> "free"])
          PROVE  table' \in [Keys -> Row]
      BY <2>3, <3>2, RowTypes
    <3> QED
      BY <1>2, <3>1, <3>2 DEF CreateAPIKey
  <2> QED
    BY <1>2, <2>1, <2>4, RespondType DEF CreateAPIKey, TypeOK
<1>3. CASE ReadTarget(r)
  <2>1. faults' \in 0 .. MaxFaults
    BY <1>3, FaultType DEF ReadTarget
  <2>2. CASE Respond(r)
    BY <1>3, <2>1, <2>2, RespondType DEF ReadTarget, TypeOK
  <2>3. CASE MayManage(r) /\ Goto(r, req[r].op)
             /\ old' = [old EXCEPT ![r] = table[req[r].target].grant]
             /\ UNCHANGED <<req, ctx, new>>
    <3>1. pc[r] = "handler" /\ req[r] \in Request
      BY <1>3 DEF ReadTarget, TypeOK
    <3>2. req[r].target \in Keys /\ table[req[r].target].status = "active"
      BY <2>3, <3>1 DEF MayManage, Request
    <3>3. table[req[r].target].grant \in Grants
      BY <3>2 DEF TypeOK, Row, NoRow
    <3>4. req[r].op \in {"revoke", "rotate"} /\ UNCHANGED <<table, cache, rotated, quiet>>
      BY <1>3 DEF ReadTarget
    <3> QED
      BY <2>1, <2>3, <3>1, <3>3, <3>4 DEF Goto, TypeOK, Authenticated, Managing
  <2> QED
    BY <1>3, <2>2, <2>3 DEF ReadTarget
<1>4. CASE RevokeAPIKey(r)
  <2>1. faults' \in 0 .. MaxFaults
    BY <1>4, FaultType DEF RevokeAPIKey, Committed
  <2>2. req[r].target \in Keys /\ old[r] \in Grants
    BY <1>4 DEF RevokeAPIKey, TypeOK, Request, Managing
  <2>3. table' \in [Keys -> Row]
    BY <1>4, <2>2, RowTypes DEF RevokeAPIKey, TypeOK
  <2> QED
    BY <1>4, <2>1, <2>3, RespondType DEF RevokeAPIKey, TypeOK
<1>5. CASE RotateInsert(r)
  <2>1. faults' \in 0 .. MaxFaults
    BY <1>5, FaultType DEF RotateInsert, Committed
  <2>2. old[r] \in Grants /\ pc[r] = "rotate"
    BY <1>5 DEF RotateInsert, TypeOK, Managing
  <2>3. CASE Respond(r) /\ (UNCHANGED table \/ \E k \in Keys : InsertKey(k, old[r]))
    <3>1. table' \in [Keys -> Row] /\ UNCHANGED <<cache, rotated, quiet>>
      BY <1>5, <2>2, <2>3, RowTypes DEF RotateInsert, TypeOK
    <3> QED
      BY <2>1, <2>3, <3>1, RespondType DEF TypeOK
  <2>4. CASE \E k \in Keys : /\ InsertKey(k, old[r]) /\ new' = [new EXCEPT ![r] = k]
                            /\ Goto(r, "retire") /\ UNCHANGED <<req, ctx, old>>
    <3> PICK k \in Keys : /\ InsertKey(k, old[r]) /\ new' = [new EXCEPT ![r] = k]
                          /\ Goto(r, "retire") /\ UNCHANGED <<req, ctx, old>>
      BY <2>4
    <3>1. table' \in [Keys -> Row] /\ UNCHANGED <<cache, rotated, quiet>>
      BY <1>5, <2>2, RowTypes DEF RotateInsert
    <3> QED
      BY <2>1, <2>2, <3>1 DEF Goto, TypeOK, Authenticated, Managing
  <2> QED
    BY <1>5, <2>3, <2>4 DEF RotateInsert
<1>6. CASE RotateRevoke(r)
  <2>1. faults' \in 0 .. MaxFaults
    BY <1>6, FaultType DEF RotateRevoke, Committed
  <2>2. req[r].target \in Keys /\ old[r] \in Grants /\ new[r] \in Keys
    BY <1>6 DEF RotateRevoke, TypeOK, Request, Managing
  <2>3. table' \in [Keys -> Row]
    BY <1>6, <2>2, RowTypes DEF RotateRevoke, TypeOK
  <2>4. rotated' \subseteq Rotation
    <3>1. [from |-> req[r].target, to |-> new[r]] \in Rotation
      BY <2>2 DEF Rotation
    <3> QED
      BY <1>6, <3>1 DEF RotateRevoke, TypeOK
  <2> QED
    BY <1>6, <2>1, <2>3, <2>4, RespondType DEF RotateRevoke, TypeOK
<1> QED
  BY <1>1, <1>2, <1>3, <1>4, <1>5, <1>6 DEF Handle

\* An entry that ages stays an entry.
LEMMA OlderType ==
    ASSUME NEW e \in Entry
    PROVE  Older(e) \in Entry /\ (Older(e) # NoEntry => Older(e).grant = e.grant
                                   /\ e # NoEntry /\ Older(e).ttl = e.ttl - 1)
<1>1. CASE e = NoEntry
  BY <1>1 DEF Older, NoEntry, Entry
<1>2. CASE e \in [grant : Grants, ttl : 1 .. TTL]
  <2>1. CASE e.ttl <= 1
    BY <2>1 DEF Older, Entry
  <2>2. CASE ~(e.ttl <= 1)
    <3>1. e.ttl - 1 \in 1 .. TTL
      BY <1>2, <2>2, KeysAssumption
    <3>2. Older(e) = [e EXCEPT !.ttl = @ - 1]
      BY <2>2 DEF Older
    <3>3. Older(e) = [grant |-> e.grant, ttl |-> e.ttl - 1]
      BY <1>2, <3>2
    <3>4. e # NoEntry
      BY <2>2 DEF NoEntry
    <3> QED
      BY <1>2, <3>1, <3>3, <3>4 DEF Entry
  <2> QED
    BY <2>1, <2>2
<1> QED
  BY <1>1, <1>2 DEF Entry

\* The passage of time keeps the types.
LEMMA TypeTick == TypeOK /\ Tick => TypeOK'
<1> SUFFICES ASSUME TypeOK, Tick PROVE TypeOK'
  OBVIOUS
<1>1. cache' \in [Keys -> Entry]
  BY OlderType DEF Tick, TypeOK
<1>2. quiet' \in [Keys -> 0 .. TTL]
  BY KeysAssumption DEF Tick, TypeOK
<1> QED
  BY <1>1, <1>2 DEF Tick, TypeOK, Authenticated, Managing

\* Every step keeps the types.
LEMMA TypeNext == TypeOK /\ [Next]_vars => TypeOK'
<1> SUFFICES ASSUME TypeOK, [Next]_vars PROVE TypeOK'
  OBVIOUS
<1>1. CASE UNCHANGED vars
  BY <1>1 DEF vars, TypeOK, Authenticated, Managing
<1>2. CASE Next
  BY <1>2, TypeAuthenticate, TypeHandle, TypeTick DEF Next
<1> QED
  BY <1>1, <1>2

\* The table, the cache and the requests always have their types; a request
\* past Auth has a context, and one past ReadTarget the row it read.
THEOREM TypeCorrect == Spec => []TypeOK
BY TypeInit, TypeNext, PTL DEF Spec

(***************************************************************************)
(* Rows are only ever added and revoked, so that what a request or the     *)
(* cache has read of a row stays true of it.                               *)
(***************************************************************************)

Grows ==
    \A k \in Keys :
        /\ table[k].status # "absent" =>
             table'[k].status # "absent" /\ table'[k].grant = table[k].grant
        /\ IsRevoked(k) => IsRevoked(k)'

\* Inserting a key, revoking one and leaving the table alone make it grow.
LEMMA WritesGrow ==
    ASSUME TypeOK,
           \/ UNCHANGED table
           \/ \E k \in Keys, g \in Grants : InsertKey(k, g)
           \/ \E k \in Keys : RevokeRow(k)
    PROVE  Grows
<1>1. CASE UNCHANGED table
  BY <1>1 DEF Grows, IsRevoked
<1>2. ASSUME NEW k \in Keys, NEW g \in Grants, InsertKey(k, g) PROVE Grows
  BY <1>2 DEF InsertKey, Unused, Grows, IsRevoked, TypeOK
<1>3. ASSUME NEW k \in Keys, RevokeRow(k) PROVE Grows
  <2>1. table[k] \in [status : {"active", "revoked"}, grant : Grants]
    BY <1>3 DEF TypeOK, RevokeRow, Row, NoRow
  <2>2. table'[k].grant = table[k].grant /\ table'[k].status = "revoked"
    BY <1>3, <2>1 DEF RevokeRow, TypeOK
  <2>3. \A j \in Keys \ {k} : table'[j] = table[j]
    BY <1>3 DEF RevokeRow, TypeOK
  <2> QED
    BY <2>2, <2>3 DEF Grows, IsRevoked
<1> QED
  BY <1>1, <1>2, <1>3

\* The handlers make the table grow.
LEMMA HandleGrows ==
    ASSUME TypeOK, NEW r \in Requests, Handle(r)
    PROVE  Grows
<1>1. CASE ServeOrForbid(r)
  BY <1>1, WritesGrow DEF ServeOrForbid
<1>2. CASE CreateAPIKey(r)
  <2>1. ctx[r].user \in Users
    BY <1>2 DEF CreateAPIKey, TypeOK, Authenticated, Grants
  <2>2. \A a \in BOOLEAN : [user |-> ctx[r].user, admin |-> a, tier |-> "free"] \in Grants
    BY <2>1 DEF Grants
  <2>3. \/ UNCHANGED table
        \/ \E k \in Keys, g \in Grants : InsertKey(k, g)
    BY <1>2, <2>2 DEF CreateAPIKey
  <2> QED
    BY <2>3, WritesGrow
<1>3. CASE ReadTarget(r)
  BY <1>3, WritesGrow DEF ReadTarget
<1>4. CASE RevokeAPIKey(r)
  <2>1. req[r].target \in Keys
    BY <1>4 DEF RevokeAPIKey, TypeOK, Request
  <2>2. UNCHANGED table \/ RevokeRow(req[r].target)
    BY <1>4 DEF RevokeAPIKey
  <2> QED
    BY <2>1, <2>2, WritesGrow
<1>5. CASE RotateInsert(r)
  <2>1. old[r] \in Grants
    BY <1>5 DEF RotateInsert, TypeOK, Managing
  <2>2. UNCHANGED table \/ \E k \in Keys : InsertKey(k, old[r])
    BY <1>5 DEF RotateInsert
  <2> QED
    BY <2>1, <2>2, WritesGrow
<1>6. CASE RotateRevoke(r)
  <2>1. req[r].target \in Keys
    BY <1>6 DEF RotateRevoke, TypeOK, Request
  <2>2. UNCHANGED table \/ RevokeRow(req[r].target)
    BY <1>6 DEF RotateRevoke
  <2> QED
    BY <2>1, <2>2, WritesGrow
<1> QED
  BY <1>1, <1>2, <1>3, <1>4, <1>5, <1>6 DEF Handle

(***************************************************************************)
(* The cache and the contexts of requests tell the truth, and forget a     *)
(* revoked key in time.                                                    *)
(***************************************************************************)

\* A step that lets the table grow, touches neither the cache nor the clocks
\* and authenticates nobody keeps KeysInv.
LEMMA KeysFrame ==
    ASSUME TypeOK, KeysInv, Grows, UNCHANGED <<cache, quiet>>,
           \A q \in Requests :
             /\ Authenticated(q)' =>
                  Authenticated(q) /\ req'[q] = req[q] /\ ctx'[q] = ctx[q]
             /\ pc'[q] = "store" => pc[q] = "store"
    PROVE  KeysInv'
<1>1. \A q \in Requests : Authenticated(q) => req[q].key \in Keys
  BY DEF TypeOK, Authenticated, Request
<1>2. ContextMatchesKey'
  BY <1>1 DEF KeysInv, ContextMatchesKey, Grows
<1>3. ASSUME NEW k \in Keys
      PROVE  /\ table'[k].status = "absent" => cache'[k] = NoEntry
             /\ cache'[k] # NoEntry => cache'[k].ttl + quiet'[k] <= TTL
             /\ quiet'[k] > 0 => IsRevoked(k)' /\ ~Holding(k)'
  <2>1. Holding(k)' => Holding(k)
    BY DEF Holding, Authenticated
  <2>2. table'[k].status = "absent" => cache'[k] = NoEntry
    BY DEF KeysInv, Grows
  <2> QED
    BY <2>1, <2>2 DEF KeysInv, Grows
<1>4. ASSUME NEW q \in Requests, Authenticated(q)'
      PROVE  table'[req'[q].key].status # "absent"
  BY <1>1, <1>4 DEF KeysInv, Grows
<1> QED
  BY <1>2, <1>3, <1>4 DEF KeysInv

\* Arrivals and authentication keep KeysInv: a hit copies a true context, a
\* lookup reads an active row, and only a request still holding such a row
\* writes to the cache, with a whole TTL that quiet has not yet begun to count.
LEMMA KeysAuthenticate ==
    ASSUME TypeOK, KeysInv, NEW r \in Requests,
           \/ \E k, t \in Keys, op \in Ops : Arrive(r, k, op, t)
           \/ Authenticate(r)
    PROVE  KeysInv'
<1>1. CASE \E k, t \in Keys, op \in Ops : Arrive(r, k, op, t)
  <2>1. UNCHANGED <<table, cache, quiet, ctx>> /\ pc' = [pc EXCEPT ![r] = "cached?"]
        /\ \A q \in Requests \ {r} : req'[q] = req[q]
    BY <1>1 DEF Arrive, Goto, TypeOK
  <2>2. Grows
    BY <2>1, WritesGrow
  <2> QED
    BY <2>1, <2>2, KeysFrame DEF TypeOK, Authenticated
<1>2. CASE GetAuthContext(r)
  <2> DEFINE k == req[r].key
  <2>1. k \in Keys
    BY <1>2 DEF GetAuthContext, TypeOK, Request
  <2>2. Grows /\ UNCHANGED <<table, cache, quiet, req>>
    BY <1>2, WritesGrow DEF GetAuthContext
  <2>3. CASE UNCHANGED ctx /\ Goto(r, "lookup")
    BY <2>2, <2>3, KeysFrame DEF Goto, TypeOK, Authenticated
  <2>4. CASE cache[k] # NoEntry /\ ctx' = [ctx EXCEPT ![r] = cache[k].grant]
             /\ Goto(r, "handler")
    <3>1. cache[k].grant = table[k].grant /\ table[k].status # "absent"
      BY <2>1, <2>4 DEF KeysInv, ContextMatchesKey
    <3>2. ctx'[r] = table[k].grant /\ pc'[r] = "handler"
      BY <2>4, <3>1 DEF TypeOK, Goto
    <3>3. \A q \in Requests \ {r} : ctx'[q] = ctx[q] /\ pc'[q] = pc[q]
      BY <2>4 DEF TypeOK, Goto
    <3>4. \A q \in Requests : pc'[q] = "store" => pc[q] = "store"
      BY <3>2, <3>3
    <3>5. ContextMatchesKey'
      BY <2>2, <3>2, <3>3 DEF KeysInv, ContextMatchesKey, Authenticated
    <3>6. \A q \in Requests :
            Authenticated(q)' => table'[req'[q].key].status # "absent"
      BY <2>2, <3>1, <3>3 DEF KeysInv, Authenticated
    <3>7. \A j \in Keys : Holding(j)' => Holding(j)
      BY <2>2, <3>4 DEF Holding
    <3> QED
      BY <2>2, <3>5, <3>6, <3>7 DEF KeysInv, IsRevoked
  <2> QED
    BY <1>2, <2>3, <2>4 DEF GetAuthContext
<1>3. CASE Lookup(r)
  <2>1. Grows /\ UNCHANGED <<table, cache, quiet>>
    BY <1>3, WritesGrow DEF Lookup
  <2>2. CASE Respond(r)
    BY <2>1, <2>2, KeysFrame DEF Respond, Goto, TypeOK, Authenticated
  <2>3. CASE \E k \in Matches(req[r].key) :
               /\ ctx' = [ctx EXCEPT ![r] = table[k].grant]
               /\ Goto(r, "store") /\ UNCHANGED <<req, old, new>>
    <3> DEFINE k == req[r].key
    <3>1. /\ k \in Keys /\ table[k].status = "active" /\ UNCHANGED req
          /\ ctx' = [ctx EXCEPT ![r] = table[k].grant] /\ Goto(r, "store")
      BY <2>3 DEF Matches, Candidates
    <3>2. ctx'[r] = table[k].grant /\ pc'[r] = "store"
      BY <3>1 DEF TypeOK, Goto
    <3>3. \A q \in Requests \ {r} : ctx'[q] = ctx[q] /\ pc'[q] = pc[q]
      BY <3>1 DEF TypeOK, Goto
    <3>4. ContextMatchesKey'
      BY <2>1, <3>1, <3>2, <3>3 DEF KeysInv, ContextMatchesKey, Authenticated
    <3>5. \A q \in Requests :
            Authenticated(q)' => table'[req'[q].key].status # "absent"
      BY <2>1, <3>1, <3>3 DEF KeysInv, Authenticated
    <3>6. \A j \in Keys \ {k} : Holding(j)' => Holding(j)
      BY <3>1, <3>3 DEF Holding
    <3>7. ~(quiet[k] > 0)
      BY <3>1 DEF KeysInv, IsRevoked
    <3> QED
      BY <2>1, <3>4, <3>5, <3>6, <3>7 DEF KeysInv, IsRevoked
  <2> QED
    BY <1>3, <2>2, <2>3 DEF Lookup
<1>4. CASE SetAuthContext(r)
  <2> DEFINE k == req[r].key
  <2>1. /\ pc[r] = "store" /\ Goto(r, "handler")
        /\ UNCHANGED <<table, req, ctx, quiet>> /\ k \in Keys
    BY <1>4 DEF SetAuthContext, TypeOK, Request
  <2>2. Grows
    BY <2>1, WritesGrow
  <2>3. CASE UNCHANGED cache
    BY <2>1, <2>2, <2>3, KeysFrame DEF Goto, TypeOK, Authenticated
  <2>4. CASE cache' = [cache EXCEPT ![k] = [grant |-> ctx[r], ttl |-> TTL]]
    <3>1. Authenticated(r) /\ Holding(k)
      BY <2>1 DEF Authenticated, Holding
    <3>2. ctx[r] = table[k].grant /\ table[k].status # "absent"
      BY <3>1 DEF KeysInv, ContextMatchesKey
    <3>3. quiet[k] = 0
      BY <2>1, <3>1, KeysAssumption DEF KeysInv, TypeOK
    <3>4. cache'[k] = [grant |-> ctx[r], ttl |-> TTL]
          /\ \A j \in Keys \ {k} : cache'[j] = cache[j]
      BY <2>1, <2>4 DEF TypeOK
    <3>5. cache'[k].grant = table[k].grant /\ cache'[k].ttl + quiet[k] <= TTL
      BY <3>2, <3>3, <3>4, KeysAssumption
    <3>6. \A q \in Requests : /\ Authenticated(q)' => Authenticated(q)
                              /\ pc'[q] = "store" => pc[q] = "store"
      BY <2>1 DEF Goto, TypeOK, Authenticated
    <3>7. ContextMatchesKey'
      BY <2>1, <3>4, <3>5, <3>6 DEF KeysInv, ContextMatchesKey
    <3>8. \A q \in Requests :
            Authenticated(q)' => table'[req'[q].key].status # "absent"
      BY <2>1, <3>6 DEF KeysInv
    <3>9. \A j \in Keys : Holding(j)' => Holding(j)
      BY <2>1, <3>6 DEF Holding
    <3>10. ASSUME NEW j \in Keys
           PROVE  /\ table'[j].status = "absent" => cache'[j] = NoEntry
                  /\ cache'[j] # NoEntry => cache'[j].ttl + quiet'[j] <= TTL
                  /\ quiet'[j] > 0 => IsRevoked(j)' /\ ~Holding(j)'
      BY <2>1, <3>2, <3>4, <3>5, <3>9 DEF KeysInv, IsRevoked
    <3> QED
      BY <3>7, <3>8, <3>10 DEF KeysInv
  <2> QED
    BY <1>4, <2>3, <2>4 DEF SetAuthContext
<1> QED
  BY <1>1, <1>2, <1>3, <1>4 DEF Authenticate

\* The handlers only make the table grow, or let a request go on.
LEMMA KeysHandle ==
    ASSUME TypeOK, KeysInv, NEW r \in Requests, Handle(r)
    PROVE  KeysInv'
<1>1. Grows
  BY HandleGrows
<1>2. UNCHANGED <<cache, quiet>> /\ Authenticated(r)
  BY DEF Handle, ServeOrForbid, CreateAPIKey, ReadTarget, RevokeAPIKey,
         RotateInsert, RotateRevoke, Authenticated
<1>3. \/ Respond(r)
      \/ UNCHANGED <<req, ctx>> /\ \E l \in {"revoke", "rotate", "retire"} : Goto(r, l)
  BY DEF Handle, ServeOrForbid, CreateAPIKey, ReadTarget, RevokeAPIKey,
         RotateInsert, RotateRevoke
<1>4. CASE Respond(r)
  BY <1>1, <1>2, <1>4, KeysFrame DEF Respond, Goto, TypeOK, Authenticated
<1>5. CASE UNCHANGED <<req, ctx>> /\ \E l \in {"revoke", "rotate", "retire"} : Goto(r, l)
  BY <1>1, <1>2, <1>5, KeysFrame DEF Goto, TypeOK, Authenticated
<1> QED
  BY <1>3, <1>4, <1>5

\* A tick takes from the time an entry has left at least what it adds to quiet.
LEMMA KeysTick == TypeOK /\ KeysInv /\ Tick => KeysInv'
<1> SUFFICES ASSUME TypeOK, KeysInv, Tick PROVE KeysInv'
  OBVIOUS
<1>1. UNCHANGED <<table, req, pc, ctx>>
  BY DEF Tick
<1>2. ASSUME NEW k \in Keys
      PROVE  /\ cache'[k] # NoEntry => cache[k] # NoEntry
                  /\ cache'[k].grant = cache[k].grant /\ cache'[k].ttl = cache[k].ttl - 1
             /\ quiet'[k] \in {quiet[k], quiet[k] + 1}
             /\ quiet'[k] # quiet[k] => IsRevoked(k) /\ ~Holding(k)
  <2>1. cache[k] \in Entry /\ cache'[k] = Older(cache[k])
    BY DEF Tick, TypeOK
  <2> QED
    BY <2>1, OlderType DEF Tick
<1>3. ASSUME NEW k \in Keys, cache'[k] # NoEntry
      PROVE  cache'[k].ttl + quiet'[k] <= TTL
  <2>1. cache[k] # NoEntry /\ cache[k] \in Entry /\ quiet[k] \in 0 .. TTL
    BY <1>2, <1>3 DEF TypeOK
  <2>2. cache[k].ttl \in Nat /\ quiet[k] \in Nat
    BY <2>1, KeysAssumption DEF Entry
  <2>3. cache[k].ttl + quiet[k] <= TTL
    BY <2>1 DEF KeysInv
  <2> QED
    BY <1>2, <1>3, <2>2, <2>3, KeysAssumption
<1>4. \A k \in Keys : Holding(k)' <=> Holding(k)
  BY <1>1 DEF Holding
<1>5. ContextMatchesKey'
  BY <1>1, <1>2 DEF KeysInv, ContextMatchesKey, Authenticated
<1>6. \A k \in Keys : table'[k].status = "absent" => cache'[k] = NoEntry
  BY <1>1, <1>2 DEF KeysInv
<1>7. ASSUME NEW k \in Keys, quiet'[k] > 0 PROVE IsRevoked(k)' /\ ~Holding(k)'
  BY <1>1, <1>2, <1>4, <1>7 DEF KeysInv, IsRevoked
<1> QED
  BY <1>1, <1>3, <1>5, <1>6, <1>7 DEF KeysInv, Authenticated

\* Every step keeps KeysInv.
LEMMA KeysNext == TypeOK /\ KeysInv /\ [Next]_vars => KeysInv'
<1> SUFFICES ASSUME TypeOK, KeysInv, [Next]_vars PROVE KeysInv'
  OBVIOUS
<1>1. CASE UNCHANGED vars
  BY <1>1 DEF vars, KeysInv, ContextMatchesKey, Authenticated, IsRevoked, Holding
<1>2. CASE Next
  BY <1>2, KeysAuthenticate, KeysHandle, KeysTick DEF Next
<1> QED
  BY <1>1, <1>2

\* KeysInv holds at the start, when nothing is cached.
LEMMA KeysInit == Init => KeysInv
BY DEF Init, KeysInv, ContextMatchesKey, Authenticated, Holding, NoEntry

\* Cached and in-flight auth contexts agree with the key's row.
THEOREM ContextCorrect == Spec => []ContextMatchesKey
<1>1. KeysInv => ContextMatchesKey
  BY DEF KeysInv
<1> QED
  BY <1>1, KeysInit, KeysNext, TypeCorrect, PTL DEF Spec

\* A revoked key leaves the cache within authCacheTTL of the last request that
\* had read its row before the revocation.
THEOREM RevocationCorrect == Spec => []RevokedWithinTTL
<1>1. TypeOK /\ KeysInv => RevokedWithinTTL
  <2> SUFFICES ASSUME TypeOK, KeysInv, NEW k \in Keys, quiet[k] = TTL, cache[k] # NoEntry
               PROVE  FALSE
    BY DEF RevokedWithinTTL
  <2>1. cache[k].ttl + TTL <= TTL
    BY DEF KeysInv
  <2>2. cache[k].ttl \in 1 .. TTL
    BY DEF TypeOK, Entry
  <2> QED
    BY <2>1, <2>2, KeysAssumption
<1> QED
  BY <1>1, KeysInit, KeysNext, TypeCorrect, PTL DEF Spec

(***************************************************************************)
(* Keys are managed by their owners, and rotations keep what a key grants. *)
(***************************************************************************)

\* A step that lets the table grow, completes no rotation and brings nobody
\* past the checks of ReadTarget or of RotateInsert keeps ManageInv.
LEMMA ManageFrame ==
    ASSUME TypeOK, ManageInv, Grows, UNCHANGED rotated,
           \A q \in Requests :
             /\ Managing(q)' => /\ Managing(q) /\ req'[q] = req[q]
                                /\ ctx'[q] = ctx[q] /\ old'[q] = old[q]
             /\ pc'[q] = "retire" => pc[q] = "retire" /\ new'[q] = new[q]
    PROVE  ManageInv'
<1>1. \A q \in Requests : Managing(q) => req[q].target \in Keys
  BY DEF TypeOK, Managing, Request
<1>2. \A q \in Requests : Managing(q)' =>
        /\ ctx'[q].admin /\ ctx'[q].user = old'[q].user
        /\ table'[req'[q].target].status # "absent"
        /\ table'[req'[q].target].grant = old'[q]
  BY <1>1 DEF ManageInv, Grows
<1>3. \A q \in Requests : pc'[q] = "retire" =>
        /\ table'[new'[q]].status # "absent"
        /\ table'[new'[q]].grant = old'[q]
  BY DEF ManageInv, Grows, TypeOK, Managing
<1>4. \A x \in rotated : x.from \in Keys /\ x.to \in Keys
  BY DEF TypeOK, Rotation
<1>5. \A x \in rotated' :
        /\ table'[x.from].status # "absent" /\ table'[x.to].status # "absent"
        /\ table'[x.to].grant = table'[x.from].grant
  BY <1>4 DEF ManageInv, RotationKeepsGrant, Grows
<1> QED
  BY <1>2, <1>3, <1>5 DEF ManageInv, RotationKeepsGrant

\* Arrivals, authentication and time keep ManageInv.
LEMMA ManageAuthenticate ==
    ASSUME TypeOK, ManageInv,
           \/ \E r \in Requests, k, t \in Keys, op \in Ops : Arrive(r, k, op, t)
           \/ \E r \in Requests : Authenticate(r)
           \/ Tick
    PROVE  ManageInv'
<1>1. Grows /\ UNCHANGED rotated
  BY WritesGrow DEF Arrive, Authenticate, GetAuthContext, Lookup, SetAuthContext, Tick
<1>2. CASE Tick
  BY <1>1, <1>2, ManageFrame DEF Tick, Managing
<1>3. ASSUME NEW r \in Requests, NEW k \in Keys, NEW t \in Keys, NEW op \in Ops,
             Arrive(r, k, op, t)
      PROVE  ManageInv'
  <2>1. /\ pc'[r] = "cached?" /\ UNCHANGED <<ctx, old, new>>
        /\ \A q \in Requests \ {r} : pc'[q] = pc[q] /\ req'[q] = req[q]
    BY <1>3 DEF Arrive, Goto, TypeOK
  <2> QED
    BY <1>1, <2>1, ManageFrame DEF Managing
<1>4. ASSUME NEW r \in Requests, Authenticate(r) PROVE ManageInv'
  <2>1. pc'[r] \in {"idle", "lookup", "store", "handler"}
    BY <1>4 DEF Authenticate, GetAuthContext, Lookup, SetAuthContext, Respond, Goto, TypeOK
  <2>2. \A q \in Requests \ {r} :
          /\ pc'[q] = pc[q] /\ req'[q] = req[q] /\ ctx'[q] = ctx[q]
          /\ old'[q] = old[q] /\ new'[q] = new[q]
    BY <1>4 DEF Authenticate, GetAuthContext, Lookup, SetAuthContext, Respond, Goto, TypeOK
  <2> QED
    BY <1>1, <2>1, <2>2, ManageFrame DEF Managing
<1> QED
  BY <1>2, <1>3, <1>4

\* The handlers keep ManageInv: what ReadTarget and RotateInsert establish
\* outlives whatever other requests do to the table.
LEMMA ManageHandle ==
    ASSUME TypeOK, ManageInv, NEW r \in Requests, Handle(r)
    PROVE  ManageInv'
<1>0. Grows
  BY HandleGrows
<1>1. CASE Respond(r) /\ UNCHANGED rotated
  <2>1. pc'[r] = "idle" /\ \A q \in Requests \ {r} :
          /\ pc'[q] = pc[q] /\ req'[q] = req[q] /\ ctx'[q] = ctx[q]
          /\ old'[q] = old[q] /\ new'[q] = new[q]
    BY <1>1 DEF Respond, Goto, TypeOK
  <2> QED
    BY <1>0, <1>1, <2>1, ManageFrame DEF Managing
<1>2. CASE ReadTarget(r) /\ ~Respond(r)
  <2> DEFINE t == req[r].target
  <2>1. /\ pc[r] = "handler" /\ ctx[r].admin /\ MayManage(r)
        /\ req[r].op \in {"revoke", "rotate"} /\ Goto(r, req[r].op)
        /\ old' = [old EXCEPT ![r] = table[t].grant]
        /\ UNCHANGED <<table, req, ctx, new, rotated>>
    BY <1>2 DEF ReadTarget
  <2>2. pc'[r] \in {"revoke", "rotate"} /\ old'[r] = table[t].grant
    BY <2>1 DEF Goto, TypeOK
  <2>3. \A q \in Requests \ {r} : pc'[q] = pc[q] /\ old'[q] = old[q]
    BY <2>1 DEF Goto, TypeOK
  <2>4. table[t].status # "absent" /\ ctx[r].user = table[t].grant.user
    BY <2>1 DEF MayManage
  <2>5. \A q \in Requests : Managing(q)' =>
          /\ ctx'[q].admin /\ ctx'[q].user = old'[q].user
          /\ table'[req'[q].target].status # "absent"
          /\ table'[req'[q].target].grant = old'[q]
    BY <2>1, <2>2, <2>3, <2>4 DEF ManageInv, Managing
  <2>6. \A q \in Requests : pc'[q] = "retire" =>
          /\ table'[new'[q]].status # "absent"
          /\ table'[new'[q]].grant = old'[q]
    BY <2>1, <2>2, <2>3 DEF ManageInv
  <2> QED
    BY <2>1, <2>5, <2>6 DEF ManageInv, RotationKeepsGrant
<1>3. CASE RotateInsert(r) /\ ~Respond(r)
  <2> PICK k \in Keys : InsertKey(k, old[r]) /\ new' = [new EXCEPT ![r] = k]
    BY <1>3 DEF RotateInsert
  <2>1. pc[r] = "rotate" /\ Goto(r, "retire") /\ UNCHANGED <<req, ctx, old, rotated>>
    BY <1>3 DEF RotateInsert
  <2>2. new'[r] = k /\ pc'[r] = "retire"
        /\ \A q \in Requests \ {r} : pc'[q] = pc[q] /\ new'[q] = new[q]
    BY <2>1 DEF Goto, TypeOK
  <2>3. table'[k].grant = old[r] /\ table'[k].status # "absent"
    BY DEF InsertKey, TypeOK
  <2>4. \A q \in Requests : Managing(q)' =>
          /\ Managing(q) /\ req[q].target \in Keys
    BY <2>1, <2>2 DEF Managing, TypeOK, Request
  <2>5. \A q \in Requests : Managing(q)' =>
          /\ ctx'[q].admin /\ ctx'[q].user = old'[q].user
          /\ table'[req'[q].target].status # "absent"
          /\ table'[req'[q].target].grant = old'[q]
    BY <1>0, <2>1, <2>4 DEF ManageInv, Grows
  <2>6. \A q \in Requests : pc'[q] = "retire" =>
          /\ table'[new'[q]].status # "absent"
          /\ table'[new'[q]].grant = old'[q]
    BY <1>0, <2>1, <2>2, <2>3 DEF ManageInv, Grows, TypeOK
  <2>7. \A x \in rotated : x.from \in Keys /\ x.to \in Keys
    BY DEF TypeOK, Rotation
  <2>8. \A x \in rotated' :
          /\ table'[x.from].status # "absent" /\ table'[x.to].status # "absent"
          /\ table'[x.to].grant = table'[x.from].grant
    BY <1>0, <2>1, <2>7 DEF ManageInv, RotationKeepsGrant, Grows
  <2> QED
    BY <2>5, <2>6, <2>8 DEF ManageInv, RotationKeepsGrant
<1>4. CASE RotateRevoke(r)
  <2> DEFINE t == req[r].target
  <2>1. pc[r] = "retire" /\ Respond(r)
        /\ rotated' = rotated \cup {[from |-> t, to |-> new[r]]}
    BY <1>4 DEF RotateRevoke
  <2>2. pc'[r] = "idle" /\ \A q \in Requests \ {r} :
          /\ pc'[q] = pc[q] /\ req'[q] = req[q] /\ ctx'[q] = ctx[q]
          /\ old'[q] = old[q] /\ new'[q] = new[q]
    BY <2>1 DEF Respond, Goto, TypeOK
  <2>3. t \in Keys /\ new[r] \in Keys
    BY <2>1 DEF TypeOK, Request
  <2>4. /\ table[t].status # "absent" /\ table[new[r]].status # "absent"
        /\ table[new[r]].grant = table[t].grant
    BY <2>1 DEF ManageInv, Managing
  <2>5. \A x \in rotated : x.from \in Keys /\ x.to \in Keys
    BY DEF TypeOK, Rotation
  <2>6. \A x \in rotated' :
          /\ table'[x.from].status # "absent" /\ table'[x.to].status # "absent"
          /\ table'[x.to].grant = table'[x.from].grant
    <3> TAKE x \in rotated'
    <3>1. CASE x \in rotated
      BY <1>0, <2>5, <3>1 DEF ManageInv, RotationKeepsGrant, Grows
    <3>2. CASE x \notin rotated
      <4>1. x.from = t /\ x.to = new[r]
        BY <2>1, <3>2
      <4> QED
        BY <1>0, <2>3, <2>4, <4>1 DEF Grows
    <3> QED
      BY <3>1, <3>2
  <2>7. \A q \in Requests : Managing(q) => req[q].target \in Keys
    BY DEF TypeOK, Managing, Request
  <2>8. \A q \in Requests : Managing(q)' =>
          /\ ctx'[q].admin /\ ctx'[q].user = old'[q].user
          /\ table'[req'[q].target].status # "absent"
          /\ table'[req'[q].target].grant = old'[q]
    BY <1>0, <2>2, <2>7 DEF ManageInv, Managing, Grows
  <2>9. \A q \in Requests : pc'[q] = "retire" =>
          /\ table'[new'[q]].status # "absent"
          /\ table'[new'[q]].grant = old'[q]
    BY <1>0, <2>2 DEF ManageInv, Grows, TypeOK
  <2> QED
    BY <2>6, <2>8, <2>9 DEF ManageInv, RotationKeepsGrant
<1> QED
  BY <1>1, <1>2, <1>3, <1>4 DEF Handle, ServeOrForbid, CreateAPIKey, ReadTarget,
     RevokeAPIKey, RotateInsert

\* Every step keeps ManageInv.
LEMMA ManageNext == TypeOK /\ ManageInv /\ [Next]_vars => ManageInv'
<1> SUFFICES ASSUME TypeOK, ManageInv, [Next]_vars PROVE ManageInv'
  OBVIOUS
<1>1. CASE UNCHANGED vars
  BY <1>1 DEF vars, ManageInv, RotationKeepsGrant, Managing
<1>2. CASE Next
  BY <1>2, ManageAuthenticate, ManageHandle DEF Next
<1> QED
  BY <1>1, <1>2

\* ManageInv holds at the start, when no request is in the handlers.
LEMMA ManageInit == Init => ManageInv
BY DEF Init, ManageInv, RotationKeepsGrant, Managing

\* The key a rotation answered with grants what the old one did.
THEOREM RotationCorrect == Spec => []RotationKeepsGrant
<1>1. ManageInv => RotationKeepsGrant
  BY DEF ManageInv
<1> QED
  BY <1>1, ManageInit, ManageNext, TypeCorrect, PTL DEF Spec

\* Keys are revoked only by requests authenticated as an admin of their user.
THEOREM OwnerCorrect == Spec => RevokedByOwner
<1> DEFINE ByOwner ==
      \A k \in Keys : IsRevoked(k)' /\ ~IsRevoked(k) =>
         \E r \in Requests :
            /\ pc[r] \in {"revoke", "retire"} /\ req[r].target = k
            /\ table[req[r].key].grant.admin
            /\ table[req[r].key].grant.user = table[k].grant.user
<1>1. TypeOK /\ KeysInv /\ ManageInv /\ [Next]_vars => [ByOwner]_vars
  <2> SUFFICES ASSUME TypeOK, KeysInv, ManageInv, Next PROVE ByOwner
    OBVIOUS
  <2>1. ASSUME NEW r \in Requests, pc[r] \in {"revoke", "retire"}, RevokeRow(req[r].target)
        PROVE  ByOwner
    <3> DEFINE t == req[r].target
    <3>1. t \in Keys /\ req[r].key \in Keys
      BY <2>1 DEF TypeOK, Request
    <3>2. \A k \in Keys \ {t} : IsRevoked(k)' <=> IsRevoked(k)
      BY <2>1, <3>1 DEF RevokeRow, IsRevoked, TypeOK
    <3>3. Managing(r) /\ Authenticated(r)
      BY <2>1 DEF Managing, Authenticated
    <3>4. ctx[r] = table[req[r].key].grant
      BY <3>3 DEF KeysInv, ContextMatchesKey
    <3>5. ctx[r].admin /\ ctx[r].user = table[t].grant.user
      BY <3>3 DEF ManageInv
    <3> QED
      BY <2>1, <3>2, <3>4, <3>5
  <2>2. ASSUME UNCHANGED table PROVE ByOwner
    BY <2>2 DEF IsRevoked
  <2>3. ASSUME NEW k \in Keys, NEW g, InsertKey(k, g) PROVE ByOwner
    BY <2>3 DEF InsertKey, IsRevoked, TypeOK
  <2>4. ASSUME NEW r \in Requests, Handle(r) PROVE ByOwner
    <3> HIDE DEF ByOwner
    <3> QED
      BY <2>1, <2>2, <2>3, <2>4 DEF Handle, ServeOrForbid, CreateAPIKey, ReadTarget,
         RevokeAPIKey, RotateInsert, RotateRevoke
  <2>5. ASSUME NEW r \in Requests, Authenticate(r) PROVE ByOwner
    <3> HIDE DEF ByOwner
    <3> QED
      BY <2>2, <2>5 DEF Authenticate, GetAuthContext, Lookup, SetAuthContext
  <2> HIDE DEF ByOwner
  <2> QED
    BY <2>2, <2>4, <2>5 DEF Next, Arrive, Tick
<1> QED
  BY <1>1, KeysInit, KeysNext, ManageInit, ManageNext, TypeCorrect, PTL
     DEF Spec, RevokedByOwner
=============================================================================
