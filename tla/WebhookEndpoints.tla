-------------------------- MODULE WebhookEndpoints --------------------------
(***************************************************************************)
(* The table webhook_endpoints: the handlers that create, patch, delete    *)
(* and rotate an endpoint, and the delivery workers that read one, sign    *)
(* with what they read and POST.                                           *)
(*                                                                         *)
(* A handler is two statements: GetEndpoint, whose answer is checked for   *)
(* its owner, and an UPDATE of some columns.  There is no transaction      *)
(* around them.  target_url stands for name, description and event_types   *)
(* too, which are treated alike.  Secrets are numbered as they are         *)
(* generated: two draws of 32 random bytes are taken to differ.  What      *)
(* becomes of a delivery is the subject of WebhookDelivery.                *)
(***************************************************************************)
EXTENDS Naturals, FiniteSets

CONSTANTS
    Endpoints,      \* webhook_endpoints ids
    Users,          \* owners of endpoints and of API calls
    Urls,           \* target URLs that pass validation
    Callers,        \* concurrent API calls
    Workers,        \* the webhook worker of each running instance
    Omitted,        \* a field that a PATCH leaves out
    MaxSecrets,     \* bound: secrets generated
    MaxFaults       \* bound: failing statements

ASSUME EndpointsAssumption ==
    /\ Omitted \notin Urls \cup BOOLEAN
    /\ MaxSecrets \in Nat
    /\ MaxFaults \in Nat

VARIABLES
    endpoint,   \* the table
    call,       \* API calls between their two statements
    hold,       \* the endpoint each worker has read, as a set of at most one
    secrets,    \* secrets generated so far
    faults,     \* failures so far
    asked,      \* per endpoint, the field values the last committed calls asked for
    overtaken,  \* endpoints for which a PATCH has committed an outdated copy
    retired,    \* secrets that a rotation has replaced
    late        \* POSTs of each worker signed with each retired secret

vars == <<endpoint, call, hold, secrets, faults, asked, overtaken, retired, late>>

ghosts == <<asked, overtaken>>
-----------------------------------------------------------------------------
Secrets == 1 .. MaxSecrets

Fields == [url : Urls, enabled : BOOLEAN]

Row == [state : {"live", "deleted"}, user : Users, url : Urls,
        enabled : BOOLEAN, secret : Secrets]

NoRow  == [state |-> "absent"]
NoCall == [op |-> "none"]

IsLive(e)   == endpoint[e].state = "live"
IsActive(e) == IsLive(e) /\ endpoint[e].enabled
FieldsOf(r) == [url |-> r.url, enabled |-> r.enabled]

Fault   == faults < MaxFaults /\ faults' = faults + 1
NoFault == UNCHANGED faults

Init ==
    /\ endpoint = [e \in Endpoints |-> NoRow]
    /\ call = [c \in Callers |-> NoCall]
    /\ hold = [w \in Workers |-> {}]
    /\ secrets = 0
    /\ faults = 0
    /\ asked = [e \in Endpoints |-> {}]
    /\ overtaken = {}
    /\ retired = {}
    /\ late = [w \in Workers |-> [s \in Secrets |-> 0]]
-----------------------------------------------------------------------------
(* WebhookHandler. *)

\* GenerateSecret: the next number.
GenerateSecret == secrets < MaxSecrets /\ secrets' = secrets + 1

\* POST /webhooks: the only statement is the INSERT, under a fresh id.
Create(u, e, url) ==
    /\ endpoint[e] = NoRow
    /\ GenerateSecret
    /\ endpoint' = [endpoint EXCEPT ![e] =
           [state |-> "live", user |-> u, url |-> url, enabled |-> TRUE,
            secret |-> secrets + 1]]
    /\ asked' = [asked EXCEPT ![e] = {[url |-> url, enabled |-> TRUE]}]
    /\ UNCHANGED <<call, hold, faults, overtaken, retired, late>>

\* A mutant, used to test the properties: anybody's endpoint is found.
MayReachAny(u, e) == IsLive(e)

\* GetEndpoint finds a row that is not deleted, and the handler answers 404
\* unless it belongs to the caller.
MayReach(u, e) == IsLive(e) /\ endpoint[e].user = u

\* The handler has read the endpoint: it remembers the row and what is asked.
Begin(c, u, e, op, patch, secret) ==
    /\ call[c] = NoCall
    /\ MayReach(u, e)
    /\ call' = [call EXCEPT ![c] =
           [op |-> op, user |-> u, e |-> e, copy |-> endpoint[e],
            patch |-> patch, secret |-> secret, seen |-> asked[e]]]
    /\ UNCHANGED <<endpoint, hold, faults, ghosts, retired, late>>

NoPatch == [url |-> Omitted, enabled |-> Omitted]
Patches == [url : Urls \cup {Omitted}, enabled : BOOLEAN \cup {Omitted}]

BeginUpdate(c, u, e) ==
    /\ \E p \in Patches : Begin(c, u, e, "update", p, 0)
    /\ UNCHANGED secrets

BeginDelete(c, u, e) ==
    /\ Begin(c, u, e, "delete", NoPatch, 0)
    /\ UNCHANGED secrets

BeginRotate(c, u, e) ==
    /\ GenerateSecret
    /\ Begin(c, u, e, "rotate", NoPatch, secrets + 1)

\* The fields that a PATCH mentions replace those of the copy.
Patched(copy, p) ==
    [url |-> IF p.url = Omitted THEN copy.url ELSE p.url,
     enabled |-> IF p.enabled = Omitted THEN copy.enabled ELSE p.enabled]

\* A mutant, used to test the properties: the UPDATE writes every column of
\* the struct, secret_hash included.
UpdatedWithSecret(r, k) ==
    LET f == Patched(k.copy, k.patch)
    IN  [r EXCEPT !.url = f.url, !.enabled = f.enabled, !.secret = k.copy.secret]

\* UpdateEndpoint: the patched copy in all columns but secret_hash.
Updated(r, k) ==
    LET f == Patched(k.copy, k.patch)
    IN  [r EXCEPT !.url = f.url, !.enabled = f.enabled]

\* A mutant, used to test the properties: the rotation saves the whole copy.
RotatedWithCopy(r, k) == [k.copy EXCEPT !.secret = k.secret]

\* UpdateEndpointSecret: secret_hash alone.
Rotated(r, k) == [r EXCEPT !.secret = k.secret]

\* DeleteEndpoint sets deleted_at.
Deleted(r) == [r EXCEPT !.state = "deleted"]

\* WHERE id = $1 AND deleted_at IS NULL.
Matches(e) == IsLive(e)

\* The second statement of a call takes effect and makes the row new.  It may
\* do so and fail: then only the answer is lost.
Commits(c, op, new) ==
    LET e == call[c].e
    IN  /\ call[c].op = op
        /\ Matches(e)
        /\ endpoint' = [endpoint EXCEPT ![e] = new]
        /\ call' = [call EXCEPT ![c] = NoCall]
        /\ NoFault \/ Fault
        /\ UNCHANGED <<hold, secrets, late>>

\* What the caller of a committed PATCH has asked for, over what was asked
\* before.  The PATCH is outdated when another has committed since its read.
UpdateEndpoint(c) ==
    LET k == call[c]
    IN  /\ Commits(c, "update", Updated(endpoint[k.e], k))
        /\ asked' = [asked EXCEPT ![k.e] = {Patched(f, k.patch) : f \in @}]
        /\ overtaken' = IF asked[k.e] = k.seen THEN overtaken ELSE overtaken \cup {k.e}
        /\ UNCHANGED retired

UpdateEndpointSecret(c) ==
    LET k == call[c]
    IN  /\ Commits(c, "rotate", Rotated(endpoint[k.e], k))
        /\ retired' = retired \cup {endpoint[k.e].secret}
        /\ UNCHANGED ghosts

DeleteEndpoint(c) ==
    /\ Commits(c, "delete", Deleted(endpoint[call[c].e]))
    /\ UNCHANGED <<ghosts, retired>>

\* The second statement fails, or finds no row (ErrEndpointNotFound): 500.
WriteFails(c) ==
    /\ call[c] # NoCall
    /\ \/ ~Matches(call[c].e) /\ NoFault
       \/ Fault
    /\ call' = [call EXCEPT ![c] = NoCall]
    /\ UNCHANGED <<endpoint, hold, secrets, ghosts, retired, late>>
-----------------------------------------------------------------------------
(* Worker.deliver, for some delivery of endpoint e. *)

\* The endpoint is read again for every delivery; a POST follows if it is
\* active.
GetEndpoint(w, e) ==
    /\ hold[w] = {}
    /\ IsActive(e)
    /\ hold' = [hold EXCEPT ![w] = {endpoint[e]}]
    /\ UNCHANGED <<endpoint, call, secrets, faults, ghosts, retired, late>>

\* A mutant, used to test the properties: the worker keeps the endpoint for
\* its next delivery.
PostAndKeep(w) ==
    /\ \E r \in hold[w] :
           /\ r.secret \in retired
           /\ late' = [late EXCEPT ![w][r.secret] = @ + 1]
    /\ UNCHANGED <<hold, endpoint, call, secrets, faults, ghosts, retired>>

\* The POST, signed with the secret that was read.
Post(w) ==
    /\ \E r \in hold[w] :
           late' = IF r.secret \in retired
                   THEN [late EXCEPT ![w][r.secret] = @ + 1] ELSE late
    /\ hold' = [hold EXCEPT ![w] = {}]
    /\ UNCHANGED <<endpoint, call, secrets, faults, ghosts, retired>>
-----------------------------------------------------------------------------
Request ==
    \E u \in Users, e \in Endpoints :
        \/ \E url \in Urls : Create(u, e, url)
        \/ \E c \in Callers :
               BeginUpdate(c, u, e) \/ BeginDelete(c, u, e) \/ BeginRotate(c, u, e)

Finish(c) ==
    \/ UpdateEndpoint(c) \/ UpdateEndpointSecret(c) \/ DeleteEndpoint(c)
    \/ WriteFails(c)

Next ==
    \/ Request
    \/ \E c \in Callers : Finish(c)
    \/ \E w \in Workers : Post(w) \/ \E e \in Endpoints : GetEndpoint(w, e)

Spec == Init /\ [][Next]_vars
-----------------------------------------------------------------------------
(* Properties. *)

Call == {NoCall} \cup
        [op : {"update", "rotate", "delete"}, user : Users, e : Endpoints,
         copy : Row, patch : Patches, secret : 0 .. MaxSecrets,
         seen : {{f} : f \in Fields}]

\* Every variable has its type; a worker holds at most one endpoint.
TypeOK ==
    /\ endpoint \in [Endpoints -> Row \cup {NoRow}]
    /\ call \in [Callers -> Call]
    /\ hold \in [Workers -> {{}} \cup {{r} : r \in Row}]
    /\ secrets \in 0 .. MaxSecrets
    /\ faults \in 0 .. MaxFaults
    /\ asked \in [Endpoints -> {{}} \cup {{f} : f \in Fields}]
    /\ overtaken \subseteq Endpoints
    /\ retired \subseteq Secrets
    /\ late \in [Workers -> [Secrets -> Nat]]

\* A secret that a rotation has replaced never comes back, although PATCHes
\* and other rotations read before the rotation write after it: UpdateEndpoint
\* leaves secret_hash alone, and every rotation writes a secret of its own.
RetiredStaysRetired == \A e \in Endpoints : endpoint[e] # NoRow =>
                                            endpoint[e].secret \notin retired

\* deliver() reads the endpoint for every delivery of a batch: once a rotation
\* has replaced a secret, each worker signs at most one more POST with it,
\* the one it had begun.
RetiredSignsOnce == \A w \in Workers, s \in Secrets : late[w][s] <= 1

\* What the calls asked for is what the row says, whatever rotations came
\* between (they write secret_hash alone): a field is lost only after a PATCH
\* that wrote back a copy read before another PATCH had committed.
LostUpdateHasCause ==
    \A e \in Endpoints : endpoint[e] # NoRow /\ e \notin overtaken =>
        asked[e] = {FieldsOf(endpoint[e])}

\* An endpoint changes only by a call of its owner and only while it is live,
\* although owner and deleted_at were checked in an earlier statement than the
\* one that writes: a PATCH, a rotation or a second DELETE that had found it
\* live leaves a deleted endpoint alone.
ChangedByOwner ==
    [][\A e \in Endpoints : endpoint[e] # NoRow /\ endpoint'[e] # endpoint[e] =>
           /\ IsLive(e)
           /\ \E c \in Callers :
                 /\ call[c] # NoCall /\ call'[c] = NoCall
                 /\ call[c].e = e /\ call[c].user = endpoint[e].user]_vars
=============================================================================
