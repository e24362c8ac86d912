----------------------- MODULE WebhookEndpointsProofs -----------------------
(***************************************************************************)
(* Proofs about the endpoints: the types; that a secret replaced by a      *)
(* rotation stays replaced and signs one POST more at most; that fields    *)
(* are lost to overlapping PATCHes alone; and that only its owner changes  *)
(* an endpoint, while it is live.  For any number of endpoints, users,     *)
(* calls, workers, secrets and failures.                                   *)
(***************************************************************************)
EXTENDS WebhookEndpoints, TLAPS

-----------------------------------------------------------------------------
(* Types. *)

\* A row that is live is a row.
LEMMA LiveIsRow ==
    ASSUME TypeOK, NEW e \in Endpoints, IsLive(e)
    PROVE  endpoint[e] \in Row
  BY DEF TypeOK, IsLive, NoRow

\* A call that is under way has its type.
LEMMA CallIsCall ==
    ASSUME TypeOK, NEW c \in Callers, call[c] # NoCall
    PROVE  /\ call[c] \in [op : {"update", "rotate", "delete"}, user : Users,
                           e : Endpoints, copy : Row, patch : Patches,
                           secret : 0 .. MaxSecrets, seen : {{f} : f \in Fields}]
           /\ call[c].op \in {"update", "rotate", "delete"}
           /\ call[c].e \in Endpoints /\ call[c].user \in Users
           /\ call[c].copy \in Row /\ call[c].patch \in Patches
           /\ call[c].secret \in 0 .. MaxSecrets
           /\ call[c].seen \in {{f} : f \in Fields}
  <1>1. call[c] \in Call
    BY DEF TypeOK
  <1> QED
    BY <1>1 DEF Call

\* A patched row or record of fields is a record of fields.
LEMMA PatchedIsFields ==
    ASSUME NEW p \in Patches, NEW r, r.url \in Urls, r.enabled \in BOOLEAN
    PROVE  Patched(r, p) \in Fields
  <1>1. (IF p.url = Omitted THEN r.url ELSE p.url) \in Urls
    BY DEF Patches
  <1>2. (IF p.enabled = Omitted THEN r.enabled ELSE p.enabled) \in BOOLEAN
    <2>1. p.enabled \in BOOLEAN \cup {Omitted}
      BY DEF Patches
    <2> QED
      BY <2>1, Zenon
  <1> QED
    BY <1>1, <1>2, Zenon DEF Patched, Fields

\* The secret of a row, a user and so on, once and for all.
LEMMA RowFields ==
    ASSUME NEW r \in Row
    PROVE  /\ r.url \in Urls /\ r.enabled \in BOOLEAN
           /\ r.secret \in Secrets /\ r.user \in Users
           /\ r.state \in {"live", "deleted"}
           /\ FieldsOf(r) \in Fields
           /\ r # NoRow
  BY DEF Row, FieldsOf, Fields, NoRow

\* What the three second statements make of a row is a row.
LEMMA UpdatedIsRow ==
    ASSUME NEW r \in Row, NEW k, k.copy \in Row, k.patch \in Patches
    PROVE  /\ Updated(r, k) \in Row
           /\ FieldsOf(Updated(r, k)) = Patched(k.copy, k.patch)
           /\ Updated(r, k).secret = r.secret
           /\ Updated(r, k).user = r.user
  <1> DEFINE f == Patched(k.copy, k.patch)
  <1>1. f \in Fields
    BY PatchedIsFields, RowFields
  <1> HIDE DEF f
  <1>2. Updated(r, k) = [r EXCEPT !.url = f.url, !.enabled = f.enabled]
    BY DEF Updated, f
  <1>3. FieldsOf(Updated(r, k)) = f
    BY <1>1, <1>2 DEF FieldsOf, Fields, Row
  <1> QED
    BY <1>1, <1>2, <1>3 DEF Fields, Row, f

LEMMA RotatedIsRow ==
    ASSUME NEW r \in Row, NEW k, k.secret \in Secrets
    PROVE  /\ Rotated(r, k) \in Row
           /\ FieldsOf(Rotated(r, k)) = FieldsOf(r)
           /\ Rotated(r, k).secret = k.secret
           /\ Rotated(r, k).user = r.user
  BY DEF Rotated, Row, FieldsOf

LEMMA DeletedIsRow ==
    ASSUME NEW r \in Row
    PROVE  /\ Deleted(r) \in Row
           /\ FieldsOf(Deleted(r)) = FieldsOf(r)
           /\ Deleted(r).secret = r.secret
           /\ Deleted(r).user = r.user
  BY DEF Deleted, Row, FieldsOf

\* A second statement that takes effect keeps the types of what it touches.
LEMMA CommitsTypes ==
    ASSUME TypeOK, NEW c \in Callers, NEW op \in {"update", "rotate", "delete"},
           NEW new, Commits(c, op, new)
    PROVE  /\ call[c] # NoCall
           /\ IsLive(call[c].e)
           /\ endpoint[call[c].e] \in Row
           /\ endpoint' = [endpoint EXCEPT ![call[c].e] = new]
           /\ new \in Row => endpoint' \in [Endpoints -> Row \cup {NoRow}]
           /\ call' = [call EXCEPT ![c] = NoCall]
           /\ call' \in [Callers -> Call]
           /\ faults' \in 0 .. MaxFaults
           /\ UNCHANGED <<hold, secrets, late>>
  <1>1. call[c] # NoCall
    BY DEF Commits, NoCall
  <1>2. call[c].e \in Endpoints
    BY <1>1, CallIsCall
  <1>3. IsLive(call[c].e)
    BY DEF Commits, Matches
  <1>4. endpoint[call[c].e] \in Row
    BY <1>2, <1>3, LiveIsRow
  <1>5. endpoint' = [endpoint EXCEPT ![call[c].e] = new]
    BY DEF Commits
  <1>6. new \in Row => endpoint' \in [Endpoints -> Row \cup {NoRow}]
    BY <1>2, <1>5 DEF TypeOK
  <1>7. call' = [call EXCEPT ![c] = NoCall]
    BY DEF Commits
  <1>8. call' \in [Callers -> Call]
    BY <1>7 DEF TypeOK, Call
  <1>9. faults' \in 0 .. MaxFaults
    BY EndpointsAssumption DEF TypeOK, Commits, NoFault, Fault
  <1> QED
    BY <1>1, <1>3, <1>4, <1>5, <1>6, <1>7, <1>8, <1>9 DEF Commits

\* The read of a handler: what it remembers has its type.
LEMMA BeginTypes ==
    ASSUME TypeOK, NEW c \in Callers, NEW u \in Users, NEW e \in Endpoints,
           NEW op \in {"update", "rotate", "delete"}, NEW p \in Patches,
           NEW s \in 0 .. MaxSecrets, Begin(c, u, e, op, p, s),
           asked[e] \in {{f} : f \in Fields}
    PROVE  call' \in [Callers -> Call]
  <1>1. endpoint[e] \in Row
    BY LiveIsRow DEF Begin, MayReach
  <1> DEFINE k == [op |-> op, user |-> u, e |-> e, copy |-> endpoint[e],
                   patch |-> p, secret |-> s, seen |-> asked[e]]
  <1>2. k \in Call
    BY <1>1 DEF Call
  <1>3. call' = [call EXCEPT ![c] = k]
    BY DEF Begin
  <1> QED
    BY <1>2, <1>3 DEF TypeOK

\* What was asked of a row is known.
AskedInv ==
    \A e \in Endpoints : endpoint[e] # NoRow => asked[e] \in {{f} : f \in Fields}

\* A rotation has generated its secret.
DrawnInv ==
    \A c \in Callers : call[c].op = "rotate" => call[c].secret \in Secrets

TypeInv == TypeOK /\ AskedInv /\ DrawnInv

LEMMA NoPatchIsPatch == NoPatch \in Patches
  BY DEF NoPatch, Patches

LEMMA TypeInit == Init => TypeInv
  BY EndpointsAssumption DEF Init, TypeInv, TypeOK, AskedInv, DrawnInv, Call,
                             NoRow, NoCall

LEMMA TypeNext == TypeInv /\ [Next]_vars => TypeInv'
  <1> SUFFICES ASSUME TypeInv, [Next]_vars PROVE TypeInv'
    OBVIOUS
  <1> USE EndpointsAssumption
  <1>t. TypeOK /\ AskedInv /\ DrawnInv
    BY DEF TypeInv
  <1>1. ASSUME NEW u \in Users, NEW e \in Endpoints, NEW url \in Urls, Create(u, e, url)
        PROVE  TypeInv'
    <2> DEFINE r == [state |-> "live", user |-> u, url |-> url, enabled |-> TRUE,
                     secret |-> secrets + 1]
    <2>1. secrets + 1 \in Secrets /\ secrets' \in 0 .. MaxSecrets
      BY <1>1, <1>t DEF Create, GenerateSecret, TypeOK, Secrets
    <2>2. r \in Row
      BY <2>1 DEF Row
    <2>3. endpoint' = [endpoint EXCEPT ![e] = r]
      BY <1>1 DEF Create
    <2>4. endpoint' \in [Endpoints -> Row \cup {NoRow}]
      BY <1>t, <2>2, <2>3 DEF TypeOK
    <2>5. [url |-> url, enabled |-> TRUE] \in Fields
      BY DEF Fields
    <2>6. asked' = [asked EXCEPT ![e] = {[url |-> url, enabled |-> TRUE]}]
      BY <1>1 DEF Create
    <2>7. asked' \in [Endpoints -> {{}} \cup {{f} : f \in Fields}]
      BY <1>t, <2>5, <2>6 DEF TypeOK
    <2>8. AskedInv'
      BY <1>t, <2>3, <2>5, <2>6 DEF TypeOK, AskedInv
    <2> QED
      BY <1>1, <1>t, <2>1, <2>4, <2>7, <2>8 DEF Create, TypeInv, TypeOK, DrawnInv
  <1>2. ASSUME NEW c \in Callers, NEW u \in Users, NEW e \in Endpoints,
               NEW op \in {"update", "rotate", "delete"}, NEW p \in Patches,
               NEW s \in 0 .. MaxSecrets, Begin(c, u, e, op, p, s),
               op = "rotate" => s \in Secrets,
               secrets' \in 0 .. MaxSecrets
        PROVE  TypeInv'
    <2>1. endpoint[e] # NoRow
      BY <1>2 DEF Begin, MayReach, IsLive, NoRow
    <2>2. asked[e] \in {{f} : f \in Fields}
      BY <1>t, <2>1 DEF AskedInv
    <2>3. call' \in [Callers -> Call]
      BY <1>2, <1>t, <2>2, BeginTypes
    <2>4. DrawnInv'
      BY <1>2, <1>t DEF Begin, DrawnInv, TypeOK
    <2> QED
      BY <1>2, <1>t, <2>3, <2>4 DEF Begin, ghosts, TypeInv, TypeOK, AskedInv
  <1>3. ASSUME NEW c \in Callers, NEW u \in Users, NEW e \in Endpoints,
               BeginUpdate(c, u, e) \/ BeginDelete(c, u, e) \/ BeginRotate(c, u, e)
        PROVE  TypeInv'
    <2>1. CASE BeginUpdate(c, u, e)
      <3>1. PICK p \in Patches : Begin(c, u, e, "update", p, 0)
        BY <2>1 DEF BeginUpdate
      <3>2. secrets' \in 0 .. MaxSecrets
        BY <2>1, <1>t DEF BeginUpdate, TypeOK
      <3> QED
        BY <1>2, <3>1, <3>2
    <2>2. CASE BeginDelete(c, u, e)
      <3>1. secrets' \in 0 .. MaxSecrets
        BY <2>2, <1>t DEF BeginDelete, TypeOK
      <3> QED
        BY <1>2, <2>2, <3>1, NoPatchIsPatch DEF BeginDelete
    <2>3. CASE BeginRotate(c, u, e)
      <3>1. secrets' \in 0 .. MaxSecrets /\ secrets + 1 \in 0 .. MaxSecrets
            /\ secrets + 1 \in Secrets
        BY <2>3, <1>t DEF BeginRotate, GenerateSecret, TypeOK, Secrets
      <3> QED
        BY <1>2, <2>3, <3>1, NoPatchIsPatch DEF BeginRotate
    <2> QED
      BY <1>3, <2>1, <2>2, <2>3
  <1>4. ASSUME NEW c \in Callers, UpdateEndpoint(c)
        PROVE  TypeInv'
    <2> DEFINE k == call[c]
               new == Updated(endpoint[k.e], k)
    <2>1. Commits(c, "update", new)
      BY <1>4 DEF UpdateEndpoint
    <2> HIDE DEF new
    <2>2. /\ k # NoCall /\ IsLive(k.e) /\ endpoint[k.e] \in Row
          /\ endpoint' = [endpoint EXCEPT ![k.e] = new]
          /\ new \in Row => endpoint' \in [Endpoints -> Row \cup {NoRow}]
          /\ call' = [call EXCEPT ![c] = NoCall]
          /\ call' \in [Callers -> Call]
          /\ faults' \in 0 .. MaxFaults
          /\ UNCHANGED <<hold, secrets, late>>
      BY <1>t, <2>1, CommitsTypes
    <2>3. k.e \in Endpoints /\ k.copy \in Row /\ k.patch \in Patches
      BY <1>t, <2>2, CallIsCall
    <2>4. new \in Row
      BY <2>2, <2>3, UpdatedIsRow DEF new
    <2>5. PICK f \in Fields : asked[k.e] = {f}
      BY <1>t, <2>2, <2>3, RowFields DEF AskedInv
    <2>6. Patched(f, k.patch) \in Fields
      BY <2>3, PatchedIsFields DEF Fields
    <2>7. asked' = [asked EXCEPT ![k.e] = {Patched(f, k.patch)}]
      BY <1>4, <1>t, <2>3, <2>5 DEF UpdateEndpoint, TypeOK
    <2>8. asked' \in [Endpoints -> {{}} \cup {{g} : g \in Fields}]
      BY <1>t, <2>6, <2>7 DEF TypeOK
    <2>9. overtaken' \subseteq Endpoints
      BY <1>4, <1>t, <2>3 DEF UpdateEndpoint, TypeOK
    <2>10. AskedInv'
      BY <1>t, <2>2, <2>3, <2>6, <2>7, RowFields DEF TypeOK, AskedInv
    <2>11. DrawnInv'
      BY <1>t, <2>2 DEF TypeOK, DrawnInv, NoCall
    <2> QED
      BY <1>4, <1>t, <2>2, <2>4, <2>8, <2>9, <2>10, <2>11
      DEF UpdateEndpoint, TypeInv, TypeOK
  <1>5. ASSUME NEW c \in Callers, NEW op \in {"rotate", "delete"}, NEW new \in Row,
               Commits(c, op, new), retired' \subseteq Secrets, UNCHANGED ghosts
        PROVE  TypeInv'
    <2> DEFINE k == call[c]
    <2>1. /\ k # NoCall /\ endpoint[k.e] \in Row
          /\ endpoint' = [endpoint EXCEPT ![k.e] = new]
          /\ endpoint' \in [Endpoints -> Row \cup {NoRow}]
          /\ call' = [call EXCEPT ![c] = NoCall]
          /\ call' \in [Callers -> Call]
          /\ faults' \in 0 .. MaxFaults
          /\ UNCHANGED <<hold, secrets, late>>
      BY <1>5, <1>t, CommitsTypes
    <2>2. AskedInv'
      BY <1>5, <1>t, <2>1, RowFields DEF ghosts, TypeOK, AskedInv
    <2>3. DrawnInv'
      BY <1>t, <2>1 DEF TypeOK, DrawnInv, NoCall
    <2> QED
      BY <1>5, <1>t, <2>1, <2>2, <2>3 DEF ghosts, TypeInv, TypeOK
  <1>6. ASSUME NEW c \in Callers, UpdateEndpointSecret(c)
        PROVE  TypeInv'
    <2> DEFINE k == call[c]
               new == Rotated(endpoint[k.e], k)
    <2>1. Commits(c, "rotate", new) /\ UNCHANGED ghosts
          /\ retired' = retired \cup {endpoint[k.e].secret}
      BY <1>6 DEF UpdateEndpointSecret
    <2>2. k.op = "rotate" /\ endpoint[k.e] \in Row
      BY <1>t, <2>1, CommitsTypes DEF Commits
    <2>3. new \in Row
      BY <1>t, <2>2, RotatedIsRow DEF DrawnInv
    <2>4. retired' \subseteq Secrets
      BY <1>t, <2>1, <2>2, RowFields DEF TypeOK
    <2> HIDE DEF new
    <2> QED
      BY <1>5, <2>1, <2>3, <2>4
  <1>7. ASSUME NEW c \in Callers, DeleteEndpoint(c)
        PROVE  TypeInv'
    <2> DEFINE new == Deleted(endpoint[call[c].e])
    <2>1. Commits(c, "delete", new) /\ UNCHANGED <<ghosts, retired>>
      BY <1>7 DEF DeleteEndpoint
    <2>2. new \in Row
      BY <1>t, <2>1, CommitsTypes, DeletedIsRow
    <2>3. retired' \subseteq Secrets
      BY <1>t, <2>1 DEF TypeOK
    <2> HIDE DEF new
    <2> QED
      BY <1>5, <2>1, <2>2, <2>3
  <1>8. ASSUME NEW c \in Callers, WriteFails(c)
        PROVE  TypeInv'
    <2>1. faults' \in 0 .. MaxFaults
      BY <1>8, <1>t DEF WriteFails, TypeOK, Fault, NoFault
    <2>2. call' = [call EXCEPT ![c] = NoCall]
      BY <1>8 DEF WriteFails
    <2>3. call' \in [Callers -> Call]
      BY <1>t, <2>2 DEF TypeOK, Call
    <2>4. DrawnInv'
      BY <1>t, <2>2 DEF TypeOK, DrawnInv, NoCall
    <2> QED
      BY <1>8, <1>t, <2>1, <2>3, <2>4 DEF WriteFails, ghosts, TypeInv, TypeOK, AskedInv
  <1>9. ASSUME NEW w \in Workers, NEW e \in Endpoints, GetEndpoint(w, e)
        PROVE  TypeInv'
    <2>1. endpoint[e] \in Row
      BY <1>9, <1>t, LiveIsRow DEF GetEndpoint, IsActive
    <2>2. hold' = [hold EXCEPT ![w] = {endpoint[e]}]
      BY <1>9 DEF GetEndpoint
    <2>3. hold' \in [Workers -> {{}} \cup {{r} : r \in Row}]
      BY <1>t, <2>1, <2>2 DEF TypeOK
    <2> QED
      BY <1>9, <1>t, <2>3 DEF GetEndpoint, ghosts, TypeInv, TypeOK, AskedInv, DrawnInv
  <1>10. ASSUME NEW w \in Workers, Post(w)
         PROVE  TypeInv'
    <2>1. PICK r \in hold[w] : late' = IF r.secret \in retired
                   THEN [late EXCEPT ![w][r.secret] = @ + 1] ELSE late
      BY <1>10 DEF Post
    <2>2. r \in Row
      BY <1>t DEF TypeOK
    <2>3. late' \in [Workers -> [Secrets -> Nat]]
      BY <1>t, <2>1, <2>2, RowFields DEF TypeOK
    <2>4. hold' \in [Workers -> {{}} \cup {{x} : x \in Row}]
      BY <1>10, <1>t DEF Post, TypeOK
    <2> QED
      BY <1>10, <1>t, <2>3, <2>4 DEF Post, ghosts, TypeInv, TypeOK, AskedInv, DrawnInv
  <1>11. CASE UNCHANGED vars
    BY <1>11, <1>t DEF vars, TypeInv, TypeOK, AskedInv, DrawnInv
  <1> QED
    BY <1>1, <1>3, <1>4, <1>6, <1>7, <1>8, <1>9, <1>10, <1>11
    DEF Next, Request, Finish

\* Every variable has its type, whatever the handlers and workers of any number
\* of instances do.
THEOREM TypeCorrect == Spec => []TypeOK
  <1>1. TypeInv => TypeOK
    BY DEF TypeInv
  <1> QED
    BY TypeInit, TypeNext, <1>1, PTL DEF Spec
-----------------------------------------------------------------------------
(* Secrets. *)

IsRow(e)      == endpoint[e] # NoRow
IsRotation(c) == call[c].op = "rotate"

\* No secret is in two places: the rows, the rotations that are under way and
\* the retired secrets are disjoint, and all of them have been generated.
SecretInv ==
    /\ \A e \in Endpoints : IsRow(e) =>
           endpoint[e].secret <= secrets /\ endpoint[e].secret \notin retired
    /\ \A e, d \in Endpoints : IsRow(e) /\ IsRow(d) /\ e # d =>
           endpoint[e].secret # endpoint[d].secret
    /\ \A s \in retired : s <= secrets
    /\ \A c \in Callers : IsRotation(c) =>
           call[c].secret <= secrets /\ call[c].secret \notin retired
    /\ \A c \in Callers, e \in Endpoints : IsRotation(c) /\ IsRow(e) =>
           call[c].secret # endpoint[e].secret
    /\ \A c, d \in Callers : IsRotation(c) /\ IsRotation(d) /\ c # d =>
           call[c].secret # call[d].secret

\* A worker that holds a secret has not yet signed with it since it was
\* retired.
SignInv ==
    \A w \in Workers, s \in Secrets :
        /\ late[w][s] <= 1
        /\ late[w][s] > 0 => s \in retired /\ \A r \in hold[w] : r.secret # s

\* Secrets of rows are numbers.
LEMMA SecretsOfRows ==
    ASSUME TypeOK, NEW e \in Endpoints, IsRow(e)
    PROVE  endpoint[e] \in Row /\ endpoint[e].secret \in Secrets
  BY RowFields DEF TypeOK, IsRow

LEMMA SecretInit == Init => SecretInv /\ SignInv
  BY DEF Init, SecretInv, SignInv, IsRow, IsRotation, NoCall

\* A step that leaves the secrets of the rows and the retired ones alone, and
\* starts no rotation.
LEMMA SecretFrame ==
    ASSUME SecretInv, UNCHANGED <<secrets, retired>>,
           \A e \in Endpoints : IsRow(e)' => IsRow(e) /\ endpoint'[e].secret = endpoint[e].secret,
           \A c \in Callers : IsRotation(c)' => IsRotation(c) /\ call'[c].secret = call[c].secret
    PROVE  SecretInv'
  BY DEF SecretInv

LEMMA SecretNext ==
    ASSUME TypeInv, SecretInv, SignInv, [Next]_vars
    PROVE  SecretInv' /\ SignInv'
  <1> USE EndpointsAssumption
  <1>t. TypeOK /\ AskedInv /\ DrawnInv /\ TypeOK'
    BY TypeNext DEF TypeInv
  <1>1. ASSUME NEW u \in Users, NEW e \in Endpoints, NEW url \in Urls, Create(u, e, url)
        PROVE  SecretInv' /\ SignInv'
    <2>1. /\ \A d \in Endpoints : d # e => endpoint'[d] = endpoint[d]
          /\ endpoint'[e].secret = secrets + 1
          /\ secrets' = secrets + 1 /\ secrets \in Nat
          /\ UNCHANGED <<call, retired, hold, late>>
          /\ ~IsRow(e)
      BY <1>1, <1>t DEF Create, GenerateSecret, TypeOK, IsRow
    <2>2. \A d \in Endpoints : IsRow(d) => endpoint[d].secret \in Nat
      BY <1>t, SecretsOfRows DEF Secrets
    <2>3. \A c \in Callers : IsRotation(c) => call[c].secret \in Nat
      BY <1>t DEF DrawnInv, IsRotation, Secrets
    <2>4. \A s \in retired : s \in Nat
      BY <1>t DEF TypeOK, Secrets
    <2>5. SecretInv'
      BY <2>1, <2>2, <2>3, <2>4 DEF SecretInv, IsRow, IsRotation
    <2> QED
      BY <2>1, <2>5 DEF SignInv
  <1>2. ASSUME NEW c \in Callers, NEW u \in Users, NEW e \in Endpoints,
               BeginUpdate(c, u, e) \/ BeginDelete(c, u, e)
        PROVE  SecretInv' /\ SignInv'
    <2>1. /\ UNCHANGED <<endpoint, secrets, retired, hold, late>>
          /\ \A d \in Callers : d # c => call'[d] = call[d]
          /\ call'[c].op # "rotate"
      BY <1>2, <1>t DEF BeginUpdate, BeginDelete, Begin, TypeOK
    <2>2. SecretInv'
      BY <2>1, SecretFrame DEF IsRow, IsRotation
    <2> QED
      BY <2>1, <2>2 DEF SignInv
  <1>3. ASSUME NEW c \in Callers, NEW u \in Users, NEW e \in Endpoints, BeginRotate(c, u, e)
        PROVE  SecretInv' /\ SignInv'
    <2>1. /\ UNCHANGED <<endpoint, retired, hold, late>>
          /\ secrets' = secrets + 1 /\ secrets \in Nat
          /\ \A d \in Callers : d # c => call'[d] = call[d]
          /\ call'[c].secret = secrets + 1
      BY <1>3, <1>t DEF BeginRotate, GenerateSecret, Begin, TypeOK
    <2>2. \A d \in Endpoints : IsRow(d) => endpoint[d].secret \in Nat
      BY <1>t, SecretsOfRows DEF Secrets
    <2>3. \A d \in Callers : IsRotation(d) => call[d].secret \in Nat
      BY <1>t DEF DrawnInv, IsRotation, Secrets
    <2>4. \A s \in retired : s \in Nat
      BY <1>t DEF TypeOK, Secrets
    <2>5. SecretInv'
      BY <2>1, <2>2, <2>3, <2>4 DEF SecretInv, IsRow, IsRotation
    <2> QED
      BY <2>1, <2>5 DEF SignInv
  <1>4. ASSUME NEW c \in Callers, NEW op \in {"update", "delete"}, NEW new \in Row,
               Commits(c, op, new), new.secret = endpoint[call[c].e].secret,
               UNCHANGED retired
        PROVE  SecretInv' /\ SignInv'
    <2>1. /\ endpoint[call[c].e] \in Row
          /\ endpoint' = [endpoint EXCEPT ![call[c].e] = new]
          /\ call' = [call EXCEPT ![c] = NoCall]
          /\ UNCHANGED <<hold, secrets, late>>
      BY <1>4, <1>t, CommitsTypes
    <2>2. SecretInv'
      BY <1>4, <1>t, <2>1, RowFields, SecretFrame DEF TypeOK, IsRow, IsRotation, NoCall
    <2> QED
      BY <1>4, <2>1, <2>2 DEF SignInv
  <1>5. ASSUME NEW c \in Callers, UpdateEndpoint(c)
        PROVE  SecretInv' /\ SignInv'
    <2> DEFINE k == call[c]
               new == Updated(endpoint[k.e], k)
    <2>1. Commits(c, "update", new) /\ UNCHANGED retired
      BY <1>5 DEF UpdateEndpoint
    <2>2. k # NoCall /\ endpoint[k.e] \in Row
      BY <1>t, <2>1, CommitsTypes
    <2>3. k.copy \in Row /\ k.patch \in Patches
      BY <1>t, <2>2, CallIsCall
    <2>4. new \in Row /\ new.secret = endpoint[k.e].secret
      BY <2>2, <2>3, UpdatedIsRow
    <2> HIDE DEF new
    <2> QED
      BY <1>4, <2>1, <2>4
  <1>6. ASSUME NEW c \in Callers, DeleteEndpoint(c)
        PROVE  SecretInv' /\ SignInv'
    <2> DEFINE new == Deleted(endpoint[call[c].e])
    <2>1. Commits(c, "delete", new) /\ UNCHANGED retired
      BY <1>6 DEF DeleteEndpoint
    <2>2. new \in Row /\ new.secret = endpoint[call[c].e].secret
      BY <1>t, <2>1, CommitsTypes, DeletedIsRow
    <2> HIDE DEF new
    <2> QED
      BY <1>4, <2>1, <2>2
  <1>7. ASSUME NEW c \in Callers, UpdateEndpointSecret(c)
        PROVE  SecretInv' /\ SignInv'
    <2> DEFINE k == call[c]
               new == Rotated(endpoint[k.e], k)
    <2>1. Commits(c, "rotate", new)
          /\ retired' = retired \cup {endpoint[k.e].secret}
      BY <1>7 DEF UpdateEndpointSecret
    <2>2. /\ IsRotation(c) /\ k # NoCall /\ endpoint[k.e] \in Row
          /\ endpoint' = [endpoint EXCEPT ![k.e] = new]
          /\ call' = [call EXCEPT ![c] = NoCall]
          /\ UNCHANGED <<hold, secrets, late>>
      BY <1>t, <2>1, CommitsTypes DEF Commits, IsRotation
    <2>3. k.e \in Endpoints /\ IsRow(k.e)
      BY <1>t, <2>2, CallIsCall, RowFields DEF IsRow
    <2>4. new.secret = k.secret
      BY <1>t, <2>2, RotatedIsRow DEF DrawnInv, IsRotation
    <2> HIDE DEF new
    <2>5. /\ \A d \in Endpoints : d # k.e => endpoint'[d] = endpoint[d]
          /\ endpoint'[k.e].secret = k.secret
      BY <1>t, <2>2, <2>3, <2>4 DEF TypeOK
    <2>6. /\ \A d \in Callers : d # c => call'[d] = call[d]
          /\ ~IsRotation(c)'
      BY <1>t, <2>2 DEF TypeOK, IsRotation, NoCall
    <2>7. SecretInv'
      BY <2>1, <2>2, <2>3, <2>5, <2>6 DEF SecretInv, IsRow, IsRotation
    <2> QED
      BY <2>1, <2>2, <2>7 DEF SignInv
  <1>8. ASSUME NEW c \in Callers, WriteFails(c)
        PROVE  SecretInv' /\ SignInv'
    <2>1. /\ UNCHANGED <<endpoint, secrets, retired, hold, late>>
          /\ call' = [call EXCEPT ![c] = NoCall]
      BY <1>8 DEF WriteFails
    <2>2. SecretInv'
      BY <1>t, <2>1, SecretFrame DEF TypeOK, IsRow, IsRotation, NoCall
    <2> QED
      BY <2>1, <2>2 DEF SignInv
  <1>9. ASSUME NEW w \in Workers, NEW e \in Endpoints, GetEndpoint(w, e)
        PROVE  SecretInv' /\ SignInv'
    <2>1. /\ UNCHANGED <<endpoint, call, secrets, retired, late>>
          /\ hold' = [hold EXCEPT ![w] = {endpoint[e]}]
      BY <1>9 DEF GetEndpoint
    <2>2. IsRow(e)
      BY <1>9 DEF GetEndpoint, IsActive, IsLive, IsRow, NoRow
    <2>3. endpoint[e].secret \notin retired
      BY <2>2 DEF SecretInv
    <2>4. SecretInv'
      BY <2>1, SecretFrame DEF IsRow, IsRotation
    <2> QED
      BY <1>t, <2>1, <2>3, <2>4 DEF TypeOK, SignInv
  <1>10. ASSUME NEW w \in Workers, Post(w)
         PROVE  SecretInv' /\ SignInv'
    <2>1. /\ UNCHANGED <<endpoint, call, secrets, retired>>
          /\ hold' = [hold EXCEPT ![w] = {}]
      BY <1>10 DEF Post
    <2>2. PICK r \in hold[w] : late' = IF r.secret \in retired
                   THEN [late EXCEPT ![w][r.secret] = @ + 1] ELSE late
      BY <1>10 DEF Post
    <2>3. r.secret \in Secrets
      BY <1>t, RowFields DEF TypeOK
    <2>4. late[w][r.secret] = 0
      <3>1. late[w][r.secret] \in Nat
        BY <1>t, <2>3 DEF TypeOK
      <3>2. ~(late[w][r.secret] > 0)
        BY <2>2, <2>3 DEF SignInv
      <3> QED
        BY <3>1, <3>2
    <2>5. SecretInv'
      BY <2>1, SecretFrame DEF IsRow, IsRotation
    <2> QED
      BY <1>t, <2>1, <2>2, <2>3, <2>4, <2>5 DEF TypeOK, SignInv
  <1>11. CASE UNCHANGED vars
    BY <1>11, SecretFrame DEF vars, SignInv, IsRow, IsRotation
  <1> QED
    BY <1>1, <1>2, <1>3, <1>5, <1>6, <1>7, <1>8, <1>9, <1>10, <1>11
    DEF Next, Request, Finish

\* A secret that a rotation has replaced is never an endpoint's secret again.
THEOREM RetiredCorrect == Spec => []RetiredStaysRetired
  <1>1. SecretInv => RetiredStaysRetired
    BY DEF SecretInv, RetiredStaysRetired, IsRow
  <1> QED
    BY TypeInit, TypeNext, SecretInit, SecretNext, <1>1, PTL DEF Spec

\* Each worker signs at most one POST with a secret after its rotation.
THEOREM SignedOnceCorrect == Spec => []RetiredSignsOnce
  <1>1. SignInv => RetiredSignsOnce
    BY DEF SignInv, RetiredSignsOnce
  <1> QED
    BY TypeInit, TypeNext, SecretInit, SecretNext, <1>1, PTL DEF Spec
-----------------------------------------------------------------------------
(* Fields and owners. *)

\* What a call remembers of an endpoint that no outdated PATCH has reached yet
\* is what had been asked for when it read the row.
CopyInv ==
    \A c \in Callers : call[c] # NoCall /\ call[c].e \notin overtaken =>
        call[c].seen = {FieldsOf(call[c].copy)}

\* A call is made by the owner of its endpoint, which stays the owner.
OwnerInv ==
    \A c \in Callers : call[c] # NoCall =>
        /\ endpoint[call[c].e] # NoRow
        /\ call[c].user = endpoint[call[c].e].user

FieldsInv == LostUpdateHasCause /\ CopyInv /\ OwnerInv

LEMMA FieldsInit == Init => FieldsInv
  BY DEF Init, FieldsInv, LostUpdateHasCause, CopyInv, OwnerInv

\* Only url and enabled of a copy matter to a PATCH.
LEMMA PatchedFields ==
    ASSUME NEW r \in Row, NEW p
    PROVE  Patched(FieldsOf(r), p) = Patched(r, p)
  BY DEF Patched, FieldsOf

LEMMA FieldsNext ==
    ASSUME TypeInv, FieldsInv, [Next]_vars
    PROVE  FieldsInv'
  <1>t. TypeOK /\ AskedInv /\ DrawnInv /\ TypeOK'
    BY TypeNext DEF TypeInv
  <1>f. LostUpdateHasCause /\ CopyInv /\ OwnerInv
    BY DEF FieldsInv
  <1>1. ASSUME NEW u \in Users, NEW e \in Endpoints, NEW url \in Urls, Create(u, e, url)
        PROVE  FieldsInv'
    <2>1. /\ \A d \in Endpoints : d # e => endpoint'[d] = endpoint[d] /\ asked'[d] = asked[d]
          /\ FieldsOf(endpoint'[e]) = [url |-> url, enabled |-> TRUE]
          /\ asked'[e] = {[url |-> url, enabled |-> TRUE]}
          /\ UNCHANGED <<call, overtaken>>
          /\ endpoint[e] = NoRow
      BY <1>1, <1>t DEF Create, TypeOK, FieldsOf
    <2>2. \A c \in Callers : call[c] # NoCall => call[c].e \in Endpoints
      BY <1>t, CallIsCall
    <2>3. LostUpdateHasCause'
      BY <1>f, <2>1 DEF LostUpdateHasCause, FieldsOf
    <2>4. OwnerInv'
      BY <1>f, <2>1, <2>2 DEF OwnerInv
    <2>5. CopyInv'
      BY <1>f, <2>1 DEF CopyInv
    <2> QED
      BY <2>3, <2>4, <2>5 DEF FieldsInv
  <1>2. ASSUME NEW c \in Callers, NEW u \in Users, NEW e \in Endpoints, NEW op,
               NEW p, NEW s, Begin(c, u, e, op, p, s)
        PROVE  FieldsInv'
    <2> DEFINE k == [op |-> op, user |-> u, e |-> e, copy |-> endpoint[e],
                     patch |-> p, secret |-> s, seen |-> asked[e]]
    <2>1. /\ call' = [call EXCEPT ![c] = k]
          /\ UNCHANGED <<endpoint, asked, overtaken>>
          /\ IsLive(e) /\ endpoint[e].user = u
      BY <1>2 DEF Begin, MayReach, ghosts
    <2>2. endpoint[e] # NoRow
      BY <2>1 DEF IsLive, NoRow
    <2>3. e \notin overtaken => asked[e] = {FieldsOf(endpoint[e])}
      BY <1>f, <2>2 DEF LostUpdateHasCause
    <2>4. CopyInv'
      BY <1>f, <1>t, <2>1, <2>3 DEF CopyInv, TypeOK
    <2>5. OwnerInv'
      BY <1>f, <1>t, <2>1, <2>2 DEF OwnerInv, TypeOK
    <2>6. LostUpdateHasCause'
      BY <1>f, <2>1 DEF LostUpdateHasCause
    <2> QED
      BY <2>4, <2>5, <2>6 DEF FieldsInv
  <1>3. ASSUME NEW c \in Callers, NEW u \in Users, NEW e \in Endpoints,
               BeginUpdate(c, u, e) \/ BeginDelete(c, u, e) \/ BeginRotate(c, u, e)
        PROVE  FieldsInv'
    BY <1>2, <1>3 DEF BeginUpdate, BeginDelete, BeginRotate
  <1>4. ASSUME NEW c \in Callers, NEW op \in {"update", "rotate", "delete"},
               NEW new \in Row, Commits(c, op, new),
               new.user = endpoint[call[c].e].user,
               overtaken \subseteq overtaken'
        PROVE  CopyInv' /\ OwnerInv'
    <2>1. /\ call[c] # NoCall /\ endpoint[call[c].e] \in Row
          /\ endpoint' = [endpoint EXCEPT ![call[c].e] = new]
          /\ call' = [call EXCEPT ![c] = NoCall]
      BY <1>4, <1>t, CommitsTypes
    <2>2. \A d \in Callers : call[d] # NoCall => call[d].e \in Endpoints
      BY <1>t, CallIsCall
    <2>3. \A d \in Callers : call'[d] # NoCall => call'[d] = call[d]
      BY <1>t, <2>1 DEF TypeOK
    <2>4. CopyInv'
      BY <1>4, <1>f, <2>3 DEF CopyInv
    <2>5. \A e \in Endpoints : endpoint[e] # NoRow =>
              endpoint'[e] # NoRow /\ endpoint'[e].user = endpoint[e].user
      BY <1>4, <1>t, <2>1, RowFields DEF TypeOK
    <2>6. OwnerInv'
      BY <1>f, <2>2, <2>3, <2>5 DEF OwnerInv
    <2> QED
      BY <2>4, <2>6
  <1>5. ASSUME NEW c \in Callers, UpdateEndpoint(c)
        PROVE  FieldsInv'
    <2> DEFINE k == call[c]
               new == Updated(endpoint[k.e], k)
    <2>1. Commits(c, "update", new)
          /\ asked' = [asked EXCEPT ![k.e] = {Patched(f, k.patch) : f \in @}]
          /\ overtaken' = IF asked[k.e] = k.seen THEN overtaken ELSE overtaken \cup {k.e}
      BY <1>5 DEF UpdateEndpoint
    <2>2. k # NoCall /\ endpoint[k.e] \in Row
          /\ endpoint' = [endpoint EXCEPT ![k.e] = new]
      BY <1>t, <2>1, CommitsTypes
    <2>3. k.e \in Endpoints /\ k.copy \in Row /\ k.patch \in Patches
      BY <1>t, <2>2, CallIsCall
    <2>4. /\ new \in Row /\ new.user = endpoint[k.e].user
          /\ FieldsOf(new) = Patched(k.copy, k.patch)
      BY <2>2, <2>3, UpdatedIsRow
    <2> HIDE DEF new
    <2>5. CopyInv' /\ OwnerInv'
      BY <1>4, <2>1, <2>4
    <2>6. ASSUME k.e \notin overtaken' PROVE asked'[k.e] = {FieldsOf(new)}
      <3>1. asked[k.e] = k.seen /\ k.e \notin overtaken
        BY <2>1, <2>6
      <3>2. asked[k.e] = {FieldsOf(k.copy)}
        BY <1>f, <2>2, <3>1 DEF CopyInv
      <3>3. asked'[k.e] = {Patched(FieldsOf(k.copy), k.patch)}
        BY <1>t, <2>1, <2>3, <3>2 DEF TypeOK
      <3> QED
        BY <2>3, <2>4, <3>3, PatchedFields
    <2>7. ASSUME NEW e \in Endpoints, endpoint'[e] # NoRow, e \notin overtaken'
          PROVE  asked'[e] = {FieldsOf(endpoint'[e])}
      <3>1. CASE e = k.e
        BY <1>t, <2>2, <2>6, <2>7, <3>1 DEF TypeOK
      <3>2. CASE e # k.e
        <4>1. endpoint'[e] = endpoint[e] /\ asked'[e] = asked[e] /\ e \notin overtaken
          BY <1>t, <2>1, <2>2, <2>7, <3>2 DEF TypeOK
        <4> QED
          BY <1>f, <2>7, <4>1 DEF LostUpdateHasCause
      <3> QED
        BY <3>1, <3>2
    <2>8. LostUpdateHasCause'
      BY <2>7 DEF LostUpdateHasCause, FieldsOf
    <2> QED
      BY <2>5, <2>8 DEF FieldsInv
  <1>6. ASSUME NEW c \in Callers, NEW op \in {"rotate", "delete"}, NEW new \in Row,
               Commits(c, op, new), UNCHANGED ghosts,
               new.user = endpoint[call[c].e].user,
               FieldsOf(new) = FieldsOf(endpoint[call[c].e])
        PROVE  FieldsInv'
    <2>1. endpoint[call[c].e] \in Row
          /\ endpoint' = [endpoint EXCEPT ![call[c].e] = new]
      BY <1>6, <1>t, CommitsTypes
    <2>2. CopyInv' /\ OwnerInv'
      BY <1>4, <1>6 DEF ghosts
    <2>3. \A e \in Endpoints : endpoint'[e] # NoRow =>
              endpoint[e] # NoRow /\ FieldsOf(endpoint'[e]) = FieldsOf(endpoint[e])
      BY <1>6, <1>t, <2>1, RowFields DEF TypeOK
    <2>4. LostUpdateHasCause'
      BY <1>6, <1>f, <2>3 DEF LostUpdateHasCause, ghosts, FieldsOf
    <2> QED
      BY <2>2, <2>4 DEF FieldsInv
  <1>7. ASSUME NEW c \in Callers, UpdateEndpointSecret(c)
        PROVE  FieldsInv'
    <2> DEFINE k == call[c]
               new == Rotated(endpoint[k.e], k)
    <2>1. Commits(c, "rotate", new) /\ UNCHANGED ghosts
      BY <1>7 DEF UpdateEndpointSecret
    <2>2. k.op = "rotate" /\ endpoint[k.e] \in Row
      BY <1>t, <2>1, CommitsTypes DEF Commits
    <2>3. /\ new \in Row /\ new.user = endpoint[k.e].user
          /\ FieldsOf(new) = FieldsOf(endpoint[k.e])
      BY <1>t, <2>2, RotatedIsRow DEF DrawnInv
    <2> HIDE DEF new
    <2> QED
      BY <1>6, <2>1, <2>3
  <1>8. ASSUME NEW c \in Callers, DeleteEndpoint(c)
        PROVE  FieldsInv'
    <2> DEFINE new == Deleted(endpoint[call[c].e])
    <2>1. Commits(c, "delete", new) /\ UNCHANGED ghosts
      BY <1>8 DEF DeleteEndpoint
    <2>2. /\ new \in Row /\ new.user = endpoint[call[c].e].user
          /\ FieldsOf(new) = FieldsOf(endpoint[call[c].e])
      BY <1>t, <2>1, CommitsTypes, DeletedIsRow
    <2> HIDE DEF new
    <2> QED
      BY <1>6, <2>1, <2>2
  <1>9. ASSUME NEW c \in Callers, WriteFails(c)
        PROVE  FieldsInv'
    <2>1. /\ UNCHANGED <<endpoint, asked, overtaken>>
          /\ call' = [call EXCEPT ![c] = NoCall]
      BY <1>9 DEF WriteFails, ghosts
    <2>2. \A d \in Callers : call'[d] # NoCall => call'[d] = call[d]
      BY <1>t, <2>1 DEF TypeOK
    <2> QED
      BY <1>f, <2>1, <2>2 DEF FieldsInv, LostUpdateHasCause, CopyInv, OwnerInv
  <1>10. ASSUME UNCHANGED <<endpoint, call, asked, overtaken>>
         PROVE  FieldsInv'
    BY <1>10, <1>f DEF FieldsInv, LostUpdateHasCause, CopyInv, OwnerInv
  <1>11. ASSUME NEW w \in Workers,
                Post(w) \/ \E e \in Endpoints : GetEndpoint(w, e)
         PROVE  FieldsInv'
    BY <1>10, <1>11 DEF Post, GetEndpoint, ghosts
  <1>12. CASE UNCHANGED vars
    BY <1>10, <1>12 DEF vars
  <1> QED
    BY <1>1, <1>3, <1>5, <1>7, <1>8, <1>9, <1>11, <1>12 DEF Next, Request, Finish

\* A field of an endpoint differs from what the committed calls asked for only
\* after a PATCH wrote back a copy that another PATCH had made outdated.
THEOREM LostUpdateCorrect == Spec => []LostUpdateHasCause
  <1>1. FieldsInv => LostUpdateHasCause
    BY DEF FieldsInv
  <1> QED
    BY TypeInit, TypeNext, FieldsInit, FieldsNext, <1>1, PTL DEF Spec

\* The statement of ChangedByOwner about one step.
ByOwner ==
    \A e \in Endpoints : endpoint[e] # NoRow /\ endpoint'[e] # endpoint[e] =>
        /\ IsLive(e)
        /\ \E c \in Callers :
              /\ call[c] # NoCall /\ call'[c] = NoCall
              /\ call[c].e = e /\ call[c].user = endpoint[e].user

LEMMA OwnerStep ==
    ASSUME TypeInv, FieldsInv, [Next]_vars
    PROVE  ByOwner
  <1>t. TypeOK
    BY DEF TypeInv
  <1>1. ASSUME NEW c \in Callers, NEW op \in {"update", "rotate", "delete"}, NEW new,
               Commits(c, op, new)
        PROVE  ByOwner
    <2>1. /\ call[c] # NoCall /\ IsLive(call[c].e)
          /\ endpoint' = [endpoint EXCEPT ![call[c].e] = new]
          /\ call' = [call EXCEPT ![c] = NoCall]
      BY <1>1, <1>t, CommitsTypes
    <2>2. \A e \in Endpoints : endpoint'[e] # endpoint[e] => e = call[c].e
      BY <1>t, <2>1 DEF TypeOK
    <2>3. call'[c] = NoCall
      BY <1>t, <2>1 DEF TypeOK
    <2>4. call[c].user = endpoint[call[c].e].user
      BY <2>1 DEF FieldsInv, OwnerInv
    <2> QED
      BY <2>1, <2>2, <2>3, <2>4 DEF ByOwner
  <1>2. ASSUME NEW u \in Users, NEW e \in Endpoints, NEW url \in Urls, Create(u, e, url)
        PROVE  ByOwner
    <2>1. \A d \in Endpoints : endpoint[d] # NoRow => endpoint'[d] = endpoint[d]
      BY <1>2, <1>t DEF Create, TypeOK
    <2> QED
      BY <2>1 DEF ByOwner
  <1>3. ASSUME UNCHANGED endpoint PROVE ByOwner
    BY <1>3 DEF ByOwner
  <1>4. ASSUME NEW c \in Callers, Finish(c) PROVE ByOwner
    BY <1>1, <1>3, <1>4 DEF Finish, UpdateEndpoint, UpdateEndpointSecret,
                            DeleteEndpoint, WriteFails
  <1>5. ASSUME NEW c \in Callers, NEW u \in Users, NEW e \in Endpoints,
               BeginUpdate(c, u, e) \/ BeginDelete(c, u, e) \/ BeginRotate(c, u, e)
        PROVE  ByOwner
    BY <1>3, <1>5 DEF BeginUpdate, BeginDelete, BeginRotate, Begin
  <1>6. ASSUME NEW w \in Workers, Post(w) \/ \E e \in Endpoints : GetEndpoint(w, e)
        PROVE  ByOwner
    BY <1>3, <1>6 DEF Post, GetEndpoint
  <1>7. CASE UNCHANGED vars
    BY <1>3, <1>7 DEF vars
  <1> QED
    BY <1>2, <1>4, <1>5, <1>6, <1>7 DEF Next, Request

\* No call of another user changes an endpoint, and none changes one that is
\* deleted, although both were checked in an earlier statement.
THEOREM ChangedByOwnerCorrect == Spec => ChangedByOwner
  <1>1. ASSUME TypeInv, FieldsInv, [Next]_vars
        PROVE  [ByOwner]_vars
    BY <1>1, OwnerStep
  <1> QED
    BY TypeInit, TypeNext, FieldsInit, FieldsNext, <1>1, PTL
    DEF Spec, ChangedByOwner, ByOwner
=============================================================================
