------------------------------ MODULE LinkTable ------------------------------
(***************************************************************************)
(* The table links as the management API sees it: concurrent POST /links   *)
(* calls that look for a free alias, DELETE, the changes of a link's       *)
(* status, and a client that lists the links page by page with a cursor    *)
(* while all this goes on.                                                 *)
(*                                                                         *)
(* Every SQL statement is one step.  All links have the owner "system".    *)
(* created_at is read from the clock of some instance before the INSERT    *)
(* commits: it is any time, also one the listing has already passed, and   *)
(* several links may share it.  The cache in front of the table is in      *)
(* LinkRedirect.                                                           *)
(***************************************************************************)
EXTENDS Naturals, FiniteSets

CONSTANTS
    Ids,              \* ids of rows, in their order
    Codes,            \* short codes
    Times,            \* created_at
    Statuses,         \* what Status() may say of a link that is not deleted
    Filters,          \* status and created_at filters of a listing
    Creators,         \* concurrent POST /links calls
    MaxAliasRetries,  \* maxAliasRetries
    Limit             \* the limit of the listing

ASSUME TableAssumption ==
    /\ Ids \subseteq Nat /\ IsFiniteSet(Ids)
    /\ Times \subseteq Nat
    /\ MaxAliasRetries \in Nat \ {0}
    /\ Limit \in Nat \ {0}
    /\ Filters \subseteq [status : Statuses \cup {"any"}, after : Nat, before : Nat]

VARIABLES
    row,      \* the table links
    call,     \* what each POST /links call is doing
    raced,    \* history: the code of the call was inserted after its check
    list,     \* the listing: its filter and where it is
    listed,   \* history: how often the listing has shown each link
    steady    \* history: links that have matched since the listing began

vars == <<row, call, raced, list, listed, steady>>

creating == <<call, raced>>
listing  == <<list, listed, steady>>
-----------------------------------------------------------------------------
\* What a deleted row contains no longer matters to any query.
NoRow   == [state |-> "absent"]
Deleted == [state |-> "deleted"]
LiveRow == [state : {"live"}, code : Codes, created : Times, status : Statuses]
Row     == LiveRow \cup {NoRow, Deleted}

NoCall == [step |-> "idle"]
Call   == {NoCall}
          \cup [step : {"alias"}, try : 1 .. MaxAliasRetries]
          \cup [step : {"insert"}, code : Codes, auto : BOOLEAN]

\* (created_at, id): the sort key of the listing.  Its cursor is a set of at
\* most one key; the first page has none.
Key      == [created : Times, id : Ids]
NoFilter == [status |-> "none"]
Listing  == [step : {"idle", "page", "end"}, filter : Filters \cup {NoFilter},
             cursor : {{}} \cup {{k} : k \in Key}]

IsLive(i) == row[i].state = "live"
KeyOf(i)  == [created |-> row[i].created, id |-> i]

\* PostgreSQL's comparison of the tuples: (created_at, id) < (..., ...).
Below(k1, k2) ==
    k1.created < k2.created \/ (k1.created = k2.created /\ k1.id < k2.id)

Init ==
    /\ row = [i \in Ids |-> NoRow]
    /\ call = [c \in Creators |-> NoCall]
    /\ raced = [c \in Creators |-> FALSE]
    /\ list = [step |-> "idle", filter |-> NoFilter, cursor |-> {}]
    /\ listed = [i \in Ids |-> 0]
    /\ steady = {}
-----------------------------------------------------------------------------
(* POST /links *)

Taken(code) == \E i \in Ids : IsLive(i) /\ row[i].code = code

Respond(c) ==
    /\ call' = [call EXCEPT ![c] = NoCall]
    /\ raced' = [raced EXCEPT ![c] = FALSE]

\* A request with an alias of its own, or without.
BeginCreate(c) ==
    /\ call[c] = NoCall
    /\ \/ call' = [call EXCEPT ![c] = [step |-> "alias", try |-> 1]]
       \/ \E code \in Codes :
             call' = [call EXCEPT ![c] = [step |-> "insert", code |-> code,
                                          auto |-> FALSE]]
    /\ UNCHANGED <<row, raced, listing>>

\* A mutant, used to test the properties: the alias is not looked up.
TakeRandomAlias(c) ==
    /\ call[c].step = "alias"
    /\ \E code \in Codes :
          call' = [call EXCEPT ![c] = [step |-> "insert", code |-> code, auto |-> TRUE]]
    /\ UNCHANGED <<row, raced, listing>>

\* generateUniqueAlias: a random alias that is free now, or the next try; the
\* last try and a failing query end in 500.
ShortCodeExists(c) ==
    /\ call[c].step = "alias"
    /\ \/ \E code \in Codes :
             \/ /\ ~Taken(code)
                /\ call' = [call EXCEPT ![c] = [step |-> "insert", code |-> code,
                                                auto |-> TRUE]]
                /\ UNCHANGED raced
             \/ /\ Taken(code) /\ call[c].try < MaxAliasRetries
                /\ call' = [call EXCEPT ![c].try = @ + 1]
                /\ UNCHANGED raced
             \/ /\ Taken(code) /\ call[c].try = MaxAliasRetries
                /\ Respond(c)
       \/ Respond(c)
    /\ UNCHANGED <<row, listing>>

\* The unique index on short_code, of the rows that are not deleted.
Inserts(code) == ~Taken(code)

\* The INSERT commits: 201, or 500 when its answer is lost.
InsertLink(c) ==
    /\ call[c].step = "insert"
    /\ Inserts(call[c].code)
    /\ \E i \in Ids, t \in Times, s \in Statuses \ {"disabled"} :
          /\ row[i] = NoRow
          /\ row' = [row EXCEPT ![i] = [state |-> "live", code |-> call[c].code,
                                        created |-> t, status |-> s]]
    /\ call' = [call EXCEPT ![c] = NoCall]
    /\ raced' = [d \in Creators |->
           IF d = c THEN FALSE
           ELSE raced[d] \/ (call[d].step = "insert" /\ call[d].code = call[c].code)]
    /\ UNCHANGED listing

\* It is refused by the index, 409, or fails, 500.
RefuseLink(c) ==
    /\ call[c].step = "insert"
    /\ Respond(c)
    /\ UNCHANGED <<row, listing>>
-----------------------------------------------------------------------------
(* The other writes. *)

Matches(r, f) ==
    /\ r.state = "live"
    /\ f.after <= r.created /\ r.created <= f.before
    /\ f.status \in {"any", r.status}

\* Those of a set that match the filter of the listing after the write.
StillMatching(S) == {i \in S : Matches(row'[i], list.filter)}

DeleteLink(i) ==
    /\ IsLive(i)
    /\ row' = [row EXCEPT ![i] = Deleted]
    /\ steady' = StillMatching(steady)
    /\ UNCHANGED <<creating, list, listed>>

\* PATCH and the passing of expires_at change what Status() says.
ChangeStatus(i, s) ==
    /\ IsLive(i)
    /\ row' = [row EXCEPT ![i].status = s]
    /\ steady' = StillMatching(steady)
    /\ UNCHANGED <<creating, list, listed>>
-----------------------------------------------------------------------------
(* GET /links *)

\* A client lists the links of a filter from the beginning.
BeginList(f) ==
    /\ list.step # "page"
    /\ list' = [step |-> "page", filter |-> f, cursor |-> {}]
    /\ listed' = [i \in Ids |-> 0]
    /\ steady' = {i \in Ids : Matches(row[i], f)}
    /\ UNCHANGED <<row, creating>>

\* A mutant, used to test the properties: (created_at, id) <= cursor.
FromCursorOn(i) == \A k \in list.cursor : ~Below(k, KeyOf(i))

\* A mutant, used to test the properties: created_at < the cursor's.
BeforeCursor(i) == \A k \in list.cursor : row[i].created < k.created

\* AND (created_at, id) < cursor, on every page but the first.
AfterCursor(i) == \A k \in list.cursor : Below(KeyOf(i), k)

\* WHERE deleted_at IS NULL AND ... AND created_at >= ... AND created_at <= ...
Selected ==
    {i \in Ids : /\ IsLive(i)
                 /\ list.filter.after <= row[i].created
                 /\ row[i].created <= list.filter.before
                 /\ AfterCursor(i)}

\* ORDER BY created_at DESC, id DESC LIMIT n
Top(n) ==
    {i \in Selected :
        Cardinality({j \in Selected : Below(KeyOf(i), KeyOf(j))}) < n}

\* Without the extra row that is fetched to see whether more follow.
Page == Top(Limit)

HasMore == Cardinality(Top(Limit + 1)) > Limit

\* The status filter is applied to the page that was cut.
Shown == {i \in Page : list.filter.status \in {"any", row[i].status}}

\* ListLinks: one page, and the cursor of the next if there is one.
ListLinks ==
    /\ list.step = "page"
    /\ listed' = [i \in Ids |-> IF i \in Shown THEN listed[i] + 1 ELSE listed[i]]
    /\ \/ /\ HasMore
          /\ \E last \in Page :
                /\ \A i \in Page \ {last} : Below(KeyOf(last), KeyOf(i))
                /\ list' = [list EXCEPT !.cursor = {KeyOf(last)}]
       \/ ~HasMore /\ list' = [list EXCEPT !.step = "end"]
    /\ UNCHANGED <<row, creating, steady>>
-----------------------------------------------------------------------------
Create(c) == BeginCreate(c) \/ ShortCodeExists(c) \/ InsertLink(c) \/ RefuseLink(c)

Next ==
    \/ \E c \in Creators : Create(c)
    \/ \E i \in Ids : DeleteLink(i) \/ \E s \in Statuses : ChangeStatus(i, s)
    \/ \E f \in Filters : BeginList(f)
    \/ ListLinks

Spec == Init /\ [][Next]_vars
-----------------------------------------------------------------------------
(* Properties. *)

\* Every variable has its type.
TypeOK ==
    /\ row \in [Ids -> Row]
    /\ call \in [Creators -> Call]
    /\ raced \in [Creators -> BOOLEAN]
    /\ list \in Listing
    /\ listed \in [Ids -> Nat]
    /\ steady \subseteq Ids

\* An alias that generateUniqueAlias has found free is only taken at the
\* INSERT if another call inserted it in between: a request without an alias
\* is answered 409 by a lost race alone.
ConflictIsRace ==
    \A c \in Creators :
        call[c].step = "insert" /\ call[c].auto /\ Taken(call[c].code) => raced[c]

\* A client that follows next_cursor sees no link twice, whatever is created,
\* deleted or changed between its pages.
ListedOnce == \A i \in Ids : listed[i] <= 1

\* ... and when has_more is false it has seen every link that matched its
\* filter all the time, also when a page was short or empty because its
\* links had another status.
ListingComplete ==
    list.step = "end" => \A i \in steady : listed[i] > 0

\* What makes both inductive: the listing has shown nothing below its cursor
\* and has missed nothing above it.
Passed(i) == \E k \in list.cursor : ~Below(KeyOf(i), k)

ListInv ==
    /\ ListedOnce
    /\ ListingComplete
    /\ list.step # "idle" =>
        /\ list.filter \in Filters
        /\ \A i \in steady : Matches(row[i], list.filter)
    /\ list.step = "page" =>
        /\ \A i \in steady : Passed(i) => listed[i] > 0
        /\ \A i \in Ids : listed[i] > 0 => row[i] # NoRow
        /\ \A i \in Ids : listed[i] > 0 /\ IsLive(i) => Passed(i)
=============================================================================
