-------------------------- MODULE LinkTableProofs --------------------------
(***************************************************************************)
(* Proofs about the table links: its types; that an alias found free is    *)
(* lost to a race alone; and that a client that follows the cursor sees no *)
(* link twice and misses none, for any number of rows, codes, calls and    *)
(* filters and for every page size.                                        *)
(***************************************************************************)
EXTENDS LinkTable, TLAPS, FiniteSetTheorems, WellFoundedInduction

-----------------------------------------------------------------------------
(* Types. *)

LEMMA TypeInit == Init => TypeOK
  BY DEF Init, TypeOK, Row, Call, Listing

\* A row that is live is one of the table.
LEMMA LiveIsRow ==
    ASSUME TypeOK, NEW i \in Ids, IsLive(i)
    PROVE  /\ row[i] \in LiveRow
           /\ row[i].code \in Codes /\ row[i].created \in Times
           /\ row[i].status \in Statuses
           /\ KeyOf(i) \in Key
  <1>1. row[i] \in LiveRow
    BY DEF TypeOK, Row, IsLive, NoRow, Deleted
  <1> QED
    BY <1>1 DEF LiveRow, KeyOf, Key

LEMMA InsertCall ==
    ASSUME TypeOK, NEW c \in Creators, call[c].step = "insert"
    PROVE  call[c].code \in Codes
  <1>1. call[c] \in Call
    BY DEF TypeOK
  <1> QED
    BY <1>1 DEF Call, NoCall

LEMMA AliasCall ==
    ASSUME TypeOK, NEW c \in Creators, call[c].step = "alias"
    PROVE  /\ call[c] \in [step : {"alias"}, try : 1 .. MaxAliasRetries]
           /\ call[c].try \in 1 .. MaxAliasRetries
  <1>1. call[c] \in Call
    BY DEF TypeOK
  <1> QED
    BY <1>1 DEF Call, NoCall

LEMMA RespondTypes ==
    ASSUME TypeOK, NEW c \in Creators, Respond(c)
    PROVE  call' \in [Creators -> Call] /\ raced' \in [Creators -> BOOLEAN]
  BY DEF TypeOK, Respond, Call

LEMMA TypeNext == TypeOK /\ [Next]_vars => TypeOK'
  <1> SUFFICES ASSUME TypeOK, [Next]_vars PROVE TypeOK'
    OBVIOUS
  <1> USE TableAssumption
  <1>1. ASSUME NEW c \in Creators, BeginCreate(c)
        PROVE  TypeOK'
    <2>1. [step |-> "alias", try |-> 1] \in Call
      BY DEF Call
    <2>2. \A code \in Codes : [step |-> "insert", code |-> code, auto |-> FALSE] \in Call
      BY DEF Call
    <2>3. call' \in [Creators -> Call]
      BY <1>1, <2>1, <2>2 DEF BeginCreate, TypeOK
    <2> QED
      BY <1>1, <2>3 DEF BeginCreate, listing, TypeOK
  <1>2. ASSUME NEW c \in Creators, ShortCodeExists(c)
        PROVE  TypeOK'
    <2>1. \A code \in Codes : [step |-> "insert", code |-> code, auto |-> TRUE] \in Call
      BY DEF Call
    <2>2. call[c] \in [step : {"alias"}, try : 1 .. MaxAliasRetries]
      BY <1>2, AliasCall DEF ShortCodeExists
    <2>3. call[c].try < MaxAliasRetries => [call[c] EXCEPT !.try = @ + 1] \in Call
      BY <2>2 DEF Call
    <2>4. /\ call' \in [Creators -> Call]
          /\ raced' \in [Creators -> BOOLEAN]
      BY <1>2, <2>1, <2>3, RespondTypes DEF ShortCodeExists, TypeOK
    <2> QED
      BY <1>2, <2>4 DEF ShortCodeExists, listing, TypeOK
  <1>3. ASSUME NEW c \in Creators, InsertLink(c)
        PROVE  TypeOK'
    <2>1. call[c].code \in Codes
      BY <1>3, InsertCall DEF InsertLink
    <2>2. row' \in [Ids -> Row]
      BY <1>3, <2>1 DEF InsertLink, TypeOK, Row, LiveRow
    <2>3. call' \in [Creators -> Call]
      BY <1>3 DEF InsertLink, TypeOK, Call
    <2>4. raced' \in [Creators -> BOOLEAN]
      BY <1>3, Zenon DEF InsertLink, TypeOK
    <2> QED
      BY <1>3, <2>2, <2>3, <2>4 DEF InsertLink, listing, TypeOK
  <1>4. ASSUME NEW c \in Creators, RefuseLink(c)
        PROVE  TypeOK'
    BY <1>4, RespondTypes DEF RefuseLink, listing, TypeOK
  <1>5. ASSUME NEW i \in Ids, DeleteLink(i)
        PROVE  TypeOK'
    BY <1>5 DEF DeleteLink, StillMatching, creating, TypeOK, Row
  <1>6. ASSUME NEW i \in Ids, NEW s \in Statuses, ChangeStatus(i, s)
        PROVE  TypeOK'
    <2>1. row[i] \in LiveRow
      BY <1>6, LiveIsRow DEF ChangeStatus
    <2>2. [row[i] EXCEPT !.status = s] \in LiveRow
      BY <2>1 DEF LiveRow
    <2>3. row' \in [Ids -> Row]
      BY <1>6, <2>2 DEF ChangeStatus, TypeOK, Row
    <2> QED
      BY <1>6, <2>3 DEF ChangeStatus, StillMatching, creating, TypeOK
  <1>7. ASSUME NEW f \in Filters, BeginList(f)
        PROVE  TypeOK'
    <2>1. list' \in Listing
      BY <1>7 DEF BeginList, Listing
    <2> QED
      BY <1>7, <2>1 DEF BeginList, creating, TypeOK
  <1>8. CASE ListLinks
    <2>1. listed' \in [Ids -> Nat]
      BY <1>8 DEF ListLinks, TypeOK
    <2>2. list \in Listing
      BY DEF TypeOK
    <2>3. list' \in Listing
      <3>1. CASE list' = [list EXCEPT !.step = "end"]
        BY <2>2, <3>1 DEF Listing
      <3>2. ASSUME NEW last \in Page, list' = [list EXCEPT !.cursor = {KeyOf(last)}]
            PROVE  list' \in Listing
        <4>1. KeyOf(last) \in Key
          BY <3>2, LiveIsRow DEF Page, Top, Selected
        <4> QED
          BY <2>2, <3>2, <4>1 DEF Listing
      <3> QED
        BY <1>8, <3>1, <3>2 DEF ListLinks
    <2> QED
      BY <1>8, <2>1, <2>3 DEF ListLinks, creating, TypeOK
  <1>9. CASE UNCHANGED vars
    BY <1>9 DEF vars, TypeOK
  <1> QED
    BY <1>1, <1>2, <1>3, <1>4, <1>5, <1>6, <1>7, <1>8, <1>9 DEF Next, Create

\* Every variable has its type.
THEOREM TypeCorrect == Spec => []TypeOK
  BY TypeInit, TypeNext, PTL DEF Spec
-----------------------------------------------------------------------------
(* Aliases. *)

LEMMA RaceInit == Init => ConflictIsRace
  BY DEF Init, ConflictIsRace, NoCall

\* A step that takes no code and brings no call to its INSERT.
LEMMA RaceFrame ==
    ASSUME ConflictIsRace,
           \A code : Taken(code)' => Taken(code),
           \A c \in Creators : call'[c].step = "insert" =>
               call'[c] = call[c] /\ raced'[c] = raced[c]
    PROVE  ConflictIsRace'
  BY DEF ConflictIsRace

LEMMA RaceNext ==
    ASSUME TypeOK, ConflictIsRace, [Next]_vars
    PROVE  ConflictIsRace'
  <1>r. ASSUME NEW c \in Creators, Respond(c), UNCHANGED row
        PROVE  ConflictIsRace'
    BY <1>r DEF Respond, TypeOK, ConflictIsRace, Taken, IsLive, NoCall
  <1>1. ASSUME NEW c \in Creators, BeginCreate(c)
        PROVE  ConflictIsRace'
    BY <1>1 DEF BeginCreate, TypeOK, ConflictIsRace, Taken, IsLive
  <1>2. ASSUME NEW c \in Creators, ShortCodeExists(c)
        PROVE  ConflictIsRace'
    <2>1. UNCHANGED row
      BY <1>2 DEF ShortCodeExists
    <2>2. CASE Respond(c)
      BY <1>r, <2>1, <2>2
    <2>3. ASSUME NEW code \in Codes, ~Taken(code), UNCHANGED raced,
                 call' = [call EXCEPT ![c] = [step |-> "insert", code |-> code,
                                              auto |-> TRUE]]
          PROVE  ConflictIsRace'
      BY <2>1, <2>3 DEF TypeOK, ConflictIsRace, Taken, IsLive
    <2>4. ASSUME call' = [call EXCEPT ![c].try = @ + 1], UNCHANGED raced
          PROVE  ConflictIsRace'
      <3>1. call[c].step = "alias"
        BY <1>2 DEF ShortCodeExists
      <3>2. call'[c].step = "alias"
        BY <2>4, <3>1, AliasCall DEF TypeOK
      <3> QED
        BY <2>1, <2>4, <3>2 DEF TypeOK, ConflictIsRace, Taken, IsLive
    <2> QED
      BY <1>2, <2>2, <2>3, <2>4 DEF ShortCodeExists
  <1>3. ASSUME NEW c \in Creators, InsertLink(c)
        PROVE  ConflictIsRace'
    <2>1. PICK i \in Ids, t \in Times, s \in Statuses :
              row' = [row EXCEPT ![i] = [state |-> "live", code |-> call[c].code,
                                         created |-> t, status |-> s]]
      BY <1>3 DEF InsertLink
    <2>2. \A code : Taken(code)' => Taken(code) \/ code = call[c].code
      <3> SUFFICES ASSUME NEW code, NEW j \in Ids, row'[j].state = "live",
                          row'[j].code = code
                   PROVE  Taken(code) \/ code = call[c].code
        BY DEF Taken, IsLive
      <3>1. CASE j = i
        BY <2>1, <3>1 DEF TypeOK
      <3>2. CASE j # i
        BY <2>1, <3>2 DEF TypeOK, Taken, IsLive
      <3> QED
        BY <3>1, <3>2
    <2>3. SUFFICES ASSUME NEW d \in Creators, call'[d].step = "insert", call'[d].auto,
                          Taken(call[d].code)'
                   PROVE  raced'[d]
      BY DEF ConflictIsRace
    <2>4. d # c /\ call'[d] = call[d]
      BY <1>3, <2>3 DEF InsertLink, TypeOK, NoCall
    <2>5. Taken(call[d].code) => raced[d]
      BY <2>3, <2>4 DEF ConflictIsRace
    <2>6. raced[d] \/ (call[d].step = "insert" /\ call[d].code = call[c].code)
          => raced'[d]
      BY <1>3, <2>4 DEF InsertLink
    <2> QED
      BY <2>2, <2>3, <2>4, <2>5, <2>6 DEF Taken, IsLive
  <1>4. ASSUME NEW c \in Creators, RefuseLink(c)
        PROVE  ConflictIsRace'
    BY <1>4, <1>r DEF RefuseLink
  <1>5. ASSUME NEW i \in Ids, DeleteLink(i)
        PROVE  ConflictIsRace'
    BY <1>5, RaceFrame DEF DeleteLink, creating, Taken, IsLive, TypeOK, Deleted
  <1>6. ASSUME NEW i \in Ids, NEW s \in Statuses, ChangeStatus(i, s)
        PROVE  ConflictIsRace'
    <2>1. row[i] \in LiveRow /\ row' = [row EXCEPT ![i].status = s]
      BY <1>6, LiveIsRow DEF ChangeStatus
    <2>2. row'[i].code = row[i].code
      BY <2>1 DEF LiveRow, TypeOK
    <2>3. \A code : Taken(code)' => Taken(code)
      BY <1>6, <2>1, <2>2 DEF Taken, IsLive, TypeOK, ChangeStatus
    <2> QED
      BY <1>6, <2>3, RaceFrame DEF ChangeStatus, creating
  <1>7. ASSUME UNCHANGED <<row, call, raced>>
        PROVE  ConflictIsRace'
    BY <1>7, RaceFrame DEF Taken, IsLive
  <1>8. ASSUME NEW f \in Filters, BeginList(f)
        PROVE  ConflictIsRace'
    BY <1>7, <1>8 DEF BeginList, creating
  <1>9. CASE ListLinks
    BY <1>7, <1>9 DEF ListLinks, creating
  <1>10. CASE UNCHANGED vars
    BY <1>7, <1>10 DEF vars
  <1> QED
    BY <1>1, <1>2, <1>3, <1>4, <1>5, <1>6, <1>8, <1>9, <1>10 DEF Next, Create

\* A request without an alias is answered 409 by a lost race alone.
THEOREM ConflictCorrect == Spec => []ConflictIsRace
  BY TypeInit, TypeNext, RaceInit, RaceNext, PTL DEF Spec
-----------------------------------------------------------------------------
(* Pages. *)

NatKey == [created : Nat, id : Nat]

\* The order of the listing is a strict total order of the keys.
LEMMA KeyOrder ==
    /\ \A a \in NatKey : ~Below(a, a)
    /\ \A a, b \in NatKey : Below(a, b) => ~Below(b, a)
    /\ \A a, b, c \in NatKey : Below(a, b) /\ Below(b, c) => Below(a, c)
    /\ \A a, b \in NatKey : Below(a, b) \/ Below(b, a) \/ a.id = b.id
  BY DEF NatKey, Below

LEMMA KeyIsNat ==
    ASSUME TypeOK, NEW i \in Ids, IsLive(i)
    PROVE  KeyOf(i) \in NatKey /\ KeyOf(i).id = i
  <1>1. row[i].created \in Times
    BY LiveIsRow
  <1> QED
    BY <1>1, TableAssumption DEF KeyOf, NatKey

LEMMA CursorIsNat ==
    ASSUME TypeOK, NEW k \in list.cursor
    PROVE  k \in NatKey /\ list.cursor = {k}
  <1>1. k \in Key /\ list.cursor = {k}
    BY DEF TypeOK, Listing
  <1> QED
    BY <1>1, TableAssumption DEF Key, NatKey

\* The rows that come before a row in the answer of the SELECT.
Above(i) == {j \in Selected : Below(KeyOf(i), KeyOf(j))}

LEMMA TopAbove ==
    ASSUME NEW n
    PROVE  Top(n) = {i \in Selected : Cardinality(Above(i)) < n}
  BY DEF Top, Above

LEMMA SelectedFinite ==
    /\ Selected \subseteq Ids /\ IsFiniteSet(Selected)
    /\ \A i \in Selected : IsLive(i)
    /\ \A i : Above(i) \subseteq Ids /\ IsFiniteSet(Above(i))
              /\ Cardinality(Above(i)) \in Nat
  <1>1. Selected \subseteq Ids /\ \A i \in Selected : IsLive(i)
    BY DEF Selected
  <1>2. IsFiniteSet(Selected)
    BY <1>1, TableAssumption, FS_Subset
  <1>3. ASSUME NEW i
        PROVE  Above(i) \subseteq Ids /\ IsFiniteSet(Above(i))
               /\ Cardinality(Above(i)) \in Nat
    <2>1. Above(i) \subseteq Selected
      BY DEF Above
    <2>2. IsFiniteSet(Above(i))
      BY <1>2, <2>1, FS_Subset
    <2> QED
      BY <1>1, <2>1, <2>2, FS_CardinalityType
  <1> QED
    BY <1>1, <1>2, <1>3

\* A row that comes before another has fewer rows before it.
LEMMA AboveShrinks ==
    ASSUME TypeOK, NEW i \in Selected, NEW j \in Above(i)
    PROVE  j \in Selected /\ Above(j) \subseteq Above(i) /\ j \notin Above(j)
  <1>1. j \in Selected /\ Below(KeyOf(i), KeyOf(j))
    BY DEF Above
  <1>2. \A x \in Selected : KeyOf(x) \in NatKey
    BY SelectedFinite, KeyIsNat
  <1>3. j \notin Above(j)
    BY <1>1, <1>2, KeyOrder DEF Above
  <1>4. ASSUME NEW x \in Above(j) PROVE x \in Above(i)
    <2>1. x \in Selected /\ Below(KeyOf(j), KeyOf(x))
      BY DEF Above
    <2>2. Below(KeyOf(i), KeyOf(x))
      BY <1>1, <1>2, <2>1, KeyOrder
    <2> QED
      BY <2>1, <2>2 DEF Above
  <1> QED
    BY <1>1, <1>3, <1>4

\* If the extra row is not there, the page is all that is left.
LEMMA LastPage ==
    ASSUME TypeOK, ~HasMore
    PROVE  Page = Selected
  <1> USE TableAssumption
  <1> DEFINE Beyond == Selected \ Top(Limit + 1)
             T == {Above(i) : i \in Beyond}
  <1>1. Top(Limit + 1) \subseteq Selected /\ IsFiniteSet(Top(Limit + 1))
    <2>1. Top(Limit + 1) \subseteq Selected
      BY DEF Top
    <2> QED
      BY <2>1, SelectedFinite, FS_Subset
  <1>2. Cardinality(Top(Limit + 1)) \in Nat /\ Cardinality(Top(Limit + 1)) <= Limit
    BY <1>1, FS_CardinalityType DEF HasMore
  <1>3. Beyond = {}
    <2> SUFFICES ASSUME Beyond # {} PROVE FALSE
      OBVIOUS
    <2>1. T # {} /\ T \subseteq FiniteSubsetsOf(Ids)
      BY SelectedFinite DEF FiniteSubsetsOf
    <2> HIDE DEF T
    <2>2. PICK A \in T : \A B \in T : <<B, A>> \notin StrictSubsetOrdering(Ids)
      BY <2>1, FS_StrictSubsetOrderingWellFounded, WFMin
    <2>3. PICK i \in Beyond : A = Above(i)
      BY DEF T
    <2>4. ASSUME NEW j \in Above(i) PROVE j \in Top(Limit + 1)
      <3>1. j \in Selected /\ Above(j) \subseteq Above(i) /\ j \notin Above(j)
        BY AboveShrinks
      <3>2. <<Above(j), Above(i)>> \in StrictSubsetOrdering(Ids)
        BY <3>1, SelectedFinite DEF StrictSubsetOrdering
      <3>3. Above(j) \notin T
        BY <2>2, <2>3, <3>2
      <3> QED
        BY <3>1, <3>3 DEF T
    <2>5. Cardinality(Above(i)) <= Cardinality(Top(Limit + 1))
      <3>1. Above(i) \in SUBSET Top(Limit + 1)
        BY <2>4
      <3> QED
        BY <1>1, <3>1, FS_Subset
    <2>6. ~(Cardinality(Above(i)) < Limit + 1)
      BY TopAbove
    <2> QED
      BY <1>2, <2>5, <2>6, SelectedFinite
  <1>4. Selected = Top(Limit + 1)
    BY <1>1, <1>3
  <1>5. ASSUME NEW i \in Selected PROVE Cardinality(Above(i)) < Limit
    <2>1. i \notin Above(i)
      BY SelectedFinite, KeyIsNat, KeyOrder DEF Above
    <2>2. Above(i) \in SUBSET (Selected \ {i})
      BY <2>1 DEF Above
    <2>3. IsFiniteSet(Selected \ {i}) /\ Cardinality(Selected \ {i}) = Cardinality(Selected) - 1
      BY SelectedFinite, FS_RemoveElement
    <2>4. Cardinality(Above(i)) <= Cardinality(Selected \ {i})
      BY <2>2, <2>3, FS_Subset
    <2> QED
      BY <1>2, <1>4, <2>3, <2>4, SelectedFinite
  <1> QED
    BY <1>5, TopAbove DEF Page

\* What comes before a row of the page is on the page.
LEMMA PageIsPrefix ==
    ASSUME TypeOK, NEW last \in Page, NEW i \in Selected,
           Below(KeyOf(last), KeyOf(i))
    PROVE  i \in Page
  <1> USE TableAssumption
  <1>1. last \in Selected /\ Cardinality(Above(last)) < Limit
    BY TopAbove DEF Page
  <1>2. i \in Above(last)
    BY DEF Above
  <1>3. Above(i) \in SUBSET Above(last)
    BY <1>1, <1>2, AboveShrinks
  <1>4. Cardinality(Above(i)) <= Cardinality(Above(last))
    BY <1>3, SelectedFinite, FS_Subset
  <1>5. Cardinality(Above(i)) < Limit
    BY <1>1, <1>4, SelectedFinite
  <1> QED
    BY <1>5, TopAbove DEF Page
-----------------------------------------------------------------------------
(* The listing. *)

LEMMA ListInit == Init => ListInv
  BY DEF Init, ListInv, ListedOnce, ListingComplete

\* A write that leaves the listing alone: rows that are new to it have not been
\* shown, and the others keep their key.
LEMMA ListFrame ==
    ASSUME TypeOK, ListInv, UNCHANGED <<list, listed>>,
           steady' \subseteq steady,
           \A i \in steady' : list.step # "idle" => Matches(row'[i], list.filter),
           \A i \in Ids : row[i] # NoRow => row'[i] # NoRow,
           \A i \in Ids : row[i] # NoRow /\ IsLive(i)' =>
               IsLive(i) /\ row'[i].created = row[i].created
    PROVE  ListInv'
  <1>1. ListedOnce' /\ ListingComplete'
    BY DEF ListInv, ListedOnce, ListingComplete
  <1>2. ASSUME NEW i \in Ids, row[i] # NoRow, IsLive(i)'
        PROVE  Passed(i)' <=> Passed(i)
    BY <1>2 DEF Passed, KeyOf
  <1>3. \A i \in steady : list.step # "idle" => IsLive(i) /\ row[i] # NoRow
    BY DEF ListInv, Matches, IsLive, NoRow
  <1>4. \A i \in steady' : list.step # "idle" => IsLive(i)'
    BY DEF Matches, IsLive
  <1>5. steady \subseteq Ids
    BY DEF TypeOK
  <1>6. list.step = "page" => \A i \in steady' : Passed(i)' => listed[i] > 0
    BY <1>2, <1>3, <1>4, <1>5 DEF ListInv
  <1>7. list.step = "page" =>
            /\ \A i \in Ids : listed[i] > 0 => row'[i] # NoRow
            /\ \A i \in Ids : listed[i] > 0 /\ IsLive(i)' => Passed(i)'
    BY <1>2 DEF ListInv
  <1> QED
    BY <1>1, <1>6, <1>7 DEF ListInv

\* One page: what is on it has not been shown before, and with it everything
\* down to its last row has been.
LEMMA PageStep ==
    ASSUME TypeOK, ListInv, ListLinks
    PROVE  ListInv'
  <1>p. list.step = "page"
    BY DEF ListLinks
  <1>u. /\ UNCHANGED <<row, steady>>
        /\ listed' = [i \in Ids |-> IF i \in Shown THEN listed[i] + 1 ELSE listed[i]]
    BY DEF ListLinks
  <1>n. \A i \in Ids : listed[i] \in Nat
    BY DEF TypeOK
  <1>s. steady \subseteq Ids
    BY DEF TypeOK
  <1>1. Shown \subseteq Page /\ Page \subseteq Selected
    BY DEF Shown, Page, Top
  <1>2. \A i \in Selected : IsLive(i) /\ i \in Ids /\ AfterCursor(i)
    BY DEF Selected
  <1>3. \A i \in Selected : ~Passed(i)
    BY <1>2 DEF AfterCursor, Passed
  <1>4. \A i \in Shown : listed[i] = 0
    BY <1>n, <1>p, <1>1, <1>2, <1>3 DEF ListInv
  <1>5. ListedOnce'
    BY <1>n, <1>u, <1>4 DEF ListInv, ListedOnce
  <1>6. ASSUME NEW i \in steady
        PROVE  /\ Matches(row[i], list.filter) /\ IsLive(i)
               /\ ~Passed(i) => i \in Selected
               /\ i \in Page => i \in Shown
               /\ Passed(i) \/ i \in Shown => listed'[i] > 0
    <2>1. Matches(row[i], list.filter)
      BY <1>p DEF ListInv
    <2>2. ~Passed(i) => i \in Selected
      BY <1>s, <2>1 DEF Passed, AfterCursor, Selected, Matches, IsLive
    <2>3. i \in Page => i \in Shown
      BY <2>1 DEF Shown, Matches
    <2>4. Passed(i) \/ i \in Shown => listed'[i] > 0
      BY <1>n, <1>p, <1>s, <1>u DEF ListInv
    <2> QED
      BY <2>1, <2>2, <2>3, <2>4 DEF Matches, IsLive
  <1>7. CASE ~HasMore /\ list' = [list EXCEPT !.step = "end"]
    <2>1. Page = Selected
      BY <1>7, LastPage
    <2>2. \A i \in steady : listed'[i] > 0
      BY <1>6, <2>1
    <2>3. list'.step = "end" /\ list'.filter = list.filter
      BY <1>7 DEF TypeOK, Listing
    <2> QED
      BY <1>p, <1>u, <1>5, <2>2, <2>3 DEF ListInv, ListingComplete
  <1>8. ASSUME NEW last \in Page,
               \A i \in Page \ {last} : Below(KeyOf(last), KeyOf(i)),
               list' = [list EXCEPT !.cursor = {KeyOf(last)}]
        PROVE  ListInv'
    <2>1. list'.step = "page" /\ list'.filter = list.filter /\ list'.cursor = {KeyOf(last)}
      BY <1>8, <1>p DEF TypeOK, Listing
    <2>2. last \in Selected /\ last \in Ids /\ IsLive(last)
      BY <1>1, <1>2
    <2>3. \A i \in Ids : Passed(i)' <=> ~Below(KeyOf(i), KeyOf(last))
      BY <1>u, <2>1 DEF Passed, KeyOf
    <2>4. \A i \in Ids : IsLive(i) => KeyOf(i) \in NatKey /\ KeyOf(i).id = i
      BY KeyIsNat
    <2>5. ASSUME NEW i \in steady, Passed(i)' PROVE listed'[i] > 0
      <3>1. CASE Passed(i)
        BY <1>6, <3>1
      <3>2. CASE ~Passed(i)
        <4>1. i \in Selected /\ IsLive(i) /\ i \in Ids
          BY <1>6, <1>s, <3>2
        <4>2. i = last \/ Below(KeyOf(last), KeyOf(i))
          BY <2>2, <2>3, <2>4, <2>5, <4>1, KeyOrder
        <4>3. i \in Page
          BY <1>8, <4>1, <4>2, PageIsPrefix
        <4> QED
          BY <1>6, <4>3
      <3> QED
        BY <3>1, <3>2
    <2>6. ASSUME NEW i \in Ids, listed'[i] > 0
          PROVE  row'[i] # NoRow /\ (IsLive(i) => Passed(i)')
      <3>1. CASE i \in Shown
        <4>1. i \in Page /\ IsLive(i)
          BY <1>1, <1>2, <3>1
        <4>2. ~Below(KeyOf(i), KeyOf(last))
          BY <1>8, <2>2, <2>4, <4>1, KeyOrder
        <4> QED
          BY <1>u, <2>3, <4>1, <4>2 DEF IsLive, NoRow
      <3>2. CASE i \notin Shown
        <4>1. listed[i] > 0
          BY <1>u, <2>6, <3>2
        <4>2. row[i] # NoRow /\ (IsLive(i) => Passed(i))
          BY <1>p, <4>1 DEF ListInv
        <4>3. ASSUME IsLive(i) PROVE Passed(i)'
          <5>1. PICK k \in list.cursor : ~Below(KeyOf(i), k)
            BY <4>2, <4>3 DEF Passed
          <5>2. Below(KeyOf(last), k)
            BY <1>2, <2>2 DEF AfterCursor
          <5>3. k \in NatKey
            BY CursorIsNat
          <5>4. ~Below(KeyOf(i), KeyOf(last))
            BY <2>2, <2>4, <4>3, <5>1, <5>2, <5>3, KeyOrder
          <5> QED
            BY <2>3, <5>4
        <4> QED
          BY <1>u, <4>2, <4>3
      <3> QED
        BY <3>1, <3>2
    <2>7. ListingComplete'
      BY <2>1 DEF ListingComplete
    <2>8. \A i \in steady' : Matches(row'[i], list'.filter)
      BY <1>6, <1>u, <2>1
    <2>9. list'.filter \in Filters
      BY <1>p, <2>1 DEF ListInv
    <2>10. \A i \in Ids : IsLive(i)' <=> IsLive(i)
      BY <1>u DEF IsLive
    <2> QED
      BY <1>5, <1>u, <2>1, <2>5, <2>6, <2>7, <2>8, <2>9, <2>10 DEF ListInv
  <1> QED
    BY <1>7, <1>8 DEF ListLinks

LEMMA ListNext ==
    ASSUME TypeOK, ListInv, [Next]_vars
    PROVE  ListInv'
  <1>i. \A i \in steady : list.step # "idle" => Matches(row[i], list.filter)
    BY DEF ListInv
  <1>s. steady \subseteq Ids
    BY DEF TypeOK
  <1>1. ASSUME UNCHANGED <<row, list, listed, steady>>
        PROVE  ListInv'
    BY <1>1, <1>i, ListFrame DEF IsLive
  <1>2. ASSUME NEW c \in Creators,
               BeginCreate(c) \/ ShortCodeExists(c) \/ RefuseLink(c)
        PROVE  ListInv'
    BY <1>1, <1>2 DEF BeginCreate, ShortCodeExists, RefuseLink, listing
  <1>3. ASSUME NEW c \in Creators, InsertLink(c)
        PROVE  ListInv'
    <2>1. PICK i \in Ids, t \in Times, s \in Statuses :
              /\ row[i] = NoRow
              /\ row' = [row EXCEPT ![i] = [state |-> "live", code |-> call[c].code,
                                            created |-> t, status |-> s]]
      BY <1>3 DEF InsertLink
    <2>2. \A j \in Ids : row[j] # NoRow => row'[j] = row[j]
      BY <2>1 DEF TypeOK
    <2>3. UNCHANGED <<list, listed, steady>>
      BY <1>3 DEF InsertLink, listing
    <2>4. \A j \in steady : list.step # "idle" => row[j] # NoRow
      BY <1>i DEF Matches, NoRow
    <2> QED
      BY <1>i, <1>s, <2>2, <2>3, <2>4, ListFrame DEF IsLive
  <1>4. ASSUME NEW i \in Ids, DeleteLink(i)
        PROVE  ListInv'
    <2>1. /\ row' = [row EXCEPT ![i] = Deleted]
          /\ steady' = StillMatching(steady)
          /\ UNCHANGED <<list, listed>>
      BY <1>4 DEF DeleteLink
    <2>2. \A j \in Ids : row[j] # NoRow => row'[j] # NoRow
      BY <2>1 DEF TypeOK, NoRow, Deleted
    <2>3. \A j \in Ids : IsLive(j)' => row'[j] = row[j]
      BY <2>1 DEF TypeOK, IsLive, Deleted
    <2> QED
      BY <2>1, <2>2, <2>3, ListFrame DEF StillMatching, IsLive
  <1>5. ASSUME NEW i \in Ids, NEW s \in Statuses, ChangeStatus(i, s)
        PROVE  ListInv'
    <2>1. /\ IsLive(i)
          /\ row' = [row EXCEPT ![i].status = s]
          /\ steady' = StillMatching(steady)
          /\ UNCHANGED <<list, listed>>
      BY <1>5 DEF ChangeStatus
    <2>2. row[i] \in LiveRow
      BY <2>1, LiveIsRow
    <2>3. row'[i].state = "live" /\ row'[i].created = row[i].created
      BY <2>1, <2>2 DEF TypeOK, LiveRow
    <2>4. \A j \in Ids : j # i => row'[j] = row[j]
      BY <2>1 DEF TypeOK
    <2>5. \A j \in Ids : row[j] # NoRow => row'[j] # NoRow
      BY <2>3, <2>4 DEF NoRow
    <2>6. \A j \in Ids : IsLive(j)' => IsLive(j) /\ row'[j].created = row[j].created
      BY <2>1, <2>3, <2>4 DEF IsLive
    <2> QED
      BY <2>1, <2>5, <2>6, ListFrame DEF StillMatching
  <1>6. ASSUME NEW f \in Filters, BeginList(f)
        PROVE  ListInv'
    <2>1. /\ list' = [step |-> "page", filter |-> f, cursor |-> {}]
          /\ listed' = [i \in Ids |-> 0]
          /\ steady' = {i \in Ids : Matches(row[i], f)}
          /\ UNCHANGED row
      BY <1>6 DEF BeginList
    <2>2. \A i \in Ids : ~Passed(i)'
      BY <2>1 DEF Passed
    <2> QED
      BY <2>1, <2>2 DEF ListInv, ListedOnce, ListingComplete
  <1>7. CASE ListLinks
    BY <1>7, PageStep
  <1>8. CASE UNCHANGED vars
    BY <1>1, <1>8 DEF vars
  <1> QED
    BY <1>2, <1>3, <1>4, <1>5, <1>6, <1>7, <1>8 DEF Next, Create

\* Whatever is created, deleted or changed between its pages, a client that
\* follows next_cursor sees no link twice.
THEOREM ListedOnceCorrect == Spec => []ListedOnce
  <1>1. ListInv => ListedOnce
    BY DEF ListInv
  <1> QED
    BY TypeInit, TypeNext, ListInit, ListNext, <1>1, PTL DEF Spec

\* ... and at the end it has seen every link that matched all the time.
THEOREM CompleteCorrect == Spec => []ListingComplete
  <1>1. ListInv => ListingComplete
    BY DEF ListInv
  <1> QED
    BY TypeInit, TypeNext, ListInit, ListNext, <1>1, PTL DEF Spec
=============================================================================
