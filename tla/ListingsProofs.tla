--------------------------- MODULE ListingsProofs ---------------------------
(***************************************************************************)
(* For any rows, lists and page sizes, and any number of changes between   *)
(* pages: an entry that stays in a list is served once, in order.  The     *)
(* argument: what was served is up to the cursor, what is listed and was   *)
(* not served is after it, and the next page is the start of what follows. *)
(***************************************************************************)
EXTENDS Listings, TLAPS

UpToCursor == \A c \in cursor, p \in served \union page :
                p = Decode(list, c.at) \/ Before(list, p, Decode(list, c.at))
OwnCursor  == \A c \in cursor : /\ c.context = list
                                /\ Decode(list, c.at) \in Position
                                /\ list \in Positive => c.at[1] > 0
                                /\ \A d \in cursor : d = c

\* The inductive invariant.
IInv == /\ TypeOK
        /\ steady \subseteq Entries(list, rows)
        /\ UpToCursor
        /\ OwnCursor
        /\ NoneSkipped
        /\ ServedOnce

-----------------------------------------------------------------------------
\* Positions of one list are strictly ordered.
LEMMA OrderedPositions ==
  ASSUME NEW l, NEW p \in Position, NEW q \in Position
  PROVE  /\ ~(Before(l, p, q) /\ Before(l, q, p))
         /\ \A r \in Position : Before(l, p, q) /\ Before(l, q, r) => Before(l, p, r)
  BY SMT DEF Before, Follows, Position

\* The entries of a list are positions, and those of a list by numbers are positive once encoded.
LEMMA EntriesAreEncodable ==
  ASSUME NEW l \in Lists, NEW t \in Tables, NEW p \in Entries(l, t)
  PROVE  /\ p \in Position
         /\ Encode(l, p) \in Position
         /\ Decode(l, Encode(l, p)) = p
         /\ l \in Positive => Encode(l, p)[1] > 0
<1> DEFINE kept == {i \in DOMAIN t : t[i].shown}
<1>1. PICK S \in SUBSET Ids : t \in [S -> Row]
  BY DEF Tables
<1>2. \A i \in kept : i \in Nat \ {0} /\ t[i].value \in Nat /\ t[i].group \in Nat
  BY <1>1, ListingConstants DEF Row
<1> HIDE DEF kept
<1>3. CASE l \in {"latest operations", "operations by value", "events", "categories", "budget history"}
  <2>1. PICK i \in kept : p = <<t[i].value, i, 0>>
    BY <1>3 DEF Entries, Operations, Events, Categories, History, ValueThenId, kept
  <2> QED BY <1>2, <1>3, <2>1 DEF Position, Encode, Decode, Positive
<1>4. CASE l \in {"event dates", "pending dates"}
  <2>1. PICK i \in kept : \E d \in DatesOf(t[i]) : p = <<d, i, 0>>
    BY <1>4 DEF Entries, EventDates, PendingDates, kept
  <2>2. PICK d \in DatesOf(t[i]) : p = <<d, i, 0>>
    BY <2>1
  <2>3. d \in Nat
    BY <1>2, <2>2 DEF DatesOf
  <2> QED BY <1>2, <1>4, <2>2, <2>3 DEF Position, Encode, Decode, Positive
<1>5. CASE l = "resolutions"
  <2>1. PICK i \in kept : p = <<t[i].value, t[i].group, i>>
    BY <1>5 DEF Entries, Resolutions, kept
  <2> QED BY <1>2, <1>5, <2>1 DEF Position, Encode, Decode, Positive
<1>6. CASE l = "titles"
  <2>1. PICK i \in kept : p = <<t[i].value, 0, 0>>
    BY <1>6 DEF Entries, Titles, kept
  <2> QED BY <1>2, <1>6, <2>1 DEF Position, Encode, Decode, Positive
<1>7. CASE l = "envelope sources"
  <2>1. PICK i \in kept : p = <<t[i].group, 0, 0>> /\ t[i].group # 0
    BY <1>7 DEF Entries, EnvelopeSources, kept
  <2>2. Encode(l, p) = p /\ Decode(l, p) = p
    BY <1>7 DEF Encode, Decode
  <2> QED BY <1>2, <2>1, <2>2 DEF Position
<1>8. CASE l = "envelope categories"
  <2>1. PICK i \in kept : p = <<t[i].group, 0, 0>>
    BY <1>8 DEF Entries, EnvelopeCategories, kept
  <2>2. Encode(l, p) = <<t[i].group + 1, 0, 0>>
    BY <1>8, <2>1 DEF Encode
  <2>3. \A q : Decode(l, q) = <<q[1] - 1, 0, 0>>
    BY <1>8 DEF Decode
  <2> QED BY <1>2, <2>1, <2>2, <2>3 DEF Position
<1>9. CASE l \in {"envelopes", "plans of a month", "payments of a plan", "plans for a payment",
                    "eligible rows", "fixed rows of a month", "goals", "fixed operations", "users"}
  <2>1. PICK i \in kept : p = <<i, 0, 0>>
    BY <1>9 DEF Entries, Identifiers, Envelopes, MonthPlans, PlanPayments, Suggestions, Eligible,
                FixedMonth, Goals, FixedOperations, Users, kept
  <2>2. Encode(l, p) = p /\ Decode(l, p) = p
    BY <1>9 DEF Encode, Decode
  <2> QED BY <1>2, <2>1, <2>2 DEF Position
<1> QED BY <1>3, <1>4, <1>5, <1>6, <1>7, <1>8, <1>9, ListingConstants DEF Ascending, Descending

-----------------------------------------------------------------------------
\* A served page is a start of what follows, and its cursor is its last entry.
LEMMA PageServed ==
  ASSUME TypeOK, NEW l \in Lists, NEW n, NEW C, Serve(l, C, n)
  PROVE  /\ page' \subseteq Rest(l, rows, C)
         /\ \A p \in page', q \in Rest(l, rows, C) \ page' : Before(l, p, q)
         /\ ended' = (page' = Rest(l, rows, C))
         /\ \A c \in cursor' : /\ c \in Cursor
                               /\ c.context = l
                               /\ Decode(l, c.at) \in page'
                               /\ \A p \in page' : p = Decode(l, c.at) \/ Before(l, p, Decode(l, c.at))
                               /\ l \in Positive => c.at[1] > 0
                               /\ \A d \in cursor' : d = c
<1>1. PICK P : /\ IsStart(l, P, Rest(l, rows, C), n)
               /\ page' = P
               /\ cursor' = NextCursor(l, P, Rest(l, rows, C))
               /\ ended' = (P = Rest(l, rows, C))
  BY DEF Serve
<1>2. /\ P \subseteq Rest(l, rows, C)
      /\ \A p \in P, q \in Rest(l, rows, C) \ P : Before(l, p, q)
  BY <1>1 DEF IsStart
<1>3. \A p \in P : /\ p \in Position /\ Encode(l, p) \in Position
                   /\ Decode(l, Encode(l, p)) = p
                   /\ l \in Positive => Encode(l, p)[1] > 0
  BY <1>2, EntriesAreEncodable DEF Rest, TypeOK
<1>4. ASSUME NEW c \in cursor'
      PROVE  \E m \in P : c = [context |-> l, at |-> Encode(l, m)] /\ \A q \in P \ {m} : Before(l, q, m)
  BY <1>1 DEF NextCursor
<1>5. ASSUME NEW c \in cursor'
      PROVE  /\ c \in Cursor /\ c.context = l
             /\ Decode(l, c.at) \in P
             /\ \A p \in P : p = Decode(l, c.at) \/ Before(l, p, Decode(l, c.at))
             /\ l \in Positive => c.at[1] > 0
             /\ \A d \in cursor' : d = c
  <2>1. PICK m \in P : c = [context |-> l, at |-> Encode(l, m)] /\ \A q \in P \ {m} : Before(l, q, m)
    BY <1>4
  <2>2. \A d \in cursor' : d = c
    <3> TAKE d \in cursor'
    <3>1. PICK k \in P : d = [context |-> l, at |-> Encode(l, k)] /\ \A q \in P \ {k} : Before(l, q, k)
      BY <1>4
    <3>2. k = m
      BY <1>3, <2>1, <3>1, OrderedPositions
    <3> QED BY <2>1, <3>1, <3>2
  <2>3. c \in Cursor
    BY <1>3, <2>1, ListingConstants DEF Cursor
  <2> QED BY <1>3, <2>1, <2>2, <2>3
<1> QED BY <1>1, <1>2, <1>5

-----------------------------------------------------------------------------
LEMMA InitInvariant == Init => IInv
<1> SUFFICES ASSUME Init PROVE IInv
  OBVIOUS
<1>1. TypeOK
  <2>1. ended \in BOOLEAN /\ refused \in BOOLEAN
    BY Zenon DEF Init
  <2>2. changes \in 0 .. MaxChanges
    BY ListingConstants DEF Init
  <2> QED BY <2>1, <2>2, ListingConstants DEF Init, TypeOK
<1>2. UpToCursor /\ OwnCursor /\ NoneSkipped /\ ServedOnce
  BY DEF Init, UpToCursor, OwnCursor, NoneSkipped, ServedOnce
<1> QED BY <1>1, <1>2 DEF Init, IInv

LEMMA FirstPageKeeps ==
  ASSUME IInv, NEW l \in Lists, NEW n, FirstPage(l, n)
  PROVE  IInv'
<1>1. Serve(l, {}, n) /\ list' = l /\ served' = {} /\ steady' = Entries(l, rows)
      /\ refused' = FALSE /\ UNCHANGED <<rows, changes>>
  BY DEF FirstPage
<1>2. TypeOK
  BY DEF IInv
<1>3. Rest(l, rows, {}) = Entries(l, rows)
  BY DEF Rest
<1>4. Entries(l, rows) \subseteq Position
  BY <1>2, EntriesAreEncodable DEF TypeOK
<1>5. TypeOK'
  <2>1. page' \subseteq Position /\ cursor' \subseteq Cursor
    BY <1>1, <1>2, <1>3, <1>4, PageServed
  <2>2. ended' \in BOOLEAN /\ refused' \in BOOLEAN
    BY <1>1, <1>2, PageServed, Zenon
  <2> QED BY <1>1, <1>2, <1>4, <2>1, <2>2 DEF TypeOK
<1>6. UpToCursor' /\ ServedOnce'
  BY <1>1, <1>2, PageServed DEF UpToCursor, ServedOnce
<1>7. OwnCursor'
  BY <1>1, <1>2, <1>3, <1>4, PageServed DEF OwnCursor
<1>8. NoneSkipped'
  <2> SUFFICES ASSUME NEW p \in steady' \ (served' \union page')
               PROVE  ~ended' /\ (cursor' = {} \/ \E c \in cursor' : Before(list', Decode(list', c.at), p))
    BY <1>1 DEF NoneSkipped
  <2>1. p \in Rest(l, rows, {}) \ page'
    BY <1>1, <1>3
  <2> QED BY <1>1, <1>2, <2>1, PageServed
<1> QED BY <1>1, <1>5, <1>6, <1>7, <1>8 DEF IInv

LEMMA NextPageKeeps ==
  ASSUME IInv, NEW l \in Lists, NEW n, NextPage(l, n)
  PROVE  IInv'
<1>1. TypeOK /\ cursor # {} /\ UNCHANGED <<rows, changes>>
  BY DEF IInv, NextPage
<1>2. CASE \A c \in cursor : Accepts(l, c)
  <2>1. l = list
    BY <1>1, <1>2 DEF IInv, OwnCursor, Accepts
  <2>2. /\ Serve(l, cursor, n) /\ list' = list /\ served' = served \union page
        /\ steady' = steady /\ refused' = refused
    BY <1>2, <2>1 DEF NextPage
  <2>3. PICK c \in cursor : TRUE
    BY <1>1
  <2>4. /\ Decode(l, c.at) \in Position
        /\ Rest(l, rows, cursor) = {p \in Entries(l, rows) : Before(l, Decode(l, c.at), p)}
    BY <2>1, <2>3 DEF IInv, OwnCursor, Rest
  <2>5. Entries(l, rows) \subseteq Position
    BY <1>1, EntriesAreEncodable DEF TypeOK
  <2>6. page' \subseteq Position /\ served' \subseteq Position
    BY <1>1, <2>2, <2>4, <2>5, PageServed DEF TypeOK
  <2>7. TypeOK'
    BY <1>1, <2>2, <2>6, PageServed DEF TypeOK
  <2>8. ServedOnce'
    <3> SUFFICES ASSUME NEW p \in served', NEW q \in page'
                 PROVE  Before(list', p, q)
      BY DEF ServedOnce
    <3>1. p = Decode(l, c.at) \/ Before(l, p, Decode(l, c.at))
      BY <2>1, <2>2, <2>3 DEF IInv, UpToCursor
    <3>2. Before(l, Decode(l, c.at), q)
      BY <1>1, <2>2, <2>4, PageServed
    <3> QED BY <2>1, <2>2, <2>4, <2>6, <3>1, <3>2, OrderedPositions
  <2>9. UpToCursor'
    BY <1>1, <2>1, <2>2, <2>8, PageServed DEF UpToCursor, ServedOnce
  <2>10. OwnCursor'
    BY <1>1, <2>1, <2>2, <2>6, PageServed DEF OwnCursor
  <2>11. NoneSkipped'
    <3> SUFFICES ASSUME NEW p \in steady' \ (served' \union page')
                 PROVE  ~ended' /\ (cursor' = {} \/ \E d \in cursor' : Before(list', Decode(list', d.at), p))
      BY <2>2 DEF NoneSkipped, IInv
    <3>1. p \in steady \ (served \union page) /\ p \in Entries(l, rows)
      BY <2>1, <2>2 DEF IInv
    <3>2. Before(l, Decode(l, c.at), p)
      BY <1>1, <2>1, <2>3, <3>1 DEF IInv, NoneSkipped, OwnCursor
    <3>3. p \in Rest(l, rows, cursor) \ page'
      BY <2>4, <3>1, <3>2
    <3> QED BY <1>1, <2>1, <2>2, <3>3, PageServed
  <2> QED BY <1>1, <2>1, <2>2, <2>7, <2>8, <2>9, <2>10, <2>11 DEF IInv
<1>3. CASE ~(\A c \in cursor : Accepts(l, c))
  <2>1. l # list
    BY <1>3 DEF IInv, OwnCursor, Accepts
  <2>2. /\ refused' = refused
        /\ UNCHANGED <<list, cursor, served, page, steady, ended>>
    BY <1>1, <1>3, <2>1 DEF NextPage, TypeOK
  <2> QED BY <1>1, <2>2 DEF IInv, TypeOK, UpToCursor, OwnCursor, NoneSkipped, ServedOnce
<1> QED BY <1>2, <1>3

LEMMA ChangeKeeps ==
  ASSUME IInv, NEW t \in Tables, Changed(t)
  PROVE  IInv'
<1>1. /\ steady' = steady \intersect Entries(list, t) /\ rows' = t
      /\ changes < MaxChanges /\ changes' = changes + 1
      /\ UNCHANGED <<list, cursor, served, page, ended, refused>>
  BY DEF Changed
<1>2. TypeOK'
  BY <1>1, ListingConstants DEF IInv, TypeOK
<1> QED BY <1>1, <1>2 DEF IInv, UpToCursor, OwnCursor, NoneSkipped, ServedOnce

\* Every step keeps the invariant.
LEMMA NextKeeps == IInv /\ [Next]_vars => IInv'
<1> SUFFICES ASSUME IInv, [Next]_vars PROVE IInv'
  OBVIOUS
<1>1. ASSUME NEW l \in Lists, NEW n \in 1 .. MaxLimit, FirstPage(l, n) \/ NextPage(l, n)
      PROVE  IInv'
  BY <1>1, FirstPageKeeps, NextPageKeeps
<1>2. PICK S \in SUBSET Ids : rows \in [S -> Row]
  BY DEF IInv, TypeOK, Tables
<1>3. ASSUME NEW i \in Ids, Remove(i)
      PROVE  IInv'
  <2>1. [j \in DOMAIN rows \ {i} |-> rows[j]] \in [S \ {i} -> Row]
    BY <1>2
  <2> QED BY <1>3, <2>1, ChangeKeeps DEF Remove, Tables
<1>4. ASSUME NEW i \in Ids, NEW r \in Row, Put(i, r)
      PROVE  IInv'
  <2>1. [j \in DOMAIN rows \union {i} |-> IF j = i THEN r ELSE rows[j]] \in [S \union {i} -> Row]
    BY <1>2
  <2> QED BY <1>4, <2>1, ChangeKeeps DEF Put, Tables
<1>5. CASE UNCHANGED vars
  BY <1>5 DEF vars, IInv, TypeOK, UpToCursor, OwnCursor, NoneSkipped, ServedOnce
<1> QED BY <1>1, <1>3, <1>4, <1>5 DEF Next

\* The invariant holds of every reading.
THEOREM ListingInvariant == Spec => []IInv
BY InitInvariant, NextKeeps, PTL DEF Spec

\* A reader who follows the cursors of a list gets every entry that stays in it, and is never
\* refused: for any rows, page sizes and changes (NoneSkipped).
THEOREM NoEntrySkipped == Spec => []NoneSkipped
<1>1. IInv => NoneSkipped
  BY DEF IInv
<1> QED BY <1>1, ListingInvariant, PTL

\* No entry is served twice, and pages follow in order (ServedOnce).
THEOREM NoEntryServedTwice == Spec => []ServedOnce
<1>1. IInv => ServedOnce
  BY DEF IInv
<1> QED BY <1>1, ListingInvariant, PTL
=============================================================================
