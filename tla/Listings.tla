------------------------------ MODULE Listings ------------------------------
(***************************************************************************)
(* Lists read page by page.  A page is what follows a cursor: the position *)
(* of the last entry served, encrypted with the name of its list.  Between *)
(* two pages rows are added, removed, renamed, moved or filtered out.      *)
(*                                                                         *)
(* A position has one to three parts, here always three integers (0 for a  *)
(* missing part).  value stands for a date, a title, a name or an amount;  *)
(* group for the source or the category of a row (0 for none); shown for   *)
(* the filters of the list.                                                *)
(***************************************************************************)
EXTENDS Integers, FiniteSets

CONSTANTS Ids,        \* identifiers of rows, from 1
          Values,     \* what rows are sorted by
          Groups,     \* sources or categories of rows
          Lists,      \* the lists that are read
          InitialRows, \* what is stored before the first page
          MaxLimit,   \* the largest page
          MaxChanges  \* bound on the changes to the rows

Ascending  == {"operations by value", "events", "event dates", "pending dates", "resolutions",
               "categories", "titles", "envelope sources", "envelope categories", "envelopes",
               "plans of a month", "payments of a plan", "plans for a payment", "eligible rows",
               "fixed rows of a month", "goals"}
Descending == {"latest operations", "budget history", "fixed operations", "users"}

Row == [value: Values, group: Groups, shown: BOOLEAN]
Tables == UNION {[S -> Row] : S \in SUBSET Ids}

ASSUME ListingConstants == /\ Ids \subseteq Nat \ {0}
                           /\ Values \subseteq Nat
                           /\ Groups \subseteq Nat
                           /\ InitialRows \subseteq Tables
                           /\ Lists \subseteq Ascending \union Descending
                           /\ MaxLimit \in Nat \ {0}
                           /\ MaxChanges \in Nat

VARIABLES rows,     \* the stored rows, by identifier
          changes,  \* how many times they changed
          list,     \* the list being read
          cursor,   \* {} or the cursor of the last page
          served,   \* positions served before the last page
          page,     \* positions of the last page
          steady,   \* positions listed since the first page, without interruption
          ended,    \* the last page said that nothing follows
          refused   \* the reader's own cursor was refused

vars == <<rows, changes, list, cursor, served, page, steady, ended, refused>>

Position == Nat \X Nat \X Nat
\* a cursor: the context it is bound to, and a position
Cursor == [context: Ascending \union Descending, at: Position]

\* ORDER BY and the conditions "after the cursor" compare the same parts
Follows(p, q) == \/ p[1] < q[1]
                 \/ p[1] = q[1] /\ p[2] < q[2]
                 \/ p[1] = q[1] /\ p[2] = q[2] /\ p[3] < q[3]
Before(l, p, q) == IF l \in Descending THEN Follows(q, p) ELSE Follows(p, q)
-----------------------------------------------------------------------------
\* what each repository lists, for the rows its filters keep
ValueThenId(t, kept) == {<<t[i].value, i, 0>> : i \in kept}
Operations(t, kept)  == ValueThenId(t, kept)
Events(t, kept)      == ValueThenId(t, kept)
History(t, kept)     == ValueThenId(t, kept)
Categories(t, kept)  == ValueThenId(t, kept)

\* an event takes place on several dates
DatesOf(r) == {r.value, r.value + 1}
EventDates(t, kept) == UNION {{<<d, i, 0>> : d \in DatesOf(t[i])} : i \in kept}
\* the dates of an event that have no resolution; here a group stands for a resolved first date
PendingDates(t, kept) ==
  UNION {{<<d, i, 0>> : d \in {d \in DatesOf(t[i]) : t[i].group # 0 => d # t[i].value}} : i \in kept}

\* by date, source event and identifier
Resolutions(t, kept) == {<<t[i].value, t[i].group, i>> : i \in kept}
\* one entry for all the operations of a title
Titles(t, kept) == {<<t[i].value, 0, 0>> : i \in kept}
EnvelopeSources(t, kept) == {<<t[i].group, 0, 0>> : i \in {i \in kept : t[i].group # 0}}
\* category 0 holds the envelopes without a category
EnvelopeCategories(t, kept) == {<<t[i].group, 0, 0>> : i \in kept}
Identifiers(t, kept) == {<<i, 0, 0>> : i \in kept}
\* the lists in the order of the identifiers
Envelopes(t, kept)       == Identifiers(t, kept)
MonthPlans(t, kept)      == Identifiers(t, kept)
PlanPayments(t, kept)    == Identifiers(t, kept)
Suggestions(t, kept)     == Identifiers(t, kept)
Eligible(t, kept)        == Identifiers(t, kept)
FixedMonth(t, kept)      == Identifiers(t, kept)
Goals(t, kept)           == Identifiers(t, kept)
FixedOperations(t, kept) == Identifiers(t, kept)
Users(t, kept)           == Identifiers(t, kept)

Entries(l, t) ==
  LET kept == {i \in DOMAIN t : t[i].shown} IN
  CASE l \in {"latest operations", "operations by value"} -> Operations(t, kept)
    [] l = "events"              -> Events(t, kept)
    [] l = "event dates"         -> EventDates(t, kept)
    [] l = "pending dates"       -> PendingDates(t, kept)
    [] l = "resolutions"         -> Resolutions(t, kept)
    [] l = "categories"          -> Categories(t, kept)
    [] l = "titles"              -> Titles(t, kept)
    [] l = "envelope sources"    -> EnvelopeSources(t, kept)
    [] l = "envelope categories" -> EnvelopeCategories(t, kept)
    [] l = "envelopes"           -> Envelopes(t, kept)
    [] l = "plans of a month"    -> MonthPlans(t, kept)
    [] l = "payments of a plan"  -> PlanPayments(t, kept)
    [] l = "plans for a payment" -> Suggestions(t, kept)
    [] l = "eligible rows"       -> Eligible(t, kept)
    [] l = "fixed rows of a month" -> FixedMonth(t, kept)
    [] l = "goals"               -> Goals(t, kept)
    [] l = "budget history"      -> History(t, kept)
    [] l = "fixed operations"    -> FixedOperations(t, kept)
    [] l = "users"               -> Users(t, kept)
    [] OTHER                     -> {}
-----------------------------------------------------------------------------
\* createCursorPage encodes the last entry; a category is encoded as its number plus one
Encode(l, p) == IF l = "envelope categories" THEN <<p[1] + 1, 0, 0>> ELSE p
Decode(l, p) == IF l = "envelope categories" THEN <<p[1] - 1, 0, 0>> ELSE p

\* decodePositiveIntegerCursor refuses a position that is not positive
Positive == {"envelope sources", "envelope categories", "envelopes", "plans of a month",
             "payments of a plan", "plans for a payment", "eligible rows",
             "fixed rows of a month", "goals", "fixed operations", "users"}

\* Fault: a cursor is accepted by any list whose positions look alike.
AcceptsAnyContext(l, c) == l \in Positive => c.at[1] > 0

\* decode: the cursor was made for this list, filters and order
Accepts(l, c) == c.context = l /\ (l \in Positive => c.at[1] > 0)

\* Fault: the last entry served is read again.
RestInclusive(l, t, C) == {p \in Entries(l, t) : \A c \in C : ~Before(l, p, Decode(l, c.at))}

\* the entries that follow the cursor, all of them without one
Rest(l, t, C) == {p \in Entries(l, t) : \A c \in C : Before(l, Decode(l, c.at), p)}

\* the first n entries of a set
IsStart(l, P, S, n) == /\ P \subseteq S
                       /\ Cardinality(P) <= n
                       /\ P # S => Cardinality(P) = n
                       /\ \A p \in P, q \in S \ P : Before(l, p, q)

\* limit + 1 rows are read: there is a next page, and a cursor, when one is left over
NextCursor(l, P, S) == IF P = S THEN {}
                       ELSE {[context |-> l, at |-> Encode(l, p)] :
                               p \in {p \in P : \A q \in P \ {p} : Before(l, q, p)}}
Serve(l, C, n) == \E P \in SUBSET Rest(l, rows, C) :
                    /\ IsStart(l, P, Rest(l, rows, C), n)
                    /\ page' = P
                    /\ cursor' = NextCursor(l, P, Rest(l, rows, C))
                    /\ ended' = (P = Rest(l, rows, C))
-----------------------------------------------------------------------------
Init == /\ rows \in InitialRows
        /\ changes = 0
        /\ list \in Lists
        /\ cursor = {} /\ served = {} /\ page = {} /\ steady = {}
        /\ ended = FALSE /\ refused = FALSE

\* a list is read from its start; a reading left before its end is followed no further
FirstPage(l, n) == /\ cursor = {}
                   /\ Serve(l, {}, n)
                   /\ list' = l
                   /\ served' = {}
                   /\ steady' = Entries(l, rows)
                   /\ refused' = FALSE
                   /\ UNCHANGED <<rows, changes>>

\* the cursor is presented for list l, its own or another one
NextPage(l, n) ==
  /\ cursor # {}
  /\ IF \A c \in cursor : Accepts(l, c)
     THEN /\ Serve(l, cursor, n)
          /\ list' = l
          /\ served' = served \union page
          /\ steady' = IF l = list THEN steady ELSE Entries(l, rows)
          /\ UNCHANGED refused
     ELSE /\ refused' = (refused \/ l = list)
          /\ UNCHANGED <<list, cursor, served, page, steady, ended>>
  /\ UNCHANGED <<rows, changes>>

\* other requests add, change or remove a row
Changed(t) == /\ changes < MaxChanges
              /\ changes' = changes + 1
              /\ rows' = t
              /\ steady' = steady \intersect Entries(list, t)
              /\ UNCHANGED <<list, cursor, served, page, ended, refused>>
Put(i, r) == Changed([j \in DOMAIN rows \union {i} |-> IF j = i THEN r ELSE rows[j]])
Remove(i) == /\ i \in DOMAIN rows
             /\ Changed([j \in DOMAIN rows \ {i} |-> rows[j]])

Next == \/ \E l \in Lists, n \in 1 .. MaxLimit : FirstPage(l, n) \/ NextPage(l, n)
        \/ \E i \in Ids : Remove(i) \/ \E r \in Row : Put(i, r)

Spec == Init /\ [][Next]_vars
-----------------------------------------------------------------------------
TypeOK == /\ rows \in Tables
          /\ changes \in 0 .. MaxChanges
          /\ list \in Lists
          /\ cursor \subseteq Cursor
          /\ served \subseteq Position /\ page \subseteq Position /\ steady \subseteq Position
          /\ ended \in BOOLEAN /\ refused \in BOOLEAN

\* A reader who follows the cursors is never refused, and no entry that stayed in the list is
\* skipped: it was served or comes after the cursor, whatever rows around it were added, moved
\* or removed, the row of the cursor included (listings and createCursorPage).
NoneSkipped ==
  /\ ~refused
  /\ \A p \in steady \ (served \union page) :
       ~ended /\ (cursor = {} \/ \E c \in cursor : Before(list, Decode(list, c.at), p))

\* Pages follow one another in the order of one list, and no entry is served twice
\* (cursor conditions and cursor contexts of the repositories).
ServedOnce == \A p \in served, q \in page : Before(list, p, q)
=============================================================================
