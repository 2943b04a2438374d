------------------------------ MODULE Catalogue ------------------------------
(***************************************************************************)
(* The categories of one owner, what refers to them, and the deletion of   *)
(* the account.  One-off operations and fixed operations refer to a        *)
(* category by a foreign key; a dated version of a fixed operation carries *)
(* a copy.  A request reads the category first and writes later, and       *)
(* requests interleave between the two.                                    *)
(*                                                                         *)
(* A category may be reserved for charges or for incomes: the templates    *)
(* copied at registration are, a category the owner creates never is.      *)
(* Saving a fixed operation then creates or refreshes a row of the former  *)
(* ResteAVivre table; its amounts, which nothing reads, are left out, and  *)
(* only the month of its newest row is kept.  Amounts, flags and months of *)
(* validity are in Envelopes; what a constraint of the database refuses    *)
(* ends the request.                                                       *)
(***************************************************************************)
EXTENDS Integers, FiniteSets

CONSTANTS Workers,     \* requests being served at once
          Categories, Operations, FixedIds,  \* identifiers, never reused
          Names,       \* names of categories
          LastMonth,   \* bound: civil months are 1 .. LastMonth
          MaxRequests, \* bound: requests started
          Unknown,     \* an identifier not given yet
          Gone,        \* a deleted row
          None,        \* no category
          Keep,        \* the body names no category
          NoRequest

Types  == {"CHARGE", "REVENU"}
Kinds  == Types \union {"ANY"}
Months == 1 .. LastMonth
Origin == 0                 \* the version kept under 1970-01
Optional == Categories \union {None}

Category == [name: Names, kind: Kinds]
Fixed    == [type: Types, category: Optional]
\* what a dated version copies of a category
Copy     == [category: Optional, kind: Kinds]
Body     == [type: Types, category: Optional \union {Keep}, from: Months \union {Origin}]

VARIABLES now,        \* the civil month
          account,    \* the owner's row exists
          category, operation, fixed,
          versions,   \* dated versions of each fixed operation, by month
          rav,        \* month of the newest ResteAVivre row; 0 when there is none
          request,    \* the request each worker has in flight
          started,
          kept        \* history: a deletion of the account was refused

tables == <<account, category, operation, fixed, versions, rav>>
vars == <<now, account, category, operation, fixed, versions, rav, request, started, kept>>

Step == {"insertOperation", "moveOperation", "insertFixed", "readFixed", "editRow", "schedule",
         "findRav", "createRav", "updateRav"}
Pending == [step: Step, id: Operations \union FixedIds \union {None}, body: Body]

ASSUME CatalogueAssumption ==
  /\ LastMonth \in Nat \ {0} /\ MaxRequests \in Nat
  /\ Unknown # Gone /\ {Unknown, Gone} \intersect (Category \union Fixed \union Optional) = {}
  /\ None \notin Categories /\ Keep \notin Optional /\ NoRequest \notin Pending

NoVersions == [m \in {} |-> [category |-> None, kind |-> "ANY"]]
Exists(c) == category[c] \in Category
-----------------------------------------------------------------------------
\* Fault: the restriction of a category is not compared
AcceptsOwned(c, type) == c # None => Exists(c)

\* validateCategory, and the same test in scheduleFixedVersion
Accepts(c, type) == c # None => Exists(c) /\ category[c].kind \in {type, "ANY"}

\* ON DELETE RESTRICT of both foreign keys
Referenced(c) == \/ \E o \in Operations : operation[o] = c
                 \/ \E f \in FixedIds : fixed[f] \in Fixed /\ fixed[f].category = c

CopyOf(c) == [category |-> c, kind |-> IF c = None THEN "ANY" ELSE category[c].kind]

\* resolvedFixedRow: the newest version in force at month m hides the row
ResolvedCopy(f, m) ==
  LET past == {k \in DOMAIN versions[f] : k <= m}
  IN IF past = {} THEN CopyOf(fixed[f].category)
     ELSE versions[f][CHOOSE k \in past : \A j \in past : j <= k]

\* the names of an owner's categories are unique
NameFree(n, c) == \A d \in Categories \ {c} : Exists(d) => category[d].name # n
-----------------------------------------------------------------------------
Goes(w, step, id, body) ==
  request' = [request EXCEPT ![w] = [step |-> step, id |-> id, body |-> body]]
Moves(w, step) == request' = [request EXCEPT ![w].step = step]
Ends(w) == request' = [request EXCEPT ![w] = NoRequest]

Starts(w) == /\ request[w] = NoRequest /\ account
             /\ started < MaxRequests /\ started' = started + 1
             /\ UNCHANGED <<now, kept>>
At(w, step) == /\ request[w] # NoRequest /\ request[w].step = step
               /\ UNCHANGED <<now, started, kept>>
Body0(type, c, from) == [type |-> type, category |-> c, from |-> from]

(* Categories *)

Inserted(c, n) == [category EXCEPT ![c] = [name |-> n, kind |-> "ANY"]]
Renamed(c, n)  == [category EXCEPT ![c].name = n]
Deletable(c)   == Exists(c) /\ ~Referenced(c)

SaveCategory(w) == Starts(w) /\ \E c \in Categories, n \in Names :
  /\ category[c] = Unknown /\ NameFree(n, c)
  /\ category' = Inserted(c, n)
  /\ UNCHANGED <<account, operation, fixed, versions, rav, request>>

\* updateMany, then a read for the answer
RenameCategory(w) == Starts(w) /\ \E c \in Categories, n \in Names :
  /\ Exists(c) /\ NameFree(n, c)
  /\ category' = Renamed(c, n)
  /\ UNCHANGED <<account, operation, fixed, versions, rav, request>>

\* refused with CATEGORY_IN_USE while a row refers to it
DeleteCategory(w) == Starts(w) /\ \E c \in Categories :
  /\ Deletable(c)
  /\ category' = [category EXCEPT ![c] = Gone]
  /\ UNCHANGED <<account, operation, fixed, versions, rav, request>>

(* One-off operations: toDomain reads the category, the transaction writes *)

BeginOperation(w) == Starts(w) /\ \E c \in Categories :
  /\ Exists(c)
  /\ \/ Goes(w, "insertOperation", None, Body0("CHARGE", c, Origin))
     \/ \E o \in Operations : /\ operation[o] \in Categories
                              /\ Goes(w, "moveOperation", o, Body0("CHARGE", c, Origin))
  /\ UNCHANGED tables

InsertOperation(w) == At(w, "insertOperation") /\ LET c == request[w].body.category IN
  /\ Ends(w)
  /\ \/ account /\ Exists(c) /\ \E o \in Operations :
          operation[o] = Unknown /\ operation' = [operation EXCEPT ![o] = c]
     \/ ~(account /\ Exists(c)) /\ UNCHANGED operation
  /\ UNCHANGED <<account, category, fixed, versions, rav>>

MoveOperation(w) == At(w, "moveOperation") /\ LET c == request[w].body.category
                                                  o == request[w].id IN
  /\ Ends(w)
  /\ operation' = IF operation[o] \in Categories /\ Exists(c)
                  THEN [operation EXCEPT ![o] = c] ELSE operation
  /\ UNCHANGED <<account, category, fixed, versions, rav>>

DeleteOperation(w) == Starts(w) /\ \E o \in Operations :
  /\ operation[o] \in Categories
  /\ operation' = [operation EXCEPT ![o] = Gone]
  /\ UNCHANGED <<account, category, fixed, versions, rav, request>>

(* Fixed operations *)

BeginCreate(w) == Starts(w) /\ \E c \in Optional, type \in Types :
  /\ Accepts(c, type)
  /\ Goes(w, "insertFixed", None, Body0(type, c, Origin))
  /\ UNCHANGED tables

\* OperationFixeRepo.create, then updateOrCreateRaV
InsertFixed(w) == At(w, "insertFixed") /\ LET b == request[w].body IN
  /\ \/ /\ account /\ (b.category # None => Exists(b.category))
        /\ \E f \in FixedIds :
             /\ fixed[f] = Unknown
             /\ fixed' = [fixed EXCEPT ![f] = [type |-> b.type, category |-> b.category]]
        /\ Moves(w, "findRav")
     \/ /\ ~(account /\ (b.category # None => Exists(b.category)))
        /\ Ends(w) /\ UNCHANGED fixed
  /\ UNCHANGED <<account, category, operation, versions, rav>>

\* POST /budget-envelopes: one transaction, which no ResteAVivre row follows
CreateEnvelope(w) == Starts(w) /\ \E f \in FixedIds, c \in Optional :
  /\ fixed[f] = Unknown /\ Accepts(c, "CHARGE")
  /\ fixed' = [fixed EXCEPT ![f] = [type |-> "CHARGE", category |-> c]]
  /\ UNCHANGED <<account, category, operation, versions, rav, request>>

\* OperationFixeRepo.update: exists, validateCategory
BeginEdit(w) == Starts(w) /\ \E f \in FixedIds, c \in Optional \union {Keep}, m \in Months \union {Origin} :
  /\ fixed[f] \in Fixed
  /\ c # Keep => Accepts(c, fixed[f].type)
  /\ Goes(w, "readFixed", f, Body0(fixed[f].type, c, m))
  /\ UNCHANGED tables

\* The existing row and its versions decide how the edit is written: as a version when it is
\* dated, when there are versions, and when a charge is or becomes an envelope.
ReadFixed(w) == At(w, "readFixed") /\ LET r == request[w] IN
  /\ \/ fixed[r.id] = Gone /\ Ends(w)
     \/ /\ fixed[r.id] \in Fixed
        /\ r.body.from # Origin \/ versions[r.id] # NoVersions \/ r.body.type = "CHARGE"
        /\ Moves(w, "schedule")
     \/ /\ fixed[r.id] \in Fixed
        /\ r.body.from = Origin /\ versions[r.id] = NoVersions
        /\ Moves(w, "editRow")
  /\ UNCHANGED tables

EditRow(w) == At(w, "editRow") /\ LET r == request[w]
                                      c == r.body.category IN
  /\ IF fixed[r.id] = Gone \/ (c \notin {Keep, None} /\ ~Exists(c))
     THEN Ends(w) /\ UNCHANGED fixed
     ELSE /\ fixed' = IF c = Keep THEN fixed ELSE [fixed EXCEPT ![r.id].category = c]
          /\ Moves(w, "findRav")
  /\ UNCHANGED <<account, category, operation, versions, rav>>

\* scheduleFixedVersion: the row stays, its versions change
Schedule(w) == At(w, "schedule") /\ LET r == request[w]
                                        c == r.body.category
                                        from == IF r.body.from = Origin THEN now ELSE r.body.from IN
  /\ IF \/ r.body.from \in 1 .. now - 1
        \/ fixed[r.id] = Gone
        \/ c # Keep /\ ~Accepts(c, r.body.type)
     THEN Ends(w) /\ UNCHANGED versions
     ELSE LET old == versions[r.id]
              payload == IF c = Keep THEN ResolvedCopy(r.id, from) ELSE CopyOf(c)
              baseline == IF Origin \in DOMAIN old THEN old[Origin] ELSE CopyOf(fixed[r.id].category)
          IN /\ versions' = [versions EXCEPT ![r.id] =
                  [m \in DOMAIN old \union {Origin, from} |->
                     CASE m = from -> payload [] m = Origin -> baseline [] OTHER -> old[m]]]
             /\ Moves(w, "findRav")
  /\ UNCHANGED <<account, category, operation, fixed, rav>>

\* DeleteOperationFixe: the row goes with its versions, then the ResteAVivre row is refreshed
DeleteFixed(w) == Starts(w) /\ \E f \in FixedIds :
  /\ fixed[f] \in Fixed
  /\ fixed' = [fixed EXCEPT ![f] = Gone]
  /\ versions' = [versions EXCEPT ![f] = NoVersions]
  /\ Goes(w, "findRav", None, Body0("CHARGE", Keep, Origin))
  /\ UNCHANGED <<account, category, operation, rav>>

(* refreshLegacyRav *)

\* the newest row is of another month, or there is none
RavPastMonth == rav # now

FindRav(w) == /\ At(w, "findRav")
              /\ Moves(w, IF RavPastMonth THEN "createRav" ELSE "updateRav")
              /\ UNCHANGED tables

CreateRav(w) == /\ At(w, "createRav") /\ Ends(w)
                /\ rav' = IF account THEN now ELSE rav
                /\ UNCHANGED <<account, category, operation, fixed, versions>>

\* updateRaV changes the amounts of the row found, not its date
UpdateRav(w) == At(w, "updateRav") /\ Ends(w) /\ UNCHANGED tables

(* The account *)

RowsGone(rows) == [i \in DOMAIN rows |-> IF rows[i] = Unknown THEN Unknown ELSE Gone]

\* UserRepo.delete in one transaction: the owner's row goes last, with everything that refers
\* to it ON DELETE CASCADE; ResteAVivre refers to it ON DELETE RESTRICT
DeleteAccount(w) ==
  /\ request[w] = NoRequest /\ account
  /\ started < MaxRequests /\ started' = started + 1
  /\ IF rav # 0
     THEN kept' = TRUE /\ UNCHANGED tables
     ELSE /\ account' = FALSE
          /\ category' = RowsGone(category)
          /\ operation' = RowsGone(operation)
          /\ fixed' = RowsGone(fixed)
          /\ versions' = [f \in FixedIds |-> NoVersions]
          /\ UNCHANGED <<rav, kept>>
  /\ UNCHANGED <<now, request>>

MonthTurns == /\ now < LastMonth /\ now' = now + 1
              /\ UNCHANGED <<account, category, operation, fixed, versions, rav, request, started, kept>>

Init == /\ now = 1 /\ account = TRUE
        \* registration copies the active templates
        /\ category \in [Categories -> Category \union {Unknown}]
        /\ \A c, d \in Categories : c # d /\ Exists(c) /\ Exists(d) => category[c].name # category[d].name
        /\ operation = [o \in Operations |-> Unknown]
        /\ fixed = [f \in FixedIds |-> Unknown]
        /\ versions = [f \in FixedIds |-> NoVersions]
        /\ rav = 0
        /\ request = [w \in Workers |-> NoRequest]
        /\ started = 0 /\ kept = FALSE

Next == \/ \E w \in Workers :
             \/ SaveCategory(w) \/ RenameCategory(w) \/ DeleteCategory(w)
             \/ BeginOperation(w) \/ InsertOperation(w) \/ MoveOperation(w) \/ DeleteOperation(w)
             \/ BeginCreate(w) \/ InsertFixed(w) \/ CreateEnvelope(w)
             \/ BeginEdit(w) \/ ReadFixed(w) \/ EditRow(w) \/ Schedule(w) \/ DeleteFixed(w)
             \/ FindRav(w) \/ CreateRav(w) \/ UpdateRav(w)
             \/ DeleteAccount(w)
        \/ MonthTurns

Spec == Init /\ [][Next]_vars
-----------------------------------------------------------------------------

TypeOK ==
  /\ now \in Months /\ account \in BOOLEAN
  /\ category \in [Categories -> Category \union {Unknown, Gone}]
  /\ operation \in [Operations -> Categories \union {Unknown, Gone}]
  /\ fixed \in [FixedIds -> Fixed \union {Unknown, Gone}]
  /\ versions \in [FixedIds -> UNION {[S -> Copy] : S \in SUBSET (Months \union {Origin})}]
  /\ rav \in Months \union {0}
  /\ request \in [Workers -> Pending \union {NoRequest}]
  /\ started \in 0 .. MaxRequests /\ kept \in BOOLEAN

Suits(kind, type) == kind \in {type, "ANY"}

\* What refers to a category refers to one that exists and that suits it, whatever happens to
\* the category between the test of a request and its write, and so does the copy a dated
\* version keeps suit its row when the category is gone (validateCategory, the foreign keys of
\* the schema, scheduleFixedVersion).
CategoriesFit ==
  /\ \A o \in Operations : operation[o] \notin {Unknown, Gone} => Exists(operation[o])
  /\ \A f \in FixedIds : fixed[f] \in Fixed =>
       /\ fixed[f].category # None =>
            /\ Exists(fixed[f].category)
            /\ Suits(category[fixed[f].category].kind, fixed[f].type)
       /\ \A m \in DOMAIN versions[f] : Suits(versions[f][m].kind, fixed[f].type)

\* the category a request tested still suits it, or is gone
StillSuits(c, type) == c \in Categories /\ Exists(c) => Suits(category[c].kind, type)

\* What a request has found out: which row it is about, of which type, and a category that
\* suited it.  Nothing changes the type of a row or what a category is reserved for.
RequestFits(r) ==
  /\ r.step \in {"insertOperation", "moveOperation"} => r.body.category \in Categories
  /\ r.step = "moveOperation" => r.id \in Operations
  /\ r.step = "insertFixed" => r.body.category \in Optional
  /\ r.step \in {"insertFixed", "readFixed", "editRow", "schedule"} =>
       StillSuits(r.body.category, r.body.type)
  /\ r.step \in {"readFixed", "editRow", "schedule"} =>
       /\ r.id \in FixedIds /\ fixed[r.id] # Unknown
       /\ fixed[r.id] \in Fixed => fixed[r.id].type = r.body.type

NewRowsUnversioned == \A f \in FixedIds : fixed[f] = Unknown => DOMAIN versions[f] = {}

IInv == /\ TypeOK /\ CategoriesFit /\ NewRowsUnversioned
        /\ \A w \in Workers : request[w] # NoRequest => RequestFits(request[w])

\* docs/daily-budget-domain.md:185-186: deleting an account deletes all the data of its owner.
\* A deletion the owner asks for is not refused (UserRepo.delete).
AccountDeletable == ~kept
=============================================================================
