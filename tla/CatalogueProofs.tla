--------------------------- MODULE CatalogueProofs ---------------------------
(***************************************************************************)
(* Proofs about Catalogue, for every number of categories, operations,     *)
(* names, requests and months: whatever refers to a category refers to one *)
(* that exists and suits it.                                               *)
(***************************************************************************)
EXTENDS Catalogue, TLAPS, NaturalsInduction, WellFoundedInduction

(* ---------------------------------------------------------------------- *)
(* Versions                                                                *)

\* A nonempty set of months and the origin has a latest member.
LEMMA LatestExists ==
  ASSUME NEW S \in SUBSET (Months \union {Origin}), S # {}
  PROVE  \E k \in S : \A j \in S : j <= k
<1>1. LastMonth \in Nat BY CatalogueAssumption
<1> DEFINE Gap == {LastMonth - k : k \in S}
<1>2. Gap \subseteq Nat /\ Gap # {}
  <2>1. \A k \in S : LastMonth - k \in Nat BY <1>1 DEF Months, Origin
  <2>2. PICK k \in S : TRUE OBVIOUS
  <2>3. LastMonth - k \in Gap OBVIOUS
  <2> QED BY <2>1, <2>3
<1> DEFINE Before == OpToRel(<, Nat)
<1>3. IsWellFoundedOn(Before, Nat) BY NatLessThanWellFounded
<1>4. \A x, y \in Nat : <<x, y>> \in Before <=> x < y BY DEF OpToRel
<1> HIDE DEF Before
<1>5. PICK g \in Gap : \A h \in Gap : <<h, g>> \notin Before
  <2> HIDE DEF Gap
  <2> QED BY <1>2, <1>3, WFMin
<1>6. PICK k \in S : g = LastMonth - k BY <1>5
<1>7. \A j \in S : j <= k
  <2> TAKE j \in S
  <2>1. LastMonth - j \in Gap /\ LastMonth - j \in Nat /\ g \in Nat BY <1>2, <1>5
  <2>2. ~(LastMonth - j < g) BY <2>1, <1>4, <1>5
  <2>3. j \in Int /\ k \in Int /\ LastMonth \in Int BY <1>1, <1>6 DEF Months, Origin
  <2> HIDE DEF Gap
  <2> QED BY <2>2, <2>3, <1>6
<1> QED BY <1>7

LEMMA NoVersionsType ==
  /\ DOMAIN NoVersions = {}
  /\ NoVersions \in UNION {[S -> Copy] : S \in SUBSET (Months \union {Origin})}
<1>1. DOMAIN NoVersions = {} BY DEF NoVersions
<1>2. NoVersions \in [{} -> Copy] BY DEF NoVersions
<1> QED BY <1>1, <1>2

\* The versions of a row are copies, dated by months and the origin.
LEMMA VersionsType ==
  ASSUME TypeOK, NEW f \in FixedIds
  PROVE  /\ DOMAIN versions[f] \subseteq Months \union {Origin}
         /\ \A m \in DOMAIN versions[f] : versions[f][m] \in Copy
BY DEF TypeOK

\* What a row copies of an optional category.
LEMMA CopyType ==
  ASSUME TypeOK, NEW c \in Optional, c # None => Exists(c)
  PROVE  CopyOf(c) \in Copy
<1>1. CASE c = None BY <1>1 DEF CopyOf, Copy, Kinds
<1>2. CASE c # None BY <1>2 DEF CopyOf, Copy, Exists, Category, Optional
<1> QED BY <1>1, <1>2

\* A reserved category suits the row it is copied for, and so does the copy.
LEMMA CopySuits ==
  ASSUME NEW c, NEW type, c # None => Suits(category[c].kind, type)
  PROVE  Suits(CopyOf(c).kind, type)
BY DEF CopyOf, Suits

\* The definition of a row at a month is a copy that suits it.
LEMMA ResolvedSuits ==
  ASSUME TypeOK, CategoriesFit, NEW f \in FixedIds, fixed[f] \in Fixed, NEW m \in Months
  PROVE  ResolvedCopy(f, m) \in Copy /\ Suits(ResolvedCopy(f, m).kind, fixed[f].type)
<1> DEFINE past == {k \in DOMAIN versions[f] : k <= m}
<1>1. CASE past = {}
  <2>1. fixed[f].category \in Optional BY DEF Fixed
  <2>2. fixed[f].category # None => /\ Exists(fixed[f].category)
                                   /\ Suits(category[fixed[f].category].kind, fixed[f].type)
    BY DEF CategoriesFit
  <2>3. ResolvedCopy(f, m) = CopyOf(fixed[f].category) BY <1>1 DEF ResolvedCopy
  <2> QED BY <2>1, <2>2, <2>3, CopyType, CopySuits
<1>2. CASE past # {}
  <2>1. past \in SUBSET (Months \union {Origin}) BY VersionsType
  <2>2. PICK k \in past : \A j \in past : j <= k
    <3> HIDE DEF past
    <3> QED BY <1>2, <2>1, LatestExists
  <2> DEFINE last == CHOOSE x \in past : \A j \in past : j <= x
  <2>3. last \in past
    <3> HIDE DEF past
    <3> QED BY <2>2
  <2>4. ResolvedCopy(f, m) = versions[f][last] BY <1>2 DEF ResolvedCopy
  <2>5. last \in DOMAIN versions[f] BY <2>3
  <2> HIDE DEF last, past
  <2> QED BY <2>4, <2>5, VersionsType DEF CategoriesFit
<1> QED BY <1>1, <1>2

(* ---------------------------------------------------------------------- *)
(* What no step undoes                                                     *)

\* A category keeps what it is reserved for as long as it exists, a new one is reserved for
\* nothing; a row keeps its type, and its identifier is never given again.
Keeps ==
  /\ \A c \in Categories : Exists(c)' =>
       \/ Exists(c) /\ category'[c].kind = category[c].kind
       \/ category'[c].kind = "ANY"
  /\ \A f \in FixedIds : fixed[f] # Unknown =>
       /\ fixed'[f] # Unknown
       /\ fixed'[f] \in Fixed => fixed[f] \in Fixed /\ fixed'[f].type = fixed[f].type

\* One request of a worker took a step that keeps the invariant of what it touches.
FittingStep(w) ==
  /\ TypeOK' /\ CategoriesFit' /\ NewRowsUnversioned' /\ Keeps
  /\ \A v \in Workers \ {w} : request'[v] = request[v]
  /\ request'[w] # NoRequest => RequestFits(request[w])'

\* What a request found out stays true while others act.
LEMMA StillFits ==
  ASSUME IInv, Keeps, NEW v \in Workers, request'[v] = request[v], request[v] # NoRequest
  PROVE  RequestFits(request[v])'
<1>1. RequestFits(request[v]) BY DEF IInv
<1>2. StillSuits(request[v].body.category, request[v].body.type) =>
        StillSuits(request[v].body.category, request[v].body.type)'
  BY DEF StillSuits, Keeps, Suits
<1> QED BY <1>1, <1>2 DEF RequestFits, Keeps

LEMMA StepInv ==
  ASSUME IInv, NEW w \in Workers, FittingStep(w)
  PROVE  IInv'
<1>1. ASSUME NEW v \in Workers, request'[v] # NoRequest
      PROVE  RequestFits(request[v])'
  <2>1. CASE v = w BY <1>1, <2>1 DEF FittingStep
  <2>2. CASE v # w BY <1>1, <2>2, StillFits DEF FittingStep
  <2> QED BY <2>1, <2>2
<1> QED BY <1>1 DEF IInv, FittingStep

LEMMA TablesKept ==
  ASSUME IInv, UNCHANGED <<category, operation, fixed, versions>>
  PROVE  Keeps /\ CategoriesFit' /\ NewRowsUnversioned'
<1>1. \A c : Exists(c)' <=> Exists(c) BY DEF Exists
<1>2. Keeps BY DEF Keeps, Exists
<1>3. CategoriesFit' BY <1>1 DEF IInv, CategoriesFit
<1> QED BY <1>2, <1>3 DEF IInv, NewRowsUnversioned

(* ---------------------------------------------------------------------- *)
(* The request a worker has in flight                                      *)

LEMMA GoesType ==
  ASSUME TypeOK, NEW w \in Workers, NEW step \in Step,
         NEW id \in Operations \union FixedIds \union {None}, NEW body \in Body,
         Goes(w, step, id, body)
  PROVE  /\ request' \in [Workers -> Pending \union {NoRequest}]
         /\ request'[w] = [step |-> step, id |-> id, body |-> body]
         /\ \A v \in Workers \ {w} : request'[v] = request[v]
<1>1. [step |-> step, id |-> id, body |-> body] \in Pending BY DEF Pending
<1> QED BY <1>1 DEF TypeOK, Goes

LEMMA MovesType ==
  ASSUME TypeOK, NEW w \in Workers, NEW step \in Step, request[w] # NoRequest, Moves(w, step)
  PROVE  /\ request' \in [Workers -> Pending \union {NoRequest}]
         /\ request'[w] # NoRequest
         /\ request'[w].step = step /\ request'[w].id = request[w].id
         /\ request'[w].body = request[w].body
         /\ \A v \in Workers \ {w} : request'[v] = request[v]
<1>1. request[w] \in Pending BY DEF TypeOK
<1>2. PICK r \in Pending : r = request[w] BY <1>1
<1>3. [r EXCEPT !.step = step] \in Pending BY DEF Pending
<1>4. request' = [request EXCEPT ![w] = [r EXCEPT !.step = step]] BY <1>2 DEF Moves
<1>5. [r EXCEPT !.step = step].step = step /\ [r EXCEPT !.step = step].id = r.id
      /\ [r EXCEPT !.step = step].body = r.body
  BY DEF Pending
<1>6. request'[w] = [r EXCEPT !.step = step] BY <1>4 DEF TypeOK
<1>7. NoRequest \notin Pending BY CatalogueAssumption
<1> QED BY <1>2, <1>3, <1>4, <1>5, <1>6, <1>7 DEF TypeOK

LEMMA EndsType ==
  ASSUME TypeOK, NEW w \in Workers, Ends(w)
  PROVE  /\ request' \in [Workers -> Pending \union {NoRequest}]
         /\ request'[w] = NoRequest
         /\ \A v \in Workers \ {w} : request'[v] = request[v]
BY DEF TypeOK, Ends

LEMMA BodyType ==
  ASSUME NEW type \in Types, NEW c \in Optional \union {Keep},
         NEW from \in Months \union {Origin}
  PROVE  /\ Body0(type, c, from) \in Body
         /\ Body0(type, c, from).category = c
         /\ Body0(type, c, from).type = type
BY DEF Body0, Body

\* The body of a request in flight.
LEMMA PendingType ==
  ASSUME TypeOK, NEW w \in Workers, request[w] # NoRequest
  PROVE  /\ request[w] \in Pending
         /\ request[w].body.type \in Types
         /\ request[w].body.category \in Optional \union {Keep}
         /\ request[w].body.from \in Months \union {Origin}
<1>1. request[w] \in Pending BY DEF TypeOK
<1>2. request[w].body \in Body BY <1>1 DEF Pending
<1> QED BY <1>1, <1>2 DEF Body

\* Sentinels are no data.
LEMMA Sentinels ==
  /\ Unknown # Gone
  /\ Unknown \notin Category /\ Gone \notin Category
  /\ Unknown \notin Fixed /\ Gone \notin Fixed
  /\ Unknown \notin Categories /\ Gone \notin Categories
  /\ None \notin Categories /\ Keep \notin Categories /\ Keep # None
BY CatalogueAssumption DEF Optional

(* ---------------------------------------------------------------------- *)
(* Categories                                                              *)

LEMMA CategoryStep ==
  ASSUME IInv, NEW w \in Workers,
         SaveCategory(w) \/ RenameCategory(w) \/ DeleteCategory(w)
  PROVE  FittingStep(w)
<1> USE DEF IInv
<1>1. /\ UNCHANGED <<now, kept, account, operation, fixed, versions, rav, request>>
      /\ request[w] = NoRequest
      /\ started' \in 0 .. MaxRequests
  BY CatalogueAssumption DEF SaveCategory, RenameCategory, DeleteCategory, Starts, TypeOK
<1>2. CASE SaveCategory(w)
  <2>1. PICK c \in Categories, n \in Names :
          category[c] = Unknown /\ category' = Inserted(c, n)
    BY <1>2 DEF SaveCategory
  <2>2. /\ category' \in [Categories -> Category \union {Unknown, Gone}]
        /\ category'[c].kind = "ANY"
        /\ \A d \in Categories \ {c} : category'[d] = category[d]
    BY <2>1 DEF Inserted, TypeOK, Category, Kinds
  <2>3. ~Exists(c) BY <2>1, Sentinels DEF Exists
  <2>4. \A d \in Categories : Exists(d) => Exists(d)' /\ category'[d] = category[d]
    BY <2>2, <2>3 DEF Exists
  <2>5. Keeps BY <1>1, <2>2, <2>4 DEF Keeps, Exists
  <2>6. CategoriesFit' BY <1>1, <2>4, Sentinels DEF CategoriesFit, TypeOK, Fixed, Optional
  <2> QED BY <1>1, <2>2, <2>5, <2>6 DEF FittingStep, TypeOK, NewRowsUnversioned
<1>3. CASE RenameCategory(w)
  <2>1. PICK c \in Categories, n \in Names : Exists(c) /\ category' = Renamed(c, n)
    BY <1>3 DEF RenameCategory
  <2>2. PICK old \in Category : category[c] = old BY <2>1 DEF Exists
  <2>3. [old EXCEPT !.name = n] \in Category /\ [old EXCEPT !.name = n].kind = old.kind
    BY DEF Category
  <2>4. /\ category' = [category EXCEPT ![c] = [old EXCEPT !.name = n]]
        /\ category' \in [Categories -> Category \union {Unknown, Gone}]
        /\ category'[c] \in Category /\ category'[c].kind = category[c].kind
        /\ \A d \in Categories \ {c} : category'[d] = category[d]
    BY <2>1, <2>2, <2>3 DEF Renamed, TypeOK
  <2>5. \A d \in Categories : /\ Exists(d)' <=> Exists(d)
                              /\ Exists(d) => category'[d].kind = category[d].kind
    BY <2>1, <2>4 DEF Exists
  <2>6. Keeps BY <1>1, <2>5 DEF Keeps
  <2>7. CategoriesFit' BY <1>1, <2>5, Sentinels DEF CategoriesFit, TypeOK, Fixed, Optional
  <2> QED BY <1>1, <2>4, <2>6, <2>7 DEF FittingStep, TypeOK, NewRowsUnversioned
<1>4. CASE DeleteCategory(w)
  <2>1. PICK c \in Categories : ~Referenced(c) /\ category' = [category EXCEPT ![c] = Gone]
    BY <1>4 DEF DeleteCategory, Deletable
  <2>2. /\ category' \in [Categories -> Category \union {Unknown, Gone}]
        /\ ~Exists(c)'
        /\ \A d \in Categories \ {c} : category'[d] = category[d]
    BY <2>1, Sentinels DEF TypeOK, Exists
  <2>3. Keeps BY <1>1, <2>2 DEF Keeps, Exists
  <2>4. /\ \A o \in Operations : operation[o] # c
        /\ \A f \in FixedIds : fixed[f] \in Fixed => fixed[f].category # c
    BY <2>1 DEF Referenced
  <2>5. \A d \in Categories \ {c} : Exists(d) => Exists(d)' /\ category'[d] = category[d]
    BY <2>2 DEF Exists
  <2>6. CategoriesFit'
    BY <1>1, <2>4, <2>5, Sentinels DEF CategoriesFit, TypeOK, Fixed, Optional
  <2> QED BY <1>1, <2>2, <2>3, <2>6 DEF FittingStep, TypeOK, NewRowsUnversioned
<1> QED BY <1>2, <1>3, <1>4

(* ---------------------------------------------------------------------- *)
(* One-off operations                                                      *)

LEMMA BeginOperationStep ==
  ASSUME IInv, NEW w \in Workers, BeginOperation(w)
  PROVE  FittingStep(w)
<1> USE DEF IInv
<1>1. UNCHANGED <<now, kept, account, category, operation, fixed, versions, rav>>
  BY DEF BeginOperation, Starts, tables
<1>2. started' \in 0 .. MaxRequests
  BY CatalogueAssumption DEF BeginOperation, Starts, TypeOK
<1>3. PICK c \in Categories :
        \/ Goes(w, "insertOperation", None, Body0("CHARGE", c, Origin))
        \/ \E o \in Operations : Goes(w, "moveOperation", o, Body0("CHARGE", c, Origin))
  BY DEF BeginOperation
<1>4. /\ Body0("CHARGE", c, Origin) \in Body
      /\ Body0("CHARGE", c, Origin).category = c
  BY BodyType DEF Types, Optional
<1> DEFINE body == Body0("CHARGE", c, Origin)
<1> HIDE DEF body
<1>5. CASE Goes(w, "insertOperation", None, body)
  <2>1. /\ request' \in [Workers -> Pending \union {NoRequest}]
        /\ request'[w] = [step |-> "insertOperation", id |-> None, body |-> body]
        /\ \A v \in Workers \ {w} : request'[v] = request[v]
    BY <1>4, <1>5, GoesType DEF Step, body
  <2>2. RequestFits(request[w])' BY <2>1, <1>4 DEF RequestFits, body
  <2> QED BY <1>1, <1>2, <2>1, <2>2, TablesKept DEF FittingStep, TypeOK
<1>6. ASSUME NEW o \in Operations, Goes(w, "moveOperation", o, body)
      PROVE  FittingStep(w)
  <2>1. /\ request' \in [Workers -> Pending \union {NoRequest}]
        /\ request'[w] = [step |-> "moveOperation", id |-> o, body |-> body]
        /\ \A v \in Workers \ {w} : request'[v] = request[v]
    BY <1>4, <1>6, GoesType DEF Step, body
  <2>2. RequestFits(request[w])' BY <2>1, <1>4 DEF RequestFits, body
  <2> QED BY <1>1, <1>2, <2>1, <2>2, TablesKept DEF FittingStep, TypeOK
<1> QED BY <1>3, <1>5, <1>6 DEF body

LEMMA WriteOperationStep ==
  ASSUME IInv, NEW w \in Workers,
         InsertOperation(w) \/ MoveOperation(w) \/ DeleteOperation(w)
  PROVE  FittingStep(w)
<1> USE DEF IInv
<1>1. UNCHANGED <<now, kept, account, category, fixed, versions, rav>>
  BY DEF InsertOperation, MoveOperation, DeleteOperation, At, Starts
<1>2. /\ started' \in 0 .. MaxRequests
      /\ request' \in [Workers -> Pending \union {NoRequest}]
      /\ request'[w] = NoRequest
      /\ \A v \in Workers \ {w} : request'[v] = request[v]
  BY EndsType, CatalogueAssumption
     DEF InsertOperation, MoveOperation, DeleteOperation, At, Starts, TypeOK
<1>3. \/ operation' = operation
      \/ \E o \in Operations : operation' = [operation EXCEPT ![o] = Gone]
      \/ \E o \in Operations, c \in Categories :
           Exists(c) /\ operation' = [operation EXCEPT ![o] = c]
  <2>1. CASE InsertOperation(w)
    <3>1. request[w].body.category \in Categories BY <2>1 DEF InsertOperation, At, RequestFits
    <3> QED BY <2>1, <3>1 DEF InsertOperation
  <2>2. CASE MoveOperation(w)
    <3>1. request[w].body.category \in Categories /\ request[w].id \in Operations
      BY <2>2 DEF MoveOperation, At, RequestFits
    <3>2. \/ operation' = operation
          \/ /\ Exists(request[w].body.category)
             /\ operation' = [operation EXCEPT ![request[w].id] = request[w].body.category]
      BY <2>2 DEF MoveOperation
    <3> QED BY <3>1, <3>2
  <2>3. CASE DeleteOperation(w) BY <2>3 DEF DeleteOperation
  <2> QED BY <2>1, <2>2, <2>3
<1>4. /\ operation' \in [Operations -> Categories \union {Unknown, Gone}]
      /\ \A o \in Operations : \/ operation'[o] \in {operation[o], Gone}
                               \/ operation'[o] \in Categories /\ Exists(operation'[o])
  <2>1. operation \in [Operations -> Categories \union {Unknown, Gone}] BY DEF TypeOK
  <2>2. ASSUME NEW o \in Operations, operation' = [operation EXCEPT ![o] = Gone]
        PROVE  <1>4
    BY <2>1, <2>2
  <2>3. ASSUME NEW o \in Operations, NEW c \in Categories, Exists(c),
               operation' = [operation EXCEPT ![o] = c]
        PROVE  <1>4
    <3>1. operation' \in [Operations -> Categories \union {Unknown, Gone}] BY <2>1, <2>3
    <3>2. operation'[o] = c /\ \A d \in Operations \ {o} : operation'[d] = operation[d]
      BY <2>1, <2>3
    <3> QED BY <2>3, <3>1, <3>2
  <2>4. CASE operation' = operation BY <2>1, <2>4
  <2> QED BY <1>3, <2>2, <2>3, <2>4
<1>5. \A c : Exists(c)' <=> Exists(c) BY <1>1 DEF Exists
<1>6. Keeps BY <1>1, <1>5 DEF Keeps
<1>7. CategoriesFit' BY <1>1, <1>4, <1>5 DEF CategoriesFit
<1> QED BY <1>1, <1>2, <1>4, <1>6, <1>7 DEF FittingStep, TypeOK, NewRowsUnversioned

(* ---------------------------------------------------------------------- *)
(* Fixed operations                                                        *)

LEMMA BeginCreateStep ==
  ASSUME IInv, NEW w \in Workers, BeginCreate(w)
  PROVE  FittingStep(w)
<1> USE DEF IInv
<1>1. UNCHANGED <<now, kept, account, category, operation, fixed, versions, rav>>
  BY DEF BeginCreate, Starts, tables
<1>2. started' \in 0 .. MaxRequests
  BY CatalogueAssumption DEF BeginCreate, Starts, TypeOK
<1>3. PICK c \in Optional, type \in Types :
        Accepts(c, type) /\ Goes(w, "insertFixed", None, Body0(type, c, Origin))
  BY DEF BeginCreate
<1>4. /\ Body0(type, c, Origin) \in Body
      /\ Body0(type, c, Origin).category = c /\ Body0(type, c, Origin).type = type
  BY BodyType
<1> DEFINE body == Body0(type, c, Origin)
<1> HIDE DEF body
<1>5. /\ request' \in [Workers -> Pending \union {NoRequest}]
      /\ request'[w] = [step |-> "insertFixed", id |-> None, body |-> body]
      /\ \A v \in Workers \ {w} : request'[v] = request[v]
  BY <1>3, <1>4, GoesType DEF Step, body
<1>6. StillSuits(body.category, body.type)'
  BY <1>1, <1>3, <1>4, Sentinels DEF StillSuits, Accepts, Suits, Exists, body
<1>7. RequestFits(request[w])' BY <1>3, <1>4, <1>5, <1>6 DEF RequestFits, StillSuits, body
<1> QED BY <1>1, <1>2, <1>5, <1>7, TablesKept DEF FittingStep, TypeOK

LEMMA BeginEditStep ==
  ASSUME IInv, NEW w \in Workers, BeginEdit(w)
  PROVE  FittingStep(w)
<1> USE DEF IInv
<1>1. UNCHANGED <<now, kept, account, category, operation, fixed, versions, rav>>
  BY DEF BeginEdit, Starts, tables
<1>2. started' \in 0 .. MaxRequests
  BY CatalogueAssumption DEF BeginEdit, Starts, TypeOK
<1>3. PICK f \in FixedIds, c \in Optional \union {Keep}, m \in Months \union {Origin} :
        /\ fixed[f] \in Fixed
        /\ c # Keep => Accepts(c, fixed[f].type)
        /\ Goes(w, "readFixed", f, Body0(fixed[f].type, c, m))
  BY DEF BeginEdit
<1>4. fixed[f].type \in Types BY <1>3 DEF Fixed
<1>5. /\ Body0(fixed[f].type, c, m) \in Body
      /\ Body0(fixed[f].type, c, m).category = c
      /\ Body0(fixed[f].type, c, m).type = fixed[f].type
  BY <1>4, BodyType
<1>6. /\ request' \in [Workers -> Pending \union {NoRequest}]
      /\ request'[w] = [step |-> "readFixed", id |-> f, body |-> Body0(fixed[f].type, c, m)]
      /\ \A v \in Workers \ {w} : request'[v] = request[v]
  BY <1>3, <1>5, GoesType DEF Step
<1>7. /\ request'[w].step = "readFixed" /\ request'[w].id = f
      /\ request'[w].body.category = c /\ request'[w].body.type = fixed[f].type
  BY <1>5, <1>6
<1>8. c \in Categories /\ Exists(c)' => Suits(category'[c].kind, fixed[f].type)
  BY <1>1, <1>3, Sentinels DEF Accepts, Suits, Exists
<1>9. RequestFits(request[w])'
  BY <1>1, <1>3, <1>7, <1>8, Sentinels DEF RequestFits, StillSuits
<1> QED BY <1>1, <1>2, <1>6, <1>9, TablesKept DEF FittingStep, TypeOK

\* A row is created with a category that exists and suits it.
LEMMA RowAdded ==
  ASSUME IInv, NEW f \in FixedIds, NEW type \in Types, NEW c \in Optional,
         fixed[f] = Unknown, c # None => Exists(c) /\ Suits(category[c].kind, type),
         fixed' = [fixed EXCEPT ![f] = [type |-> type, category |-> c]],
         UNCHANGED <<category, operation, versions>>
  PROVE  /\ fixed' \in [FixedIds -> Fixed \union {Unknown, Gone}]
         /\ Keeps /\ CategoriesFit' /\ NewRowsUnversioned'
<1> USE DEF IInv
<1>1. [type |-> type, category |-> c] \in Fixed BY DEF Fixed
<1>2. /\ fixed' \in [FixedIds -> Fixed \union {Unknown, Gone}]
      /\ fixed'[f] = [type |-> type, category |-> c]
      /\ \A g \in FixedIds \ {f} : fixed'[g] = fixed[g]
  BY <1>1 DEF TypeOK
<1>3. \A d : Exists(d)' <=> Exists(d) BY DEF Exists
<1>4. Keeps BY <1>2, <1>3 DEF Keeps
<1>5. NewRowsUnversioned' BY <1>1, <1>2, Sentinels DEF NewRowsUnversioned
<1>6. CategoriesFit' BY <1>2, <1>3 DEF CategoriesFit, NewRowsUnversioned
<1> QED BY <1>2, <1>4, <1>5, <1>6

LEMMA InsertFixedStep ==
  ASSUME IInv, NEW w \in Workers, InsertFixed(w)
  PROVE  FittingStep(w)
<1> USE DEF IInv
<1>1. /\ UNCHANGED <<now, kept, started, account, category, operation, versions, rav>>
      /\ request[w] # NoRequest /\ request[w].step = "insertFixed"
  BY DEF InsertFixed, At
<1>2. RequestFits(request[w]) BY <1>1
<1>3. CASE Ends(w) /\ UNCHANGED fixed
  BY <1>1, <1>3, EndsType, TablesKept DEF FittingStep, TypeOK
<1>4. CASE Moves(w, "findRav") /\ ~(Ends(w) /\ UNCHANGED fixed)
  <2> DEFINE c == request[w].body.category
             type == request[w].body.type
  <2>1. PICK f \in FixedIds :
          /\ fixed[f] = Unknown
          /\ c # None => Exists(c)
          /\ fixed' = [fixed EXCEPT ![f] = [type |-> type, category |-> c]]
    BY <1>4 DEF InsertFixed
  <2>2. c \in Optional /\ type \in Types /\ StillSuits(c, type)
    BY <1>1, <1>2, PendingType DEF RequestFits
  <2> HIDE DEF c, type
  <2>3. c # None => Suits(category[c].kind, type)
    BY <2>1, <2>2 DEF StillSuits, Optional
  <2>4. /\ fixed' \in [FixedIds -> Fixed \union {Unknown, Gone}]
        /\ Keeps /\ CategoriesFit' /\ NewRowsUnversioned'
    BY <1>1, <2>1, <2>2, <2>3, RowAdded
  <2>5. /\ request' \in [Workers -> Pending \union {NoRequest}]
        /\ request'[w].step = "findRav"
        /\ \A v \in Workers \ {w} : request'[v] = request[v]
    BY <1>1, <1>4, MovesType DEF Step
  <2>6. RequestFits(request[w])' BY <2>5 DEF RequestFits
  <2> QED BY <1>1, <2>4, <2>5, <2>6 DEF FittingStep, TypeOK
<1> QED BY <1>3, <1>4 DEF InsertFixed

LEMMA CreateEnvelopeStep ==
  ASSUME IInv, NEW w \in Workers, CreateEnvelope(w)
  PROVE  FittingStep(w)
<1> USE DEF IInv
<1>1. /\ UNCHANGED <<now, kept, account, category, operation, versions, rav, request>>
      /\ request[w] = NoRequest
  BY DEF CreateEnvelope, Starts
<1>2. started' \in 0 .. MaxRequests
  BY CatalogueAssumption DEF CreateEnvelope, Starts, TypeOK
<1>3. PICK f \in FixedIds, c \in Optional :
        /\ fixed[f] = Unknown /\ Accepts(c, "CHARGE")
        /\ fixed' = [fixed EXCEPT ![f] = [type |-> "CHARGE", category |-> c]]
  BY DEF CreateEnvelope
<1>4. /\ fixed' \in [FixedIds -> Fixed \union {Unknown, Gone}]
      /\ Keeps /\ CategoriesFit' /\ NewRowsUnversioned'
  BY <1>1, <1>3, RowAdded DEF Accepts, Suits, Types
<1> QED BY <1>1, <1>2, <1>4 DEF FittingStep, TypeOK

LEMMA ReadFixedStep ==
  ASSUME IInv, NEW w \in Workers, ReadFixed(w)
  PROVE  FittingStep(w)
<1> USE DEF IInv
<1>1. /\ UNCHANGED <<now, kept, started, account, category, operation, fixed, versions, rav>>
      /\ request[w] # NoRequest /\ request[w].step = "readFixed"
  BY DEF ReadFixed, At, tables
<1>2. RequestFits(request[w]) BY <1>1
<1>3. CASE Ends(w) BY <1>1, <1>3, EndsType, TablesKept DEF FittingStep, TypeOK
<1>4. ASSUME NEW step \in {"schedule", "editRow"}, Moves(w, step)
      PROVE  FittingStep(w)
  <2>1. /\ request' \in [Workers -> Pending \union {NoRequest}]
        /\ request'[w].step = step /\ request'[w].id = request[w].id
        /\ request'[w].body = request[w].body
        /\ \A v \in Workers \ {w} : request'[v] = request[v]
    BY <1>1, <1>4, MovesType DEF Step
  <2>2. RequestFits(request[w])'
    BY <1>1, <1>2, <2>1 DEF RequestFits, StillSuits, Exists
  <2> QED BY <1>1, <2>1, <2>2, TablesKept DEF FittingStep, TypeOK
<1> QED BY <1>3, <1>4 DEF ReadFixed

LEMMA EditRowStep ==
  ASSUME IInv, NEW w \in Workers, EditRow(w)
  PROVE  FittingStep(w)
<1> USE DEF IInv
<1> DEFINE r == request[w]
           c == request[w].body.category
<1>1. /\ UNCHANGED <<now, kept, started, account, category, operation, versions, rav>>
      /\ request[w] # NoRequest /\ r.step = "editRow"
  BY DEF EditRow, At
<1>2. /\ r.id \in FixedIds /\ fixed[r.id] # Unknown
      /\ fixed[r.id] \in Fixed => fixed[r.id].type = r.body.type
      /\ StillSuits(c, r.body.type)
      /\ c \in Optional \union {Keep}
  BY <1>1, PendingType DEF RequestFits
<1>3. CASE Ends(w)
  <2>1. UNCHANGED fixed
    BY <1>1, <1>3, EndsType, MovesType DEF EditRow, Step
  <2> QED BY <1>1, <1>3, <2>1, EndsType, TablesKept DEF FittingStep, TypeOK
<1>4. CASE ~Ends(w)
  <2>1. /\ fixed[r.id] # Gone
        /\ c \notin {Keep, None} => Exists(c)
        /\ fixed' = IF c = Keep THEN fixed ELSE [fixed EXCEPT ![r.id].category = c]
        /\ Moves(w, "findRav")
    BY <1>4 DEF EditRow
  <2>2. /\ request' \in [Workers -> Pending \union {NoRequest}]
        /\ request'[w].step = "findRav"
        /\ \A v \in Workers \ {w} : request'[v] = request[v]
    BY <1>1, <2>1, MovesType DEF Step
  <2>3. RequestFits(request[w])' BY <2>2 DEF RequestFits
  <2>4. CASE c = Keep
    <3>1. UNCHANGED fixed BY <2>1, <2>4
    <3> QED BY <1>1, <2>2, <2>3, <3>1, TablesKept DEF FittingStep, TypeOK
  <2>5. CASE c # Keep
    <3>1. PICK row \in Fixed : row = fixed[r.id] BY <1>2, <2>1 DEF TypeOK
    <3>2. /\ [row EXCEPT !.category = c] \in Fixed
          /\ [row EXCEPT !.category = c].type = row.type
          /\ [row EXCEPT !.category = c].category = c
      BY <1>2, <2>5 DEF Fixed
    <3>3. fixed' = [fixed EXCEPT ![r.id] = [row EXCEPT !.category = c]]
      BY <2>1, <2>5, <3>1
    <3>4. /\ fixed' \in [FixedIds -> Fixed \union {Unknown, Gone}]
          /\ fixed'[r.id] \in Fixed
          /\ fixed'[r.id].type = row.type /\ fixed'[r.id].category = c
          /\ \A g \in FixedIds \ {r.id} : fixed'[g] = fixed[g]
      BY <1>2, <3>2, <3>3 DEF TypeOK
    <3> HIDE DEF r, c
    <3>5. c # None => Exists(c) /\ Suits(category[c].kind, row.type)
      BY <1>2, <2>1, <2>5, <3>1 DEF StillSuits, Optional
    <3>6. \A d : Exists(d)' <=> Exists(d) BY <1>1 DEF Exists
    <3>7. Keeps BY <1>1, <1>2, <3>1, <3>4, <3>6, Sentinels DEF Keeps
    <3>8. NewRowsUnversioned' BY <1>1, <3>4, Sentinels DEF NewRowsUnversioned
    <3>9. CategoriesFit' BY <1>1, <1>2, <3>1, <3>4, <3>5, <3>6 DEF CategoriesFit
    <3> QED BY <1>1, <2>2, <2>3, <3>4, <3>7, <3>8, <3>9 DEF FittingStep, TypeOK
  <2> QED BY <2>4, <2>5
<1> QED BY <1>3, <1>4

LEMMA DeleteFixedStep ==
  ASSUME IInv, NEW w \in Workers, DeleteFixed(w)
  PROVE  FittingStep(w)
<1> USE DEF IInv
<1>1. UNCHANGED <<now, kept, account, category, operation, rav>>
  BY DEF DeleteFixed, Starts
<1>2. started' \in 0 .. MaxRequests
  BY CatalogueAssumption DEF DeleteFixed, Starts, TypeOK
<1>3. PICK f \in FixedIds :
        /\ fixed[f] \in Fixed
        /\ fixed' = [fixed EXCEPT ![f] = Gone]
        /\ versions' = [versions EXCEPT ![f] = NoVersions]
        /\ Goes(w, "findRav", None, Body0("CHARGE", Keep, Origin))
  BY DEF DeleteFixed
<1>4. Body0("CHARGE", Keep, Origin) \in Body BY BodyType DEF Types
<1> DEFINE body == Body0("CHARGE", Keep, Origin)
<1> HIDE DEF body
<1>5. /\ request' \in [Workers -> Pending \union {NoRequest}]
      /\ request'[w].step = "findRav"
      /\ \A v \in Workers \ {w} : request'[v] = request[v]
  <2>1. Goes(w, "findRav", None, body) /\ body \in Body BY <1>3, <1>4 DEF body
  <2>2. "findRav" \in Step BY DEF Step
  <2>3. /\ request' \in [Workers -> Pending \union {NoRequest}]
        /\ request'[w] = [step |-> "findRav", id |-> None, body |-> body]
        /\ \A v \in Workers \ {w} : request'[v] = request[v]
    BY <2>1, <2>2, GoesType
  <2> QED BY <2>3
<1>6. RequestFits(request[w])' BY <1>5 DEF RequestFits
<1>7. /\ fixed' \in [FixedIds -> Fixed \union {Unknown, Gone}]
      /\ fixed'[f] = Gone
      /\ \A g \in FixedIds \ {f} : fixed'[g] = fixed[g]
  BY <1>3 DEF TypeOK
<1>8. /\ versions' \in [FixedIds -> UNION {[S -> Copy] : S \in SUBSET (Months \union {Origin})}]
      /\ \A g \in FixedIds \ {f} : versions'[g] = versions[g]
  BY <1>3, NoVersionsType DEF TypeOK
<1>9. \A d : Exists(d)' <=> Exists(d) BY <1>1 DEF Exists
<1>10. Keeps BY <1>1, <1>3, <1>7, <1>9, Sentinels DEF Keeps
<1>11. NewRowsUnversioned' BY <1>7, <1>8, Sentinels DEF NewRowsUnversioned
<1>12. CategoriesFit' BY <1>1, <1>7, <1>8, <1>9, Sentinels DEF CategoriesFit
<1> QED BY <1>1, <1>2, <1>5, <1>6, <1>7, <1>8, <1>10, <1>11, <1>12 DEF FittingStep, TypeOK

\* Scheduling a version writes copies that suit the row, and leaves the others.
LEMMA ScheduleStep ==
  ASSUME IInv, NEW w \in Workers, Schedule(w)
  PROVE  FittingStep(w)
<1> USE DEF IInv
<1> DEFINE r == request[w]
           c == request[w].body.category
           from == IF r.body.from = Origin THEN now ELSE r.body.from
<1>1. /\ UNCHANGED <<now, kept, started, account, category, operation, fixed, rav>>
      /\ request[w] # NoRequest /\ r.step = "schedule"
  BY DEF Schedule, At
<1>2. /\ r.id \in FixedIds /\ fixed[r.id] # Unknown
      /\ fixed[r.id] \in Fixed => fixed[r.id].type = r.body.type
      /\ c \in Optional \union {Keep}
      /\ from \in Months
  BY <1>1, PendingType DEF RequestFits, TypeOK
<1>3. CASE Ends(w)
  <2>1. UNCHANGED versions
    BY <1>1, <1>3, EndsType, MovesType DEF Schedule, Step
  <2> QED BY <1>1, <1>3, <2>1, EndsType, TablesKept DEF FittingStep, TypeOK
<1>4. CASE ~Ends(w)
  <2> DEFINE old == versions[r.id]
             payload == IF c = Keep THEN ResolvedCopy(r.id, from) ELSE CopyOf(c)
             baseline == IF Origin \in DOMAIN old THEN old[Origin] ELSE CopyOf(fixed[r.id].category)
             new == [m \in DOMAIN old \union {Origin, from} |->
                       CASE m = from -> payload [] m = Origin -> baseline [] OTHER -> old[m]]
  <2>1. /\ fixed[r.id] # Gone
        /\ c # Keep => Accepts(c, r.body.type)
        /\ versions' = [versions EXCEPT ![r.id] = new]
        /\ Moves(w, "findRav")
    BY <1>4 DEF Schedule
  <2>2. fixed[r.id] \in Fixed BY <1>2, <2>1 DEF TypeOK
  <2> DEFINE type == fixed[r.id].type
  <2> HIDE DEF r, c, from
  <2>3. payload \in Copy /\ Suits(payload.kind, type)
    <3>1. CASE c = Keep BY <1>2, <2>2, <3>1, ResolvedSuits
    <3>2. CASE c # Keep
      <4>1. c \in Optional /\ (c # None => Exists(c) /\ Suits(category[c].kind, type))
        BY <1>2, <2>1, <2>2, <3>2 DEF Accepts, Suits
      <4> QED BY <4>1, <3>2, CopyType, CopySuits
    <3> QED BY <3>1, <3>2
  <2>4. baseline \in Copy /\ Suits(baseline.kind, type)
    <3>1. CASE Origin \in DOMAIN old
      BY <1>2, <2>2, <3>1, VersionsType DEF CategoriesFit
    <3>2. CASE Origin \notin DOMAIN old
      <4>1. /\ fixed[r.id].category \in Optional
            /\ fixed[r.id].category # None =>
                 /\ Exists(fixed[r.id].category)
                 /\ Suits(category[fixed[r.id].category].kind, type)
        BY <1>2, <2>2 DEF CategoriesFit, Fixed
      <4> QED BY <3>2, <4>1, CopyType, CopySuits
    <3> QED BY <3>1, <3>2
  <2>5. /\ DOMAIN old \subseteq Months \union {Origin}
        /\ \A m \in DOMAIN old : old[m] \in Copy /\ Suits(old[m].kind, type)
    BY <1>2, <2>2, VersionsType DEF CategoriesFit
  <2> HIDE DEF payload, baseline, old
  <2>6. /\ DOMAIN new \in SUBSET (Months \union {Origin})
        /\ \A m \in DOMAIN new : \/ new[m] \in {payload, baseline}
                                 \/ m \in DOMAIN old /\ new[m] = old[m]
    <3>1. DOMAIN new = DOMAIN old \union {Origin, from} OBVIOUS
    <3>2. \A m \in DOMAIN old \union {Origin, from} :
            new[m] = CASE m = from -> payload [] m = Origin -> baseline [] OTHER -> old[m]
      OBVIOUS
    <3>3. DOMAIN new \in SUBSET (Months \union {Origin}) BY <1>2, <2>5, <3>1
    <3> HIDE DEF new
    <3> QED BY <3>1, <3>2, <3>3
  <2>7. \A m \in DOMAIN new : new[m] \in Copy /\ Suits(new[m].kind, type)
    <3> HIDE DEF new
    <3> QED BY <2>3, <2>4, <2>5, <2>6
  <2>8. new \in [DOMAIN new -> Copy]
    <3>1. new = [m \in DOMAIN new |-> new[m]] OBVIOUS
    <3> HIDE DEF new
    <3> QED BY <2>7, <3>1
  <2> HIDE DEF new
  <2>9. /\ versions' \in [FixedIds -> UNION {[S -> Copy] : S \in SUBSET (Months \union {Origin})}]
        /\ versions'[r.id] = new
        /\ \A g \in FixedIds \ {r.id} : versions'[g] = versions[g]
    BY <1>2, <2>1, <2>6, <2>8 DEF TypeOK
  <2>10. /\ request' \in [Workers -> Pending \union {NoRequest}]
         /\ request'[w].step = "findRav"
         /\ \A v \in Workers \ {w} : request'[v] = request[v]
    BY <1>1, <2>1, MovesType DEF Step
  <2>11. RequestFits(request[w])' BY <2>10 DEF RequestFits
  <2>12. \A d : Exists(d)' <=> Exists(d) BY <1>1 DEF Exists
  <2>13. Keeps BY <1>1, <2>12 DEF Keeps
  <2>14. NewRowsUnversioned' BY <1>1, <1>2, <2>9 DEF NewRowsUnversioned
  <2>15. CategoriesFit' BY <1>1, <1>2, <2>7, <2>9, <2>12 DEF CategoriesFit
  <2> QED BY <1>1, <2>9, <2>10, <2>11, <2>13, <2>14, <2>15 DEF FittingStep, TypeOK
<1> QED BY <1>3, <1>4

(* ---------------------------------------------------------------------- *)
(* The ResteAVivre row, the account and the calendar                       *)

LEMMA RavStep ==
  ASSUME IInv, NEW w \in Workers, FindRav(w) \/ CreateRav(w) \/ UpdateRav(w)
  PROVE  FittingStep(w)
<1> USE DEF IInv
<1>1. /\ UNCHANGED <<now, kept, started, account, category, operation, fixed, versions>>
      /\ request[w] # NoRequest
      /\ rav' \in Months \union {0}
  BY DEF FindRav, CreateRav, UpdateRav, At, tables, TypeOK
<1>2. CASE Ends(w) BY <1>1, <1>2, EndsType, TablesKept DEF FittingStep, TypeOK
<1>3. ASSUME NEW step \in {"createRav", "updateRav"}, Moves(w, step)
      PROVE  FittingStep(w)
  <2>1. /\ request' \in [Workers -> Pending \union {NoRequest}]
        /\ request'[w].step = step
        /\ \A v \in Workers \ {w} : request'[v] = request[v]
    BY <1>1, <1>3, MovesType DEF Step
  <2>2. RequestFits(request[w])' BY <2>1 DEF RequestFits
  <2> QED BY <1>1, <2>1, <2>2, TablesKept DEF FittingStep, TypeOK
<1> QED BY <1>2, <1>3 DEF FindRav, CreateRav, UpdateRav

LEMMA DeleteAccountStep ==
  ASSUME IInv, NEW w \in Workers, DeleteAccount(w)
  PROVE  FittingStep(w)
<1> USE DEF IInv
<1>1. /\ UNCHANGED <<now, request, rav>> /\ request[w] = NoRequest
      /\ started' \in 0 .. MaxRequests
  <2>1. started' \in 0 .. MaxRequests BY CatalogueAssumption DEF DeleteAccount, TypeOK
  <2>2. UNCHANGED rav BY DEF DeleteAccount, tables
  <2> QED BY <2>1, <2>2 DEF DeleteAccount
<1>2. CASE rav # 0
  <2>1. UNCHANGED tables /\ kept' \in BOOLEAN BY <1>2 DEF DeleteAccount
  <2> QED BY <1>1, <2>1, TablesKept DEF FittingStep, TypeOK, tables
<1>3. CASE rav = 0
  <2>1. /\ account' \in BOOLEAN /\ kept' = kept
        /\ category' = RowsGone(category)
        /\ operation' = RowsGone(operation)
        /\ fixed' = RowsGone(fixed)
        /\ versions' = [f \in FixedIds |-> NoVersions]
    BY <1>3 DEF DeleteAccount
  <2>2. category' \in [Categories -> {Unknown, Gone}] BY <2>1 DEF RowsGone, TypeOK
  <2>3. operation' \in [Operations -> {Unknown, Gone}] BY <2>1 DEF RowsGone, TypeOK
  <2>4. /\ fixed' \in [FixedIds -> {Unknown, Gone}]
        /\ \A f \in FixedIds : fixed[f] # Unknown => fixed'[f] # Unknown
    BY <2>1, Sentinels DEF RowsGone, TypeOK
  <2>5. versions' \in [FixedIds -> UNION {[S -> Copy] : S \in SUBSET (Months \union {Origin})}]
    BY <2>1, NoVersionsType
  <2>6. Keeps BY <2>2, <2>4, Sentinels DEF Keeps, Exists
  <2>7. NewRowsUnversioned' BY <2>1, NoVersionsType DEF NewRowsUnversioned
  <2>8. CategoriesFit' BY <2>3, <2>4, Sentinels DEF CategoriesFit
  <2> QED BY <1>1, <2>1, <2>2, <2>3, <2>4, <2>5, <2>6, <2>7, <2>8 DEF FittingStep, TypeOK
<1> QED BY <1>2, <1>3

LEMMA MonthTurnsInv == IInv /\ MonthTurns => IInv'
<1> SUFFICES ASSUME IInv, MonthTurns PROVE IInv' OBVIOUS
<1>1. now' \in Months BY CatalogueAssumption DEF MonthTurns, IInv, TypeOK, Months
<1>2. UNCHANGED <<account, category, operation, fixed, versions, rav, request, started, kept>>
  BY DEF MonthTurns
<1>3. TypeOK' BY <1>1, <1>2 DEF IInv, TypeOK
<1>4. \A v \in Workers : request'[v] # NoRequest => RequestFits(request[v])'
  BY <1>2, TablesKept, StillFits
<1> QED BY <1>2, <1>3, <1>4, TablesKept DEF IInv

LEMMA InitInv == Init => IInv
<1> SUFFICES ASSUME Init PROVE IInv OBVIOUS
<1>1. TypeOK
  <2>1. 1 \in Months /\ started \in 0 .. MaxRequests
    BY CatalogueAssumption DEF Init, Months
  <2>2. versions \in [FixedIds -> UNION {[S -> Copy] : S \in SUBSET (Months \union {Origin})}]
    BY NoVersionsType DEF Init
  <2> QED BY <2>1, <2>2 DEF Init, TypeOK
<1>2. CategoriesFit BY Sentinels DEF Init, CategoriesFit
<1>3. NewRowsUnversioned BY NoVersionsType DEF Init, NewRowsUnversioned
<1> QED BY <1>1, <1>2, <1>3 DEF Init, IInv

LEMMA NextInv == IInv /\ [Next]_vars => IInv'
<1> SUFFICES ASSUME IInv, [Next]_vars PROVE IInv' OBVIOUS
<1>1. ASSUME NEW w \in Workers,
             \/ SaveCategory(w) \/ RenameCategory(w) \/ DeleteCategory(w)
             \/ BeginOperation(w) \/ InsertOperation(w) \/ MoveOperation(w) \/ DeleteOperation(w)
             \/ BeginCreate(w) \/ InsertFixed(w) \/ CreateEnvelope(w)
             \/ BeginEdit(w) \/ ReadFixed(w) \/ EditRow(w) \/ Schedule(w) \/ DeleteFixed(w)
             \/ FindRav(w) \/ CreateRav(w) \/ UpdateRav(w)
             \/ DeleteAccount(w)
      PROVE  IInv'
  <2>1. FittingStep(w)
    BY <1>1, CategoryStep, BeginOperationStep, WriteOperationStep, BeginCreateStep,
       InsertFixedStep, CreateEnvelopeStep, BeginEditStep, ReadFixedStep, EditRowStep,
       ScheduleStep, DeleteFixedStep, RavStep, DeleteAccountStep
  <2> QED BY <2>1, StepInv
<1>2. CASE UNCHANGED vars
  BY <1>2 DEF vars, IInv, TypeOK, CategoriesFit, NewRowsUnversioned, RequestFits, StillSuits, Exists
<1> QED BY <1>1, <1>2, MonthTurnsInv DEF Next

(* ---------------------------------------------------------------------- *)

\* The invariant of every behaviour: types, references that fit, and what each request found
\* out about a category or a row still true when it writes.
THEOREM CatalogueInvariant == Spec => []IInv
BY InitInv, NextInv, PTL DEF Spec

\* Whatever refers to a category refers to one that exists and suits it, although requests
\* test it some calls before they write (validateCategory, toDomain, the foreign keys).
THEOREM ReferencesFit == Spec => []CategoriesFit
<1>1. IInv => CategoriesFit BY DEF IInv
<1> QED BY <1>1, CatalogueInvariant, PTL
=============================================================================
