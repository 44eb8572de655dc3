---------------------------- MODULE ListingProofs ----------------------------
(***************************************************************************)
(* Proofs, for every number of packages, every limit and every limit       *)
(* parameter, that a walk through the pages misses nothing.                *)
(***************************************************************************)
EXTENDS Listing, FiniteSetTheorems, TLAPS

(* What the tables and the client's counters are, and that a row the client *)
(* could see when it began it can still see.                                *)
TypeOK ==
    /\ DOMAIN table \subseteq IDs
    /\ \A id \in DOMAIN table : table[id].received \in Int
    /\ existing \subseteq Own(table)
    /\ \A id \in existing : Visible(table, id)
    /\ requested \in Int \cup {NoLimit}
    /\ offset \in Nat
    /\ walk \in {"before", "going", "over"}
    /\ walk = "before" => offset = 0

(* The inductive invariant. *)
ListingInv ==
    /\ TypeOK
    /\ NoneSkipped
    /\ EmptyPageIsTheEnd

-----------------------------------------------------------------------------
(* A page holds a row at least, whatever the client asks for. *)
LEMMA PagesHaveRoom ==
    ASSUME NEW limit \in Int \cup {NoLimit}
    PROVE  parseLimit(limit) \in Nat \ {0}
  BY ListingAssumption DEF parseLimit

(* The client's rows are finitely many, *)
LEMMA OwnIsFinite ==
    ASSUME NEW rows, DOMAIN rows \subseteq IDs
    PROVE  IsFiniteSet(Own(rows))
<1>1. IsFiniteSet(1 .. LastID)
  BY ListingAssumption, FS_Interval
<1> QED
  BY <1>1, FS_Subset DEF Own, IDs

(* and strictly ordered, because the id breaks ties. *)
LEMMA OrderIsStrict ==
    ASSUME TypeOK, NEW i \in Own(table), NEW j \in Own(table)
    PROVE  /\ i # j => Before(table, i, j) \/ Before(table, j, i)
           /\ Before(table, i, j) => i # j /\ ~Before(table, j, i)
<1>1. i \in Int /\ j \in Int /\ table[i].received \in Int /\ table[j].received \in Int
  BY ListingAssumption DEF TypeOK, Own, IDs
<1> QED
  BY <1>1 DEF Before

(* In every order the database may choose a row has as many before it as    *)
(* its place says.                                                          *)
LEMMA PlaceInListing ==
    ASSUME TypeOK, NEW s \in Listings(table), NEW id \in Own(table)
    PROVE  \E n \in 1 .. Cardinality(Own(table)) : s[n] = id /\ Position(id) = n - 1
<1> DEFINE size == Cardinality(Own(table))
<1>1. IsFiniteSet(Own(table)) /\ size \in Nat
  BY OwnIsFinite, FS_CardinalityType DEF TypeOK
<1>2. /\ s \in [1 .. size -> Own(table)]
      /\ \A i, j \in 1 .. size : i # j => s[i] # s[j]
      /\ \A m, n \in 1 .. size : m < n => ~Before(table, s[n], s[m])
  BY DEF Listings, SetToSeqs
<1>3. s \in Injection(1 .. size, Own(table))
  BY <1>2 DEF Injection, IsInjective
<1>4. IsFiniteSet(1 .. size) /\ Cardinality(1 .. size) = size
  BY <1>1, FS_Interval
<1>5. s \in Surjection(1 .. size, Own(table))
  BY <1>1, <1>3, <1>4, FS_Injection
<1>6. PICK n \in 1 .. size : s[n] = id
  BY <1>5 DEF Surjection
<1> DEFINE earlier == {i \in Own(table) : Before(table, i, id)}
           f == [m \in 1 .. n - 1 |-> s[m]]
<1>7. \A m \in 1 .. size : Before(table, s[m], id) <=> m < n
  <2> TAKE m \in 1 .. size
  <2>1. CASE m < n
    BY <1>2, <1>6, <2>1, OrderIsStrict
  <2>2. CASE m > n
    BY <1>2, <1>6, <2>2
  <2>3. CASE m = n
    BY <1>6, <2>3, OrderIsStrict
  <2> QED
    BY <2>1, <2>2, <2>3
<1>8. n \in Nat /\ n - 1 \in Nat /\ \A m \in 1 .. n - 1 : m \in 1 .. size /\ m < n
  BY <1>1
<1>9. f \in Injection(1 .. n - 1, earlier)
  <2>1. \A m \in 1 .. n - 1 : f[m] \in earlier
    BY <1>2, <1>7, <1>8
  <2>2. \A i, j \in 1 .. n - 1 : i # j => f[i] # f[j]
    BY <1>2, <1>8
  <2> QED
    BY <2>1, <2>2 DEF Injection, IsInjective
<1>10. f \in Surjection(1 .. n - 1, earlier)
  <2>1. ASSUME NEW i \in earlier
        PROVE  \E m \in 1 .. n - 1 : f[m] = i
    <3>1. PICK m \in 1 .. size : s[m] = i
      BY <1>5 DEF Surjection
    <3> QED
      BY <1>7, <1>8, <3>1
  <2> QED
    BY <1>9, <2>1 DEF Injection, Surjection
<1>11. Cardinality(earlier) = n - 1
  <2>1. IsFiniteSet(1 .. n - 1) /\ Cardinality(1 .. n - 1) = n - 1
    BY <1>8, FS_Interval
  <2>2. IsFiniteSet(earlier)
    BY <1>1, FS_Subset
  <2> QED
    BY <1>9, <1>10, <2>1, <2>2, FS_Injection
<1> QED
  BY <1>6, <1>11 DEF Position

(* Creations only push a row back. *)
LEMMA CreationPushesBack ==
    ASSUME ListingInv, NEW new \in IDs, Create(new)
    PROVE  /\ TypeOK'
           /\ \A id \in Own(table) : id \in Own(table') /\ table'[id] = table[id]
           /\ \A id \in Own(table) : Position(id)' >= Position(id)
<1>1. PICK tenant \in {Tenant, OtherTenant}, received \in Times, rank \in Ranks :
         table' = [i \in DOMAIN table \cup {new} |->
             IF i = new THEN [tenant |-> tenant, received |-> received, rank |-> rank]
             ELSE table[i]]
  BY DEF Create
<1>2. /\ DOMAIN table' = DOMAIN table \cup {new}
      /\ \A id \in DOMAIN table : table'[id] = table[id]
      /\ table'[new].received \in Int
  BY <1>1, ListingAssumption DEF Create
<1>3. \A id \in Own(table) : id \in Own(table') /\ table'[id] = table[id]
  BY <1>2 DEF Own
<1>4. TypeOK'
  BY <1>2, <1>3 DEF ListingInv, TypeOK, Create, Own, Visible
<1>5. ASSUME NEW id \in Own(table)
      PROVE  Position(id)' >= Position(id)
  <2> DEFINE now == {i \in Own(table) : Before(table, i, id)}
             then == {i \in Own(table') : Before(table', i, id)}
  <2>1. now \subseteq then
    BY <1>3, <1>5 DEF Before
  <2>2. IsFiniteSet(Own(table'))
    BY <1>4, OwnIsFinite DEF TypeOK
  <2>3. IsFiniteSet(then) /\ IsFiniteSet(now)
    BY <2>1, <2>2, FS_Subset
  <2>4. Cardinality(now) <= Cardinality(then)
    BY <2>1, <2>3, FS_Subset
  <2>5. Cardinality(now) \in Nat /\ Cardinality(then) \in Nat
    BY <2>3, FS_CardinalityType
  <2> QED
    BY <2>4, <2>5 DEF Position
<1> QED
  BY <1>3, <1>4, <1>5

(* A page shows what lies ahead, or it lies ahead of the next. *)
LEMMA PageSkipsNothing ==
    ASSUME ListingInv, listPackages
    PROVE  ListingInv'
<1> DEFINE limit == parseLimit(requested)
<1>1. TypeOK /\ NoneSkipped /\ walk = "going"
  BY DEF ListingInv, listPackages
<1>2. limit \in Nat \ {0}
  BY <1>1, PagesHaveRoom DEF TypeOK
<1>3. PICK listing \in Listings(table) :
         LET page == {id \in Window(listing, limit, offset) : Visible(table, id)}
         IN  /\ seen' = seen \cup page
             /\ offset' = offset + limit
             /\ walk' = IF page = {} THEN "over" ELSE "going"
  BY DEF listPackages, ReportedLimit
<1> DEFINE page == {id \in Window(listing, limit, offset) : Visible(table, id)}
<1>4. UNCHANGED <<table, requested, existing>>
  BY DEF listPackages
<1>5. TypeOK'
  BY <1>1, <1>2, <1>3, <1>4 DEF TypeOK
<1>6. /\ DOMAIN listing = 1 .. Cardinality(Own(table))
      /\ Cardinality(Own(table)) \in Nat
      /\ \A n \in DOMAIN listing : listing[n] \in Own(table)
  BY <1>1, OwnIsFinite, FS_CardinalityType DEF Listings, SetToSeqs, TypeOK
<1>7. ASSUME NEW id \in existing, id \notin seen
      PROVE  \E n \in DOMAIN listing : listing[n] = id /\ Position(id) = n - 1 /\ n > offset
  <2>1. id \in Own(table) /\ Position(id) >= offset
    BY <1>1, <1>7 DEF TypeOK, NoneSkipped
  <2>2. PICK n \in 1 .. Cardinality(Own(table)) : listing[n] = id /\ Position(id) = n - 1
    BY <1>1, <2>1, PlaceInListing
  <2> QED
    BY <1>1, <1>6, <2>1, <2>2 DEF TypeOK
<1>8. NoneSkipped'
  <2> SUFFICES ASSUME NEW id \in existing, id \notin seen \cup page
               PROVE  Position(id) >= offset + limit
    BY <1>3, <1>4 DEF NoneSkipped, Position
  <2>1. PICK n \in DOMAIN listing : listing[n] = id /\ Position(id) = n - 1 /\ n > offset
    BY <1>7
  <2>2. Visible(table, id) => ~(n <= offset + limit)
    BY <2>1 DEF Window
  <2>3. Visible(table, id)
    BY <1>1 DEF TypeOK
  <2> QED
    BY <1>1, <1>2, <1>6, <2>1, <2>2, <2>3 DEF TypeOK
<1>9. EmptyPageIsTheEnd'
  <2> SUFFICES ASSUME page = {}, \A id \in Own(table) : Visible(table, id),
                      NEW id \in existing, id \notin seen
               PROVE  FALSE
    BY <1>3, <1>4 DEF EmptyPageIsTheEnd, Visible
  <2>1. PICK n \in DOMAIN listing : listing[n] = id /\ n > offset
    BY <1>7
  <2>2. offset + 1 \in DOMAIN listing /\ offset < offset + 1 /\ offset + 1 <= offset + limit
    BY <1>1, <1>2, <1>6, <2>1 DEF TypeOK
  <2>3. listing[offset + 1] \in Window(listing, limit, offset)
    BY <2>2 DEF Window
  <2> QED
    BY <1>6, <2>2, <2>3
<1> QED
  BY <1>5, <1>8, <1>9 DEF ListingInv

(* Every step of the client and of the creators keeps the invariant. *)
LEMMA WalkKeeps == ListingInv /\ [Next]_vars => ListingInv'
<1> SUFFICES ASSUME ListingInv, [Next]_vars
             PROVE  ListingInv'
  OBVIOUS
<1>1. CASE \E new \in IDs : Create(new)
  <2> PICK new \in IDs : Create(new)
    BY <1>1
  <2>1. /\ TypeOK /\ TypeOK' /\ UNCHANGED <<requested, existing, offset, seen, walk>>
        /\ \A id \in Own(table) : id \in Own(table') /\ table'[id] = table[id]
        /\ \A id \in Own(table) : Position(id)' >= Position(id)
    BY CreationPushesBack DEF Create, ListingInv
  <2>2. \A id \in Own(table) : Position(id) \in Nat
    <3>1. IsFiniteSet(Own(table))
      BY <2>1, OwnIsFinite DEF TypeOK
    <3> QED
      BY <3>1, FS_Subset, FS_CardinalityType DEF Position
  <2>3. \A id \in Own(table) : Position(id)' \in Nat
    <3>1. IsFiniteSet(Own(table'))
      BY <2>1, OwnIsFinite DEF TypeOK
    <3> QED
      BY <3>1, FS_Subset, FS_CardinalityType DEF Position
  <2>4. NoneSkipped'
    BY <2>1, <2>2, <2>3 DEF ListingInv, TypeOK, NoneSkipped
  <2>5. EmptyPageIsTheEnd'
    BY <2>1 DEF ListingInv, EmptyPageIsTheEnd, Visible
  <2> QED
    BY <2>1, <2>4, <2>5 DEF ListingInv
<1>2. CASE \E limit \in Limits : BeginWalk(limit)
  <2>1. TypeOK' /\ NoneSkipped'
    <3>1. TypeOK'
      BY <1>2, ListingAssumption DEF BeginWalk, ListingInv, TypeOK, Visible
    <3>2. IsFiniteSet(Own(table)) /\ offset = 0
      BY <1>2, OwnIsFinite DEF BeginWalk, ListingInv, TypeOK
    <3>3. \A id : Position(id) \in Nat
      BY <3>2, FS_Subset, FS_CardinalityType DEF Position
    <3> QED
      BY <1>2, <3>1, <3>2, <3>3 DEF BeginWalk, NoneSkipped, Position
  <2>2. EmptyPageIsTheEnd'
    BY <1>2 DEF BeginWalk, EmptyPageIsTheEnd
  <2> QED
    BY <2>1, <2>2 DEF ListingInv
<1>3. CASE listPackages
  BY <1>3, PageSkipsNothing
<1>4. CASE Over \/ UNCHANGED vars
  BY <1>4 DEF Over, vars, ListingInv, TypeOK, NoneSkipped, EmptyPageIsTheEnd, Position, Visible, Own
<1> QED
  BY <1>1, <1>2, <1>3, <1>4 DEF Next

(* So it holds throughout. *)
LEMMA WalkInvariant == Spec => []ListingInv
<1>1. Init => ListingInv
  BY ListingAssumption DEF Init, ListingInv, TypeOK, NoneSkipped, EmptyPageIsTheEnd, Own
<1> QED
  BY <1>1, WalkKeeps, PTL DEF Spec

-----------------------------------------------------------------------------
(* The offset a client advances by the limit in use never passes a row that *)
(* was there when it began, however many rows are created before it.        *)
THEOREM WalksSkipNothing == Spec => []NoneSkipped
<1>1. ListingInv => NoneSkipped
  BY DEF ListingInv
<1> QED
  BY <1>1, WalkInvariant, PTL

(* A client cleared for all it may come across has seen everything that was *)
(* there when it began once it is given an empty page.                      *)
THEOREM EmptyPagesEndWalks == Spec => []EmptyPageIsTheEnd
<1>1. ListingInv => EmptyPageIsTheEnd
  BY DEF ListingInv
<1> QED
  BY <1>1, WalkInvariant, PTL
=============================================================================
