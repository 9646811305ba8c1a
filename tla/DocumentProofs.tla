--------------------------- MODULE DocumentProofs ---------------------------
(***************************************************************************)
(* What the operators of module Document do to documents of any size:      *)
(* sorting the entries of a list, setting a field, leaving out what is not *)
(* complete.                                                               *)
(***************************************************************************)
EXTENDS Document, ListProofs, FiniteSetTheorems, TLAPS

-----------------------------------------------------------------------------
(* Places in an order                                                      *)

(* R: pairs of members of S, of which the first comes before the second.   *)
Orders(R, S) ==
  /\ \A x \in S : <<x, x>> \notin R
  /\ \A x, y \in S : x # y => <<x, y>> \in R \/ <<y, x>> \in R
  /\ \A x, y, z \in S : <<x, y>> \in R /\ <<y, z>> \in R => <<x, z>> \in R

Before(R, S, x) == {y \in S : <<y, x>> \in R}

LEMMA UpTo ==
  ASSUME NEW n \in Nat
  PROVE  IsFiniteSet(1 .. n) /\ Cardinality(1 .. n) = n
<1>1. 1 \in Int /\ n \in Int /\ (n >= 1 => n - 1 + 1 = n) /\ (~(n >= 1) => n = 0)
  OBVIOUS
<1> QED
  BY <1>1, FS_Interval

LEMMA BeforeIsFinite ==
  ASSUME NEW S, IsFiniteSet(S), NEW R, Orders(R, S), NEW x \in S
  PROVE  /\ IsFiniteSet(Before(R, S, x)) /\ Cardinality(Before(R, S, x)) \in Nat
         /\ Cardinality(Before(R, S, x)) + 1 \in 1 .. Cardinality(S)
<1> DEFINE others == S \ {x}
           before == Before(R, S, x)
<1>1. IsFiniteSet(others) /\ Cardinality(others) = Cardinality(S) - 1
  BY FS_RemoveElement
<1>2. before \subseteq others
  BY DEF Before, Orders
<1>3. IsFiniteSet(before) /\ Cardinality(before) <= Cardinality(others)
  BY <1>1, <1>2, FS_Subset
<1>4. Cardinality(before) \in Nat /\ Cardinality(S) \in Nat
  BY <1>3, FS_CardinalityType
<1> HIDE DEF before, others
<1>5. Cardinality(before) + 1 \in 1 .. Cardinality(S)
  BY <1>1, <1>3, <1>4
<1> QED
  BY <1>3, <1>4, <1>5 DEF before

LEMMA BeforeGrows ==
  ASSUME NEW S, IsFiniteSet(S), NEW R, Orders(R, S), NEW x \in S, NEW y \in S, <<x, y>> \in R
  PROVE  Cardinality(Before(R, S, x)) < Cardinality(Before(R, S, y))
<1> DEFINE more == Before(R, S, x) \cup {x}
<1>1. x \notin Before(R, S, x) /\ more \subseteq Before(R, S, y)
  BY DEF Before, Orders
<1>2. IsFiniteSet(more) /\ Cardinality(more) = Cardinality(Before(R, S, x)) + 1
  BY <1>1, BeforeIsFinite, FS_AddElement
<1>3. Cardinality(more) <= Cardinality(Before(R, S, y))
  BY <1>1, BeforeIsFinite, FS_Subset
<1> QED
  BY <1>2, <1>3, BeforeIsFinite

(* Every place is taken.                                                   *)
LEMMA PlacesAreTaken ==
  ASSUME NEW S, IsFiniteSet(S), NEW R, Orders(R, S), NEW i \in 1 .. Cardinality(S)
  PROVE  \E x \in S : Cardinality(Before(R, S, x)) + 1 = i
<1> DEFINE n == Cardinality(S)
           P == 1 .. n
           place == [x \in S |-> Cardinality(Before(R, S, x)) + 1]
<1> SUFFICES ASSUME \A x \in S : place[x] # i PROVE FALSE
  OBVIOUS
<1>1. n \in Nat
  BY FS_CardinalityType
<1>2. IsFiniteSet(P) /\ Cardinality(P) = n
  BY <1>1, UpTo
<1>3. IsFiniteSet(P \ {i}) /\ Cardinality(P \ {i}) = n - 1
  BY <1>2, FS_RemoveElement
<1>4. place \in [S -> P \ {i}]
  BY BeforeIsFinite
<1>5. Cardinality(P \ {i}) < Cardinality(S)
  BY <1>1, <1>3
<1> HIDE DEF P, place
<1>6. PICK x \in S, y \in S : x # y /\ place[x] = place[y]
  BY <1>3, <1>4, <1>5, FS_PigeonHole
<1>7. /\ Cardinality(Before(R, S, x)) = Cardinality(Before(R, S, y))
      /\ Cardinality(Before(R, S, x)) \in Nat
  BY <1>6, BeforeIsFinite DEF place
<1>8. <<x, y>> \in R \/ <<y, x>> \in R
  BY <1>6 DEF Orders
<1> QED
  BY <1>7, <1>8, BeforeGrows

-----------------------------------------------------------------------------
(* InterfaceNames: the interfaces of a document                            *)

LEMMA PrecedesOrders ==
  ASSUME NEW S \in SUBSET Names
  PROVE  Orders({p \in S \X S : Precedes(p[1], p[2])}, S)
<1> DEFINE R == {p \in S \X S : Precedes(p[1], p[2])}
<1>1. \A x, y \in S : <<x, y>> \in R <=> Precedes(x, y)
  OBVIOUS
<1> HIDE DEF R
<1>2. \A x \in S : KindOrder[Kind[x]] \in Nat /\ Rank[x] \in Nat
  BY DocumentAssumption DEF KindOrder
<1>3. \A x, y \in S : KindOrder[Kind[x]] = KindOrder[Kind[y]] => Kind[x] = Kind[y]
  BY DocumentAssumption DEF KindOrder
<1>4. \A x \in S : ~Precedes(x, x)
  BY <1>2 DEF Precedes
<1>5. \A x, y \in S : x # y => Precedes(x, y) \/ Precedes(y, x)
  <2> SUFFICES ASSUME NEW x \in S, NEW y \in S, x # y PROVE Precedes(x, y) \/ Precedes(y, x)
    OBVIOUS
  <2>1. Kind[x] = Kind[y] => Rank[x] # Rank[y]
    BY DocumentAssumption
  <2> QED
    BY <1>2, <1>3, <2>1 DEF Precedes
<1>6. \A x, y, z \in S : Precedes(x, y) /\ Precedes(y, z) => Precedes(x, z)
  BY <1>2 DEF Precedes
<1>7. Orders(R, S)
  BY <1>1, <1>4, <1>5, <1>6 DEF Orders
<1> QED
  BY <1>7 DEF R

(* It lists each of them once, after those that precede it.                *)
InOrder(names, S) ==
  /\ IsList(names) /\ ToSet(names) = S
  /\ \A i \in 1 .. Len(names) :
       {names[j] : j \in 1 .. i - 1} = {m \in S : Precedes(m, names[i])}

LEMMA NamesAreInOrder ==
  ASSUME NEW c, IsDocument(c), Configured(c) \subseteq Names
  PROVE  InOrder(InterfaceNames(c), Configured(c))
<1> DEFINE S == Configured(c)
           R == {p \in S \X S : Precedes(p[1], p[2])}
           n == Cardinality(S)
           names == InterfaceNames(c)
           rank(x) == Cardinality(Before(R, S, x))
<1>1. IsFiniteSet(S) /\ n \in Nat
  BY FS_CardinalityType DEF IsDocument, Configured
<1>2. names = [i \in 1 .. n |->
                 CHOOSE x \in S : Cardinality({m \in S : Precedes(m, x)}) = i - 1]
  BY DEF InterfaceNames
<1>3. \A x \in S : {m \in S : Precedes(m, x)} = Before(R, S, x)
  BY DEF Before
<1>4. Orders(R, S)
  BY PrecedesOrders
<1>5. IsMap(names) /\ DOMAIN names = 1 .. n
  BY <1>2 DEF IsMap
<1>6. \A x, y \in S : <<x, y>> \in R <=> Precedes(x, y)
  OBVIOUS
<1> HIDE DEF S, R, names
<1>7. \A x \in S : rank(x) \in Nat /\ rank(x) + 1 \in 1 .. n
  BY <1>1, <1>4, BeforeIsFinite
<1>8. \A x, y \in S : rank(x) = rank(y) => x = y
  <2> SUFFICES ASSUME NEW x \in S, NEW y \in S, rank(x) = rank(y), x # y PROVE FALSE
    OBVIOUS
  <2>1. <<x, y>> \in R \/ <<y, x>> \in R
    BY <1>4 DEF Orders
  <2>2. rank(x) < rank(y) \/ rank(y) < rank(x)
    BY <1>1, <1>4, <2>1, BeforeGrows
  <2> QED
    BY <1>7, <2>2
<1>9. ASSUME NEW i \in 1 .. n PROVE names[i] \in S /\ rank(names[i]) = i - 1
  <2>1. PICK x \in S : Cardinality(Before(R, S, x)) + 1 = i
    BY <1>1, <1>4, PlacesAreTaken
  <2>2. Cardinality(Before(R, S, x)) = i - 1
    BY <1>7, <2>1
  <2>3. Cardinality({m \in S : Precedes(m, x)}) = i - 1
    BY <1>3, <2>2
  <2>4. names[i] \in S /\ Cardinality({m \in S : Precedes(m, names[i])}) = i - 1
    BY <1>2, <2>3
  <2> QED
    BY <1>3, <2>4
<1>10. \A x \in S : names[rank(x) + 1] = x
  <2> SUFFICES ASSUME NEW x \in S PROVE names[rank(x) + 1] = x
    OBVIOUS
  <2> DEFINE i == rank(x) + 1
  <2>1. i \in 1 .. n /\ i - 1 = rank(x)
    BY <1>7
  <2> HIDE DEF i
  <2>2. names[i] \in S /\ rank(names[i]) = rank(x)
    BY <1>9, <2>1
  <2>3. names[i] = x
    BY <1>8, <2>2
  <2> QED
    BY <2>3 DEF i
<1>11. \A x, y \in S : <<x, y>> \in R <=> rank(x) < rank(y)
  <2> SUFFICES ASSUME NEW x \in S, NEW y \in S PROVE <<x, y>> \in R <=> rank(x) < rank(y)
    OBVIOUS
  <2>1. <<x, y>> \in R => rank(x) < rank(y)
    BY <1>1, <1>4, BeforeGrows
  <2>2. <<y, x>> \in R => rank(y) < rank(x)
    BY <1>1, <1>4, BeforeGrows
  <2>3. x # y => <<x, y>> \in R \/ <<y, x>> \in R
    BY <1>4 DEF Orders
  <2> QED
    BY <1>7, <2>1, <2>2, <2>3
<1> HIDE DEF n, rank
<1>12. IsList(names) /\ Len(names) = n
  BY <1>1, <1>5, ListOfFunction DEF IsMap
<1>13. ToSet(names) = S
  <2>1. ToSet(names) = {names[i] : i \in 1 .. n}
    BY <1>5 DEF ToSet
  <2>2. \A x \in S : x \in {names[i] : i \in 1 .. n}
    BY <1>7, <1>10
  <2>3. \A i \in 1 .. n : names[i] \in S
    BY <1>9
  <2> QED
    BY <2>1, <2>2, <2>3
<1>14. ASSUME NEW i \in 1 .. n
      PROVE  {names[j] : j \in 1 .. i - 1} = {m \in S : Precedes(m, names[i])}
  <2>1. names[i] \in S /\ rank(names[i]) = i - 1
    BY <1>9
  <2>2. ASSUME NEW j \in 1 .. i - 1 PROVE names[j] \in S /\ Precedes(names[j], names[i])
    <3>1. j \in 1 .. n /\ j - 1 < i - 1
      BY <1>1
    <3>2. names[j] \in S /\ rank(names[j]) = j - 1
      BY <1>9, <3>1
    <3> QED
      BY <1>6, <1>11, <2>1, <3>1, <3>2
  <2>3. ASSUME NEW m \in S, Precedes(m, names[i]) PROVE m \in {names[j] : j \in 1 .. i - 1}
    <3>1. rank(m) < i - 1 /\ rank(m) \in Nat
      BY <1>6, <1>7, <1>11, <2>1, <2>3
    <3>2. rank(m) + 1 \in 1 .. i - 1 /\ names[rank(m) + 1] = m
      BY <1>10, <3>1
    <3> QED
      BY <3>2
  <2> QED
    BY <2>2, <2>3
<1>15. InOrder(names, S)
  BY <1>12, <1>13, <1>14 DEF InOrder
<1> QED
  BY <1>15 DEF S, names

LEMMA NamesAreConfigured ==
  ASSUME NEW c, IsDocument(c), Configured(c) \subseteq Names
  PROVE  IsList(InterfaceNames(c)) /\ ToSet(InterfaceNames(c)) \subseteq Configured(c)
BY NamesAreInOrder DEF InOrder

-----------------------------------------------------------------------------
(* Normalize: the entries of a list are sorted by their numbers            *)

Ahead(entries, i) == {j \in DOMAIN entries : Earlier(entries, j, i)}

LEMMA EarlierOrders ==
  ASSUME NEW entries, IsEntries(entries),
         NEW i \in DOMAIN entries, NEW j \in DOMAIN entries
  PROVE  /\ ~Earlier(entries, i, i)
         /\ i # j => Earlier(entries, i, j) \/ Earlier(entries, j, i)
         /\ Earlier(entries, i, j) => entries[i].seq <= entries[j].seq
         /\ \A k \in DOMAIN entries :
              Earlier(entries, k, i) /\ Earlier(entries, i, j) => Earlier(entries, k, j)
<1>1. DOMAIN entries = 1 .. Len(entries) /\ Len(entries) \in Nat
  BY ListFacts DEF IsEntries
<1>2. \A k \in DOMAIN entries : entries[k].seq \in Nat /\ k \in Nat
  BY <1>1 DEF IsEntries
<1> QED
  BY <1>2 DEF Earlier

LEMMA EntriesAreOrdered ==
  ASSUME NEW entries, IsEntries(entries)
  PROVE  LET D == DOMAIN entries
             R == {p \in D \X D : Earlier(entries, p[1], p[2])}
         IN
         /\ Orders(R, D) /\ IsFiniteSet(D) /\ D = 1 .. Cardinality(D)
         /\ \A i, j \in D : <<i, j>> \in R <=> Earlier(entries, i, j)
         /\ \A i \in D : Before(R, D, i) = Ahead(entries, i)
<1> DEFINE D == DOMAIN entries
           R == {p \in D \X D : Earlier(entries, p[1], p[2])}
<1>1. D = 1 .. Len(entries) /\ Len(entries) \in Nat
  BY ListFacts DEF IsEntries
<1>2. IsFiniteSet(D) /\ D = 1 .. Cardinality(D)
  BY <1>1, UpTo
<1>3. \A i, j \in D : <<i, j>> \in R <=> Earlier(entries, i, j)
  OBVIOUS
<1> HIDE DEF D, R
<1>4. Orders(R, D)
  BY <1>3, EarlierOrders DEF Orders, D
<1>5. \A i \in D : Before(R, D, i) = Ahead(entries, i)
  BY <1>3 DEF Before, Ahead, D
<1>6. /\ Orders(R, D) /\ IsFiniteSet(D) /\ D = 1 .. Cardinality(D)
      /\ \A i, j \in D : <<i, j>> \in R <=> Earlier(entries, i, j)
      /\ \A i \in D : Before(R, D, i) = Ahead(entries, i)
  BY <1>2, <1>3, <1>4, <1>5
<1> QED
  BY <1>6 DEF D, R

LEMMA AheadIsFinite ==
  ASSUME NEW entries, IsEntries(entries), NEW i \in DOMAIN entries
  PROVE  /\ IsFiniteSet(Ahead(entries, i)) /\ Cardinality(Ahead(entries, i)) \in Nat
         /\ Place(entries, i) = Cardinality(Ahead(entries, i)) + 1
         /\ Place(entries, i) \in DOMAIN entries
<1> DEFINE D == DOMAIN entries
           R == {p \in D \X D : Earlier(entries, p[1], p[2])}
<1>1. /\ Orders(R, D) /\ IsFiniteSet(D) /\ D = 1 .. Cardinality(D)
      /\ Before(R, D, i) = Ahead(entries, i)
  BY EntriesAreOrdered
<1>2. Place(entries, i) = Cardinality(Ahead(entries, i)) + 1
  BY DEF Place, Ahead
<1> HIDE DEF R
<1>3. /\ IsFiniteSet(Before(R, D, i)) /\ Cardinality(Before(R, D, i)) \in Nat
      /\ Cardinality(Before(R, D, i)) + 1 \in 1 .. Cardinality(D)
  BY <1>1, BeforeIsFinite
<1> QED
  BY <1>1, <1>2, <1>3

LEMMA EarlierPlaces ==
  ASSUME NEW entries, IsEntries(entries),
         NEW i \in DOMAIN entries, NEW j \in DOMAIN entries, Earlier(entries, i, j)
  PROVE  Place(entries, i) < Place(entries, j)
<1> DEFINE D == DOMAIN entries
           R == {p \in D \X D : Earlier(entries, p[1], p[2])}
<1>1. /\ Orders(R, D) /\ IsFiniteSet(D) /\ <<i, j>> \in R
      /\ Before(R, D, i) = Ahead(entries, i) /\ Before(R, D, j) = Ahead(entries, j)
  BY EntriesAreOrdered
<1> HIDE DEF R
<1>2. Cardinality(Before(R, D, i)) < Cardinality(Before(R, D, j))
  BY <1>1, BeforeGrows
<1> QED
  BY <1>1, <1>2, AheadIsFinite

(* Every place is taken by one entry.                                      *)
LEMMA PlaceIsTaken ==
  ASSUME NEW entries, IsEntries(entries), NEW i \in DOMAIN entries
  PROVE  \E j \in DOMAIN entries : Place(entries, j) = i
<1> DEFINE D == DOMAIN entries
           R == {p \in D \X D : Earlier(entries, p[1], p[2])}
<1>1. /\ Orders(R, D) /\ IsFiniteSet(D) /\ i \in 1 .. Cardinality(D)
      /\ \A j \in D : Before(R, D, j) = Ahead(entries, j)
  BY EntriesAreOrdered
<1> HIDE DEF R
<1>2. PICK j \in D : Cardinality(Before(R, D, j)) + 1 = i
  BY <1>1, PlacesAreTaken
<1>3. Place(entries, j) = i
  BY <1>1, <1>2, AheadIsFinite
<1> QED
  BY <1>3

Ascending(entries) ==
  \A i, j \in DOMAIN entries : i < j => entries[i].seq < entries[j].seq

LEMMA SortedIsSorted ==
  ASSUME NEW entries, IsEntries(entries)
  PROVE  LET sorted == SortedEntries(entries) IN
         /\ IsEntries(sorted) /\ DOMAIN sorted = DOMAIN entries
         /\ \A i \in DOMAIN sorted : \E j \in DOMAIN entries : sorted[i] = entries[j]
         /\ \A i, j \in DOMAIN sorted : i < j => sorted[i].seq <= sorted[j].seq
<1> DEFINE n == Len(entries)
           D == DOMAIN entries
           from == [i \in D |-> CHOOSE j \in D : Place(entries, j) = i]
           sorted == SortedEntries(entries)
<1>1. D = 1 .. n /\ n \in Nat /\ entries \in Seq(ToSet(entries))
  BY ListFacts DEF IsEntries
<1>2. \A i \in D : from[i] \in D /\ Place(entries, from[i]) = i
  <2> SUFFICES ASSUME NEW i \in D PROVE from[i] \in D /\ Place(entries, from[i]) = i
    OBVIOUS
  <2>1. \E j \in D : Place(entries, j) = i
    BY PlaceIsTaken
  <2> QED
    BY <2>1
<1>3. sorted = [i \in D |-> entries[from[i]]]
  BY DEF SortedEntries
<1> HIDE DEF from, sorted
<1>4. sorted \in [1 .. n -> ToSet(entries)]
  BY <1>1, <1>2, <1>3 DEF ToSet
<1>5. sorted \in Seq(ToSet(entries))
  BY <1>1, <1>4, SeqDef
<1>6. IsEntries(sorted)
  BY <1>2, <1>3, <1>5, TypedList DEF IsEntries
<1>7. ASSUME NEW i \in D, NEW j \in D, i < j
      PROVE  sorted[i].seq <= sorted[j].seq
  <2>1. from[i] \in D /\ from[j] \in D /\ from[i] # from[j]
    BY <1>1, <1>2, <1>7
  <2>2. ~Earlier(entries, from[j], from[i])
    <3>1. i \in Nat /\ j \in Nat /\ ~(j < i)
      BY <1>1, <1>7
    <3> QED
      BY <1>2, <2>1, <3>1, EarlierPlaces
  <2>3. Earlier(entries, from[i], from[j])
    BY <2>1, <2>2, EarlierOrders
  <2>4. entries[from[i]].seq <= entries[from[j]].seq
    BY <2>1, <2>3, EarlierOrders
  <2> QED
    BY <1>3, <2>4
<1>8. DOMAIN sorted = D
  BY <1>3
<1>9. \A i \in D : \E j \in D : sorted[i] = entries[j]
  BY <1>2, <1>3
<1> HIDE DEF D
<1>10. /\ IsEntries(sorted) /\ DOMAIN sorted = D
       /\ \A i \in DOMAIN sorted : \E j \in D : sorted[i] = entries[j]
       /\ \A i, j \in DOMAIN sorted : i < j => sorted[i].seq <= sorted[j].seq
  BY <1>6, <1>7, <1>8, <1>9
<1> QED
  BY <1>10 DEF sorted, D

(* Entries that are in order already stay where they are.                  *)
LEMMA SortedStays ==
  ASSUME NEW entries, IsEntries(entries), Ascending(entries)
  PROVE  SortedEntries(entries) = entries
<1> DEFINE n == Len(entries)
           D == DOMAIN entries
<1>1. D = 1 .. n /\ n \in Nat /\ entries \in Seq(ToSet(entries))
  BY ListFacts DEF IsEntries
<1>2. \A i \in D : entries[i].seq \in Nat
  BY DEF IsEntries
<1>3. ASSUME NEW i \in D PROVE Place(entries, i) = i
  <2>1. \A j \in D : Earlier(entries, j, i) <=> j < i
    <3> SUFFICES ASSUME NEW j \in D PROVE Earlier(entries, j, i) <=> j < i
      OBVIOUS
    <3>1. i \in Nat /\ j \in Nat /\ entries[i].seq \in Nat /\ entries[j].seq \in Nat
      BY <1>1, <1>2
    <3>2. /\ j < i => entries[j].seq < entries[i].seq
          /\ i < j => entries[i].seq < entries[j].seq
      BY DEF Ascending
    <3>3. CASE i = j
      BY <3>1, <3>3 DEF Earlier
    <3>4. CASE j < i
      BY <3>1, <3>2, <3>4 DEF Earlier
    <3>5. CASE i < j
      BY <3>1, <3>2, <3>5 DEF Earlier
    <3> QED
      BY <3>1, <3>3, <3>4, <3>5
  <2>2. Ahead(entries, i) = 1 .. i - 1
    BY <1>1, <2>1 DEF Ahead
  <2>3. Cardinality(1 .. i - 1) = i - 1
    <3>1. i - 1 \in Nat
      BY <1>1
    <3> QED
      BY <3>1, UpTo
  <2> QED
    BY <1>1, <2>2, <2>3, AheadIsFinite
<1> DEFINE from == [i \in D |-> CHOOSE j \in D : Place(entries, j) = i]
<1>4. \A i \in D : from[i] = i
  BY <1>3
<1>5. SortedEntries(entries) = [i \in D |-> entries[from[i]]]
  BY DEF SortedEntries
<1> HIDE DEF from
<1>6. entries = [i \in D |-> entries[i]]
  BY <1>1
<1> QED
  BY <1>4, <1>5, <1>6

-----------------------------------------------------------------------------
(* Interfaces and lists in them                                            *)

ListFields == {"members", "ipv4", "ipv6"}

LEMMA NewInterfaceIsOne == IsInterface(NewInterface) /\ NewInterface.members = <<>>
<1>1. IsMap(NewInterface) /\ NewInterface.members = <<>>
      /\ NewInterface.ipv4 = <<>> /\ NewInterface.ipv6 = <<>>
  BY DEF NewInterface, IsMap
<1> QED
  BY <1>1, NoList DEF IsInterface

LEMMA SettingFollows ==
  ASSUME NEW ifc, IsInterface(ifc), NEW f \in DOMAIN NewInterface, NEW v,
         f \in ListFields => IsList(v)
  PROVE  /\ IsInterface([ifc EXCEPT ![f] = v])
         /\ f # "members" => [ifc EXCEPT ![f] = v].members = ifc.members
         /\ f = "members" => [ifc EXCEPT ![f] = v].members = v
<1> DEFINE new == [ifc EXCEPT ![f] = v]
<1>1. /\ DOMAIN new = DOMAIN ifc /\ IsMap(new)
      /\ new.members = IF f = "members" THEN v ELSE ifc.members
      /\ new.ipv4 = IF f = "ipv4" THEN v ELSE ifc.ipv4
      /\ new.ipv6 = IF f = "ipv6" THEN v ELSE ifc.ipv6
  BY DEF IsInterface, IsMap, NewInterface
<1> HIDE DEF new
<1>2. IsInterface(new)
  BY <1>1 DEF IsInterface, ListFields
<1>3. IsInterface(new) /\ (f # "members" => new.members = ifc.members)
      /\ (f = "members" => new.members = v)
  BY <1>1, <1>2
<1> QED
  BY <1>3 DEF new

LEMMA MinusIsList ==
  ASSUME NEW s, IsList(s), NEW t
  PROVE  IsList(Minus(s, t)) /\ ToSet(Minus(s, t)) = ToSet(s) \ ToSet(t)
<1>1. IsList(Minus(s, t)) /\ ToSet(Minus(s, t)) = ToSet(s) \cap (ToSet(s) \ ToSet(t))
  BY ListOnly DEF Minus
<1> QED
  BY <1>1

LEMMA MinusItself ==
  ASSUME NEW s, IsList(s)
  PROVE  Minus(s, s) = <<>>
<1> DEFINE rest == Minus(s, s)
<1>1. IsList(rest) /\ ToSet(rest) = {}
  BY MinusIsList
<1> HIDE DEF rest
<1>2. rest \in Seq({})
  BY <1>1, ListFacts
<1> QED
  BY <1>2 DEF rest

-----------------------------------------------------------------------------
(* The effective part of a document                                        *)

LEMMA TrimmedInterface ==
  ASSUME NEW ifc, IsInterface(ifc), NEW kind, NEW kept
  PROVE  /\ IsInterface(Trim(ifc, kind, kept))
         /\ \A f \in DOMAIN NewInterface \ {"wireless", "members"} :
              Trim(ifc, kind, kept)[f] = ifc[f]
         /\ Trim(ifc, kind, kept).wireless =
              IF Ready(ifc.wireless, kind) THEN ifc.wireless ELSE NoWireless
         /\ Trim(ifc, kind, kept).members = Only(ifc.members, kept)
<1> DEFINE w == IF Ready(ifc.wireless, kind) THEN ifc.wireless ELSE NoWireless
           m == Only(ifc.members, kept)
           mid == [ifc EXCEPT !.wireless = w]
           new == [mid EXCEPT !.members = m]
<1>1. IsList(m)
  BY ListOnly DEF IsInterface
<1>2. {"wireless", "members"} \subseteq DOMAIN NewInterface /\ "wireless" \notin ListFields
  BY DEF NewInterface, ListFields
<1> HIDE DEF w, m
<1>3. IsInterface(mid) /\ DOMAIN mid = DOMAIN ifc
  BY <1>2, SettingFollows
<1>4. /\ mid.wireless = w /\ \A f \in DOMAIN ifc \ {"wireless"} : mid[f] = ifc[f]
      /\ DOMAIN ifc = DOMAIN NewInterface
  BY <1>2 DEF IsInterface
<1>5. Trim(ifc, kind, kept) = new
  BY DEF Trim, w, m
<1> HIDE DEF mid
<1>6. IsInterface(new)
  BY <1>1, <1>2, <1>3, SettingFollows
<1>7. /\ new.members = m /\ new.wireless = w
      /\ \A f \in DOMAIN ifc \ {"wireless", "members"} : new[f] = ifc[f]
  BY <1>2, <1>3, <1>4
<1> QED
  BY <1>4, <1>5, <1>6, <1>7 DEF w, m

LEMMA EffectiveParts ==
  ASSUME NEW c, IsDocument(c)
  PROVE  /\ IsDocument(Effective(c)) /\ Configured(Effective(c)) = Remaining(c)
         /\ \A f \in DOMAIN NewDocument \ {"interfaces"} : Effective(c)[f] = c[f]
         /\ \A n \in Remaining(c) :
              Effective(c).interfaces[n] = Trim(c.interfaces[n], Kind[n], Remaining(c))
<1> DEFINE m == [n \in Remaining(c) |-> Trim(c.interfaces[n], Kind[n], Remaining(c))]
           e == [c EXCEPT !.interfaces = m]
<1>1. Effective(c) = e
  BY DEF Effective
<1>2. /\ DOMAIN e = DOMAIN c /\ IsMap(e) /\ e.interfaces = m
      /\ \A f \in DOMAIN NewDocument \ {"interfaces"} : e[f] = c[f]
  BY DEF IsDocument, IsMap, NewDocument
<1>3. IsMap(m) /\ DOMAIN m = Remaining(c)
      /\ \A n \in Remaining(c) : m[n] = Trim(c.interfaces[n], Kind[n], Remaining(c))
  BY DEF IsMap
<1> HIDE DEF m, e
<1>4. \A n \in Remaining(c) : IsInterface(c.interfaces[n])
  BY DEF Remaining, Configured, IsDocument
<1>5. \A n \in DOMAIN m : IsInterface(m[n])
  BY <1>3, <1>4, TrimmedInterface
<1>6. e.acls = c.acls /\ e.nat = c.nat /\ e.routes = c.routes
  BY <1>2 DEF NewDocument
<1>7. IsFiniteSet(DOMAIN m)
  <2>1. Remaining(c) \subseteq DOMAIN c.interfaces
    BY DEF Remaining, Configured
  <2> QED
    BY <1>3, <2>1, FS_Subset DEF IsDocument
<1>8. IsDocument(e)
  BY <1>2, <1>3, <1>5, <1>6, <1>7 DEF IsDocument
<1> QED
  BY <1>1, <1>2, <1>3, <1>8 DEF Configured

(* The fields of an effective interface, by name.                          *)
LEMMA EffectiveInterface ==
  ASSUME NEW c, IsDocument(c), NEW n \in Remaining(c)
  PROVE  LET new == Effective(c).interfaces[n]
             old == c.interfaces[n]
         IN
         /\ IsInterface(old) /\ IsInterface(new) /\ n \in Configured(c)
         /\ new.dhcp = old.dhcp /\ new.ipv4 = old.ipv4 /\ new.ipv6 = old.ipv6 /\ new.vlan = old.vlan
         /\ new.aclIn = old.aclIn /\ new.aclOut = old.aclOut
         /\ new.members = Only(old.members, Remaining(c))
         /\ new.wireless = IF Ready(old.wireless, Kind[n]) THEN old.wireless ELSE NoWireless
<1> DEFINE old == c.interfaces[n]
           new == Effective(c).interfaces[n]
<1>1. n \in Configured(c) /\ IsInterface(old)
  BY DEF Remaining, Configured, IsDocument
<1>2. new = Trim(old, Kind[n], Remaining(c))
  BY EffectiveParts
<1> HIDE DEF old, new
<1>3. /\ IsInterface(new) /\ new.members = Only(old.members, Remaining(c))
      /\ new.wireless = IF Ready(old.wireless, Kind[n]) THEN old.wireless ELSE NoWireless
      /\ \A f \in DOMAIN NewInterface \ {"wireless", "members"} : new[f] = old[f]
  BY <1>1, <1>2, TrimmedInterface
<1>4. /\ new.dhcp = old.dhcp /\ new.ipv4 = old.ipv4 /\ new.ipv6 = old.ipv6 /\ new.vlan = old.vlan
      /\ new.aclIn = old.aclIn /\ new.aclOut = old.aclOut
  BY <1>3 DEF NewInterface
<1> QED
  BY <1>1, <1>3, <1>4 DEF old, new

LEMMA EffectiveFields ==
  ASSUME NEW c, IsDocument(c)
  PROVE  /\ Configured(Effective(c)) = Remaining(c) /\ Remaining(c) \subseteq Configured(c)
         /\ Effective(c).acls = c.acls /\ Effective(c).nat = c.nat
         /\ Effective(c).pools = c.pools
BY EffectiveParts DEF NewDocument, Remaining

(* Wireless settings that are left out are not ready any more.             *)
LEMMA NothingNotReady == \A kind : ~Ready(NoWireless, kind)
BY DEF Ready, NoWireless

LEMMA RemainingAgain ==
  ASSUME NEW c, IsDocument(c)
  PROVE  Remaining(Effective(c)) = Remaining(c)
<1> DEFINE e == Effective(c)
<1>1. ASSUME NEW n \in Remaining(c)
      PROVE  Kind[n] = "wlan" => Ready(e.interfaces[n].wireless, Kind[n])
  BY <1>1, EffectiveInterface DEF Remaining
<1> QED
  BY <1>1, EffectiveFields DEF Remaining

LEMMA EffectiveAgain ==
  ASSUME NEW c, IsDocument(c)
  PROVE  Effective(Effective(c)) = Effective(c)
<1> DEFINE e == Effective(c)
           f == Effective(e)
           kept == Remaining(c)
<1>1. IsDocument(e) /\ IsDocument(f) /\ Configured(e) = kept /\ Remaining(e) = kept
      /\ Configured(f) = kept
  BY EffectiveParts, RemainingAgain
<1>2. ASSUME NEW n \in kept PROVE f.interfaces[n] = e.interfaces[n]
  <2> DEFINE old == c.interfaces[n]
             mid == e.interfaces[n]
             new == f.interfaces[n]
  <2>1. /\ mid = Trim(old, Kind[n], kept) /\ new = Trim(mid, Kind[n], kept)
        /\ IsInterface(old) /\ IsInterface(mid) /\ IsInterface(new)
    BY <1>1, EffectiveParts, EffectiveInterface
  <2> HIDE DEF old, mid, new
  <2>2. /\ mid.wireless = IF Ready(old.wireless, Kind[n]) THEN old.wireless ELSE NoWireless
        /\ mid.members = Only(old.members, kept)
    BY <2>1, TrimmedInterface
  <2>3. /\ new.wireless = IF Ready(mid.wireless, Kind[n]) THEN mid.wireless ELSE NoWireless
        /\ new.members = Only(mid.members, kept)
        /\ \A g \in DOMAIN NewInterface \ {"wireless", "members"} : new[g] = mid[g]
    BY <2>1, TrimmedInterface
  <2>4. new.wireless = mid.wireless
    BY <2>2, <2>3, NothingNotReady
  <2>5. new.members = mid.members
    <3>1. old.members \in Seq(ToSet(old.members))
      BY <2>1, ListFacts DEF IsInterface
    <3> QED
      BY <2>2, <2>3, <3>1, OnlyAgain
  <2>6. \A g \in DOMAIN NewInterface : new[g] = mid[g]
    BY <2>3, <2>4, <2>5
  <2>7. new = mid
    BY <2>1, <2>6 DEF IsInterface, IsMap
  <2> QED
    BY <2>7 DEF new, mid
<1>3. f.interfaces = e.interfaces
  BY <1>1, <1>2 DEF IsDocument, IsMap, Configured
<1>4. \A g \in DOMAIN NewDocument \ {"interfaces"} : f[g] = e[g]
  BY <1>1, EffectiveParts
<1> HIDE DEF e, f
<1>5. \A g \in DOMAIN NewDocument : f[g] = e[g]
  BY <1>3, <1>4
<1>6. f = e
  BY <1>1, <1>5 DEF IsDocument, IsMap
<1> QED
  BY <1>6 DEF e, f

(* A valid document stays valid without its incomplete wireless settings,  *)
(* if nothing but bridges refers to what is dropped with them.             *)
LEMMA EffectiveValidates ==
  ASSUME NEW c, IsDocument(c), Validate(c),
         \A n \in Configured(c) :
           c.interfaces[n].vlan.parent \notin Configured(c) \ Configured(Effective(c)),
         \A r \in ToSet(c.nat) : r.interface \notin Configured(c) \ Configured(Effective(c))
  PROVE  Validate(Effective(c))
<1> DEFINE e == Effective(c)
           kept == Remaining(c)
<1>1. /\ Configured(e) = kept /\ kept \subseteq Configured(c)
      /\ e.acls = c.acls /\ e.nat = c.nat /\ e.pools = c.pools
  BY EffectiveFields
<1> HIDE DEF e
<1>2. ASSUME NEW n \in kept PROVE ValidInterface(e, n)
  <2> DEFINE old == c.interfaces[n]
             new == e.interfaces[n]
             kind == Kind[n]
  <2>1. /\ IsInterface(old) /\ n \in Configured(c)
        /\ new.dhcp = old.dhcp /\ new.ipv4 = old.ipv4 /\ new.ipv6 = old.ipv6 /\ new.vlan = old.vlan
        /\ new.aclIn = old.aclIn /\ new.aclOut = old.aclOut
        /\ new.members = Only(old.members, kept)
        /\ new.wireless = IF Ready(old.wireless, kind) THEN old.wireless ELSE NoWireless
    BY EffectiveInterface DEF e
  <2>2. ValidInterface(c, n)
    BY <1>1 DEF Validate
  <2> HIDE DEF new
  <2>3. new.dhcp => new.ipv4 = <<>>
    BY <2>1, <2>2 DEF ValidInterface
  <2>4. ListsExist(e, new)
    <3>1. ListsExist(c, old)
      BY <2>2 DEF ValidInterface
    <3> HIDE DEF old
    <3> QED
      BY <1>1, <2>1, <3>1 DEF ListsExist
  <2>5. IF kind = "vlan" THEN new.vlan # NoVLAN /\ new.vlan.parent \in Configured(e)
                         ELSE new.vlan = NoVLAN
    <3>1. IF kind = "vlan" THEN old.vlan # NoVLAN /\ old.vlan.parent \in Configured(c)
                           ELSE old.vlan = NoVLAN
      BY <2>2 DEF ValidInterface
    <3>2. old.vlan.parent \notin Configured(c) \ Configured(e)
      BY <2>1 DEF e
    <3> QED
      BY <2>1, <3>1, <3>2
  <2>6. IF kind = "bridge" THEN ToSet(new.members) \subseteq Configured(e) \ {n}
                           ELSE new.members = <<>>
    <3>1. IF kind = "bridge" THEN ToSet(old.members) \subseteq Configured(c) \ {n}
                             ELSE old.members = <<>>
      BY <2>2 DEF ValidInterface
    <3>2. IsList(new.members) /\ ToSet(new.members) = ToSet(old.members) \cap kept
          /\ Len(new.members) <= Len(old.members)
      BY <2>1, ListOnly DEF IsInterface
    <3>3. CASE kind = "bridge"
      BY <1>1, <3>1, <3>2, <3>3
    <3>4. CASE kind # "bridge"
      <4>1. old.members = <<>>
        BY <3>1, <3>4
      <4>2. Len(new.members) <= 0 /\ Len(new.members) \in Nat
        BY <3>2, <4>1, ListFacts
      <4>3. new.members \in Seq(ToSet(new.members))
        BY <3>2, ListFacts
      <4>4. new.members = <<>>
        BY <4>2, <4>3
      <4> QED
        BY <3>4, <4>4
    <3> QED
      BY <3>3, <3>4
  <2>7. new.wireless # NoWireless =>
          kind \in {"physical", "wlan"} /\ (kind = "physical" => new.wireless.device = None)
    BY <2>1, <2>2 DEF ValidInterface
  <2> HIDE DEF kind, old
  <2> QED
    BY <2>3, <2>4, <2>5, <2>6, <2>7 DEF ValidInterface, new, kind
<1>3. \A r \in ToSet(e.nat) : r.interface \in Configured(e)
  BY <1>1 DEF Validate, e
<1>4. /\ \A a \in DOMAIN e.acls : ValidEntries(e.acls[a])
      /\ \A p \in DOMAIN e.pools : ValidPool(e.pools[p])
  BY <1>1 DEF Validate
<1> QED
  BY <1>1, <1>2, <1>3, <1>4 DEF Validate, e

-----------------------------------------------------------------------------
(* The rule set                                                            *)

(* The rules of a direction: the entries of its list and the implicit      *)
(* deny.                                                                   *)
LEMMA RulesOfList ==
  ASSUME NEW c, IsDocument(c), NEW a \in DOMAIN c.acls
  PROVE  Len(RulesOf(c, a)) = Len(c.acls[a]) + 1 /\ Last(RulesOf(c, a)).action = "deny"
<1> DEFINE entries == c.acls[a]
           n == Len(entries)
           given == [i \in DOMAIN entries |->
                       [action |-> entries[i].action, rule |-> entries[i].rule]]
           deny == [action |-> "deny", rule |-> "implicit"]
           rules == given \o <<deny>>
<1>1. DOMAIN entries = 1 .. n /\ n \in Nat
  BY ListFacts DEF IsDocument, IsEntries
<1>2. given = [i \in 1 .. n |-> given[i]]
  BY <1>1
<1>3. deny.action = "deny" /\ RulesOf(c, a) = rules
  BY DEF RulesOf
<1> HIDE DEF given, deny
<1>4. IsList(given) /\ Len(given) = n
  BY <1>1, <1>2, ListOfFunction
<1>5. given \in Seq(ToSet(given) \cup {deny})
  BY <1>4, ListFacts
<1>6. rules = Append(given, deny)
  BY <1>5
<1>7. Len(rules) = n + 1 /\ rules[n + 1] = deny
  BY <1>4, <1>6, ListAppend
<1> HIDE DEF rules
<1> QED
  BY <1>3, <1>7 DEF Last
=============================================================================
