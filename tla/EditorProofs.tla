---------------------------- MODULE EditorProofs ----------------------------
(***************************************************************************)
(* What the configuration commands keep true of every document, whatever   *)
(* sessions enter whatever commands in whatever order.                     *)
(***************************************************************************)
EXTENDS Editor, DocumentProofs

-----------------------------------------------------------------------------
(* What an edit leaves of a document: its type, and the absence of         *)
(* conflicts if there were none.                                           *)
Follows(c, e) == IsDocument(e) /\ (ConflictFree(c) => ConflictFree(e))

(* A field that no other part of the document refers to may change freely. *)
LEMMA FieldFollows ==
  ASSUME NEW c, IsDocument(c),
         NEW f \in DOMAIN NewDocument \ {"interfaces", "acls", "nat", "routes"}, NEW v
  PROVE  Follows(c, [c EXCEPT ![f] = v])
<1> DEFINE e == [c EXCEPT ![f] = v]
<1>1. /\ DOMAIN e = DOMAIN c /\ IsMap(e)
      /\ e.interfaces = c.interfaces /\ e.acls = c.acls /\ e.nat = c.nat /\ e.routes = c.routes
  BY DEF IsDocument, IsMap, NewDocument
<1> HIDE DEF e
<1>2. IsDocument(e)
  BY <1>1 DEF IsDocument
<1>3. ConflictFree(c) => ConflictFree(e)
  BY <1>1 DEF ConflictFree, Configured
<1>4. Follows(c, e)
  BY <1>2, <1>3 DEF Follows
<1> QED
  BY <1>4 DEF e

LEMMA RoutesFollow ==
  ASSUME NEW c, IsDocument(c), NEW r, IsList(r)
  PROVE  Follows(c, [c EXCEPT !.routes = r])
<1> DEFINE e == [c EXCEPT !.routes = r]
<1>1. /\ DOMAIN e = DOMAIN c /\ IsMap(e)
      /\ e.interfaces = c.interfaces /\ e.acls = c.acls /\ e.nat = c.nat /\ e.routes = r
  BY DEF IsDocument, IsMap, NewDocument
<1> HIDE DEF e
<1>2. IsDocument(e)
  BY <1>1 DEF IsDocument
<1>3. ConflictFree(c) => ConflictFree(e)
  BY <1>1 DEF ConflictFree, Configured
<1>4. Follows(c, e)
  BY <1>2, <1>3 DEF Follows
<1> QED
  BY <1>4 DEF e

ForwardedOnce(nat) ==
  \A i, j \in DOMAIN nat : i # j => nat[i] # nat[j] /\ ~Forwards(nat[i], nat[j])

LEMMA NatFollows ==
  ASSUME NEW c, IsDocument(c), NEW nat, IsList(nat), ForwardedOnce(c.nat) => ForwardedOnce(nat)
  PROVE  Follows(c, [c EXCEPT !.nat = nat])
<1> DEFINE e == [c EXCEPT !.nat = nat]
<1>1. /\ DOMAIN e = DOMAIN c /\ IsMap(e)
      /\ e.interfaces = c.interfaces /\ e.acls = c.acls /\ e.nat = nat /\ e.routes = c.routes
  BY DEF IsDocument, IsMap, NewDocument
<1> HIDE DEF e
<1>2. IsDocument(e)
  BY <1>1 DEF IsDocument
<1>3. ConflictFree(c) => ConflictFree(e)
  BY <1>1 DEF ConflictFree, Configured, ForwardedOnce
<1>4. Follows(c, e)
  BY <1>2, <1>3 DEF Follows
<1> QED
  BY <1>4 DEF e

LEMMA ListsFollow ==
  ASSUME NEW c, IsDocument(c), NEW m, IsMap(m), \A a \in DOMAIN m : IsEntries(m[a])
  PROVE  Follows(c, [c EXCEPT !.acls = m])
<1> DEFINE e == [c EXCEPT !.acls = m]
<1>1. /\ DOMAIN e = DOMAIN c /\ IsMap(e)
      /\ e.interfaces = c.interfaces /\ e.acls = m /\ e.nat = c.nat /\ e.routes = c.routes
  BY DEF IsDocument, IsMap, NewDocument
<1> HIDE DEF e
<1>2. IsDocument(e)
  BY <1>1 DEF IsDocument
<1>3. ConflictFree(c) => ConflictFree(e)
  BY <1>1 DEF ConflictFree, Configured
<1>4. Follows(c, e)
  BY <1>2, <1>3 DEF Follows
<1> QED
  BY <1>4 DEF e

(* Members of a list of translations, each of them once, in their order.   *)
LEMMA FewerForwards ==
  ASSUME NEW nat, IsList(nat), NEW T, ForwardedOnce(nat)
  PROVE  ForwardedOnce(Only(nat, T))
<1> DEFINE left == Only(nat, T)
<1>1. /\ DOMAIN nat = 1 .. Len(nat) /\ IsList(left) /\ Keeps(left, nat, T, Len(nat))
      /\ DOMAIN left = 1 .. Len(left) /\ Len(left) \in Nat /\ Len(nat) \in Nat
  BY ListFacts, ListOnly
<1> HIDE DEF left
<1>2. PICK place : KeepsAt(left, nat, T, Len(nat), place)
  BY <1>1 DEF Keeps
<1>3. ASSUME NEW i \in DOMAIN left, NEW j \in DOMAIN left, i # j
      PROVE  left[i] # left[j] /\ ~Forwards(left[i], left[j])
  <2>1. /\ place[i] \in DOMAIN nat /\ place[j] \in DOMAIN nat
        /\ left[i] = nat[place[i]] /\ left[j] = nat[place[j]]
    BY <1>1, <1>2 DEF KeepsAt
  <2>2. place[i] < place[j] \/ place[j] < place[i]
    <3>1. i < j \/ j < i
      BY <1>1, <1>3
    <3> QED
      BY <1>1, <1>2, <3>1 DEF KeepsAt
  <2>3. place[i] # place[j]
    <3>1. place[i] \in Nat /\ place[j] \in Nat
      BY <1>1, <2>1
    <3> QED
      BY <2>2, <3>1
  <2> QED
    BY <2>1, <2>3 DEF ForwardedOnce
<1>4. ForwardedOnce(left)
  BY <1>3 DEF ForwardedOnce
<1> QED
  BY <1>4 DEF left

LEMMA AddedIsList ==
  ASSUME NEW s, IsList(s), NEW x
  PROVE  IsList(Added(s, x)) /\ (x \notin ToSet(s) => Added(s, x) = Append(s, x))
         /\ (x \in ToSet(s) => Added(s, x) = s)
<1>1. Contains(s, x) <=> x \in ToSet(s)
  BY ListFacts DEF Contains
<1> QED
  BY <1>1, ListAppend DEF Added

(* One more translation that conflicts with none.                          *)
LEMMA OneMoreForward ==
  ASSUME NEW nat, IsList(nat), ForwardedOnce(nat), NEW x,
         ~ \E r \in ToSet(nat) : Forwards(r, x)
  PROVE  ForwardedOnce(Added(nat, x))
<1> DEFINE n == Len(nat)
           more == Append(nat, x)
<1>1. CASE x \in ToSet(nat)
  BY <1>1, AddedIsList
<1>2. CASE x \notin ToSet(nat)
  <2>1. /\ n \in Nat /\ DOMAIN nat = 1 .. n /\ ToSet(nat) = {nat[i] : i \in 1 .. n}
        /\ IsList(more) /\ Len(more) = n + 1 /\ DOMAIN more = 1 .. Len(more)
        /\ more[n + 1] = x /\ \A i \in 1 .. n : more[i] = nat[i]
    BY ListFacts, ListAppend
  <2> HIDE DEF n, more
  <2>2. ASSUME NEW i \in DOMAIN more, NEW j \in DOMAIN more, i # j
        PROVE  more[i] # more[j] /\ ~Forwards(more[i], more[j])
    <3>1. CASE i \in 1 .. n /\ j \in 1 .. n
      BY <2>1, <2>2, <3>1 DEF ForwardedOnce
    <3>2. CASE i = n + 1 /\ j \in 1 .. n
      <4>1. more[i] = x /\ more[j] = nat[j] /\ nat[j] \in ToSet(nat)
        BY <2>1, <3>2
      <4> QED
        BY <1>2, <4>1 DEF Forwards
    <3>3. CASE i \in 1 .. n /\ j = n + 1
      <4>1. more[j] = x /\ more[i] = nat[i] /\ nat[i] \in ToSet(nat)
        BY <2>1, <3>3
      <4> QED
        BY <1>2, <4>1 DEF Forwards
    <3> QED
      BY <2>1, <2>2, <3>1, <3>2, <3>3
  <2>3. ForwardedOnce(more)
    BY <2>2 DEF ForwardedOnce
  <2> QED
    BY <1>2, <2>3, AddedIsList DEF more
<1> QED
  BY <1>1, <1>2

-----------------------------------------------------------------------------
(* Interfaces                                                              *)

LEMMA InterfaceIsOne ==
  ASSUME NEW c, IsDocument(c), NEW n
  PROVE  /\ IsInterface(InterfaceOf(c, n)) /\ IsList(InterfaceOf(c, n).members)
         /\ IsList(InterfaceOf(c, n).ipv4) /\ IsList(InterfaceOf(c, n).ipv6)
<1>1. IsInterface(InterfaceOf(c, n))
  BY NewInterfaceIsOne DEF InterfaceOf, Configured, IsDocument
<1> QED
  BY <1>1 DEF IsInterface

(* The members of an interface are those of another, or of no other.       *)
Free(c, n, new) ==
  \A x \in ToSet(new.members) :
    x \in ToSet(InterfaceOf(c, n).members) \/ ~Elsewhere(c, n, x)

LEMMA InterfaceFollows ==
  ASSUME NEW c, IsDocument(c), NEW n, NEW new, IsInterface(new), Free(c, n, new)
  PROVE  Follows(c, WithInterface(c, n, new))
<1> DEFINE old == c.interfaces
           m == Updated(old, n, new)
           e == [c EXCEPT !.interfaces = m]
<1>1. /\ DOMAIN e = DOMAIN c /\ IsMap(e) /\ DOMAIN c = DOMAIN NewDocument
      /\ e.interfaces = m /\ e.acls = c.acls /\ e.nat = c.nat /\ e.routes = c.routes
  BY DEF IsDocument, IsMap, NewDocument
<1>2. /\ IsMap(m) /\ DOMAIN m = DOMAIN old \cup {n} /\ m[n] = new
      /\ \A j \in DOMAIN old : j # n => m[j] = old[j]
  <2> HIDE DEF old
  <2> QED
    BY DEF Updated, IsMap
<1>3. e = WithInterface(c, n, new)
  BY DEF WithInterface
<1> HIDE DEF e, m
<1>4. IsDocument(e)
  <2>1. IsFiniteSet(DOMAIN m)
    BY <1>2, FS_AddElement DEF IsDocument
  <2> QED
    BY <1>1, <1>2, <2>1 DEF IsDocument
<1>5. ASSUME ConflictFree(c) PROVE ConflictFree(e)
  <2>1. \A i, j \in DOMAIN old : i # j => ToSet(old[i].members) \cap ToSet(old[j].members) = {}
    BY <1>5 DEF ConflictFree, Configured
  <2>2. ASSUME NEW j \in DOMAIN old, j # n
        PROVE  ToSet(m[j].members) \cap ToSet(new.members) = {}
    <3> SUFFICES ASSUME NEW x \in ToSet(new.members), x \in ToSet(old[j].members) PROVE FALSE
      BY <1>2, <2>2
    <3>1. IsList(old[j].members)
      BY DEF IsDocument, IsInterface
    <3>2. Contains(old[j].members, x)
      BY <3>1, ListFacts DEF Contains
    <3>3. Elsewhere(c, n, x)
      BY <2>2, <3>2 DEF Elsewhere, Configured
    <3>4. x \in ToSet(InterfaceOf(c, n).members)
      BY <3>3 DEF Free
    <3>5. CASE n \in DOMAIN old
      BY <2>1, <2>2, <3>4, <3>5 DEF InterfaceOf, Configured
    <3>6. CASE n \notin DOMAIN old
      BY <3>4, <3>6, NoList, NewInterfaceIsOne DEF InterfaceOf, Configured
    <3> QED
      BY <3>5, <3>6
  <2>3. ASSUME NEW i \in DOMAIN m, NEW j \in DOMAIN m, i # j
        PROVE  ToSet(m[i].members) \cap ToSet(m[j].members) = {}
    <3>1. CASE i # n /\ j # n
      BY <1>2, <2>1, <2>3, <3>1
    <3>2. CASE i = n
      BY <1>2, <2>2, <2>3, <3>2
    <3>3. CASE j = n
      BY <1>2, <2>2, <2>3, <3>3
    <3> QED
      BY <3>1, <3>2, <3>3
  <2> QED
    BY <1>1, <1>5, <2>3 DEF ConflictFree, Configured
<1>6. Follows(c, e)
  BY <1>4, <1>5 DEF Follows
<1> QED
  BY <1>3, <1>6

(* A setting other than the members of an interface, which may be new.     *)
LEMMA SettingOfDocument ==
  ASSUME NEW c, IsDocument(c), NEW n, NEW f \in DOMAIN NewInterface \ {"members"}, NEW v,
         f \in ListFields => IsList(v)
  PROVE  Follows(c, WithInterface(c, n, [InterfaceOf(c, n) EXCEPT ![f] = v]))
<1> DEFINE ifc == InterfaceOf(c, n)
           new == [ifc EXCEPT ![f] = v]
<1>1. IsInterface(ifc)
  BY InterfaceIsOne
<1>2. IsInterface(new) /\ new.members = ifc.members
  BY <1>1, SettingFollows
<1> HIDE DEF new
<1>3. Free(c, n, new)
  BY <1>2 DEF Free
<1>4. Follows(c, WithInterface(c, n, new))
  BY <1>2, <1>3, InterfaceFollows
<1> QED
  BY <1>4 DEF new

(* The same for the addresses and the flag that asks for one.              *)
LEMMA AddressesOfDocument ==
  ASSUME NEW c, IsDocument(c), NEW n, NEW b, NEW v, IsList(v)
  PROVE  Follows(c, WithInterface(c, n, [InterfaceOf(c, n) EXCEPT !.dhcp = b, !.ipv4 = v]))
<1> DEFINE ifc == InterfaceOf(c, n)
           mid == [ifc EXCEPT !.dhcp = b]
           new == [mid EXCEPT !.ipv4 = v]
<1>1. IsInterface(ifc)
  BY InterfaceIsOne
<1> HIDE DEF ifc
<1>2. IsInterface(mid) /\ mid.members = ifc.members
  BY <1>1, SettingFollows DEF NewInterface, ListFields
<1> HIDE DEF mid
<1>3. IsInterface(new) /\ new.members = mid.members
  BY <1>2, SettingFollows DEF NewInterface, ListFields
<1> HIDE DEF new
<1>4. Free(c, n, new)
  BY <1>2, <1>3 DEF Free, ifc
<1>5. Follows(c, WithInterface(c, n, new))
  BY <1>3, <1>4, InterfaceFollows
<1>6. new = [ifc EXCEPT !.dhcp = b, !.ipv4 = v]
  BY DEF new, mid
<1> QED
  BY <1>5, <1>6 DEF ifc

-----------------------------------------------------------------------------
(* The commands of the global tree                                         *)

LEMMA EditGlobalFollows ==
  ASSUME NEW c, IsDocument(c), NEW k, k.op \in Globals, NEW e \in EditGlobal(c, k)
  PROVE  Follows(c, e)
<1> DEFINE others == DOMAIN NewDocument \ {"interfaces", "acls", "nat", "routes"}
<1>1. \E f \in others : \E v : e = [c EXCEPT ![f] = v]
  <2>0. Globals \subseteq {"hostname", "domain", "name-server", "routing", "routing6", "secret",
                          "username"}
        /\ {"hostname", "domain", "servers", "routing", "routing6", "secret", "users"}
             \subseteq others
    BY DEF Globals, NewDocument
  <2> HIDE DEF others
  <2>1. CASE k.op = "hostname"
    BY <2>0, <2>1 DEF EditGlobal
  <2>2. CASE k.op = "domain"
    BY <2>0, <2>2 DEF EditGlobal
  <2>3. CASE k.op = "name-server"
    BY <2>0, <2>3 DEF EditGlobal, Allowed
  <2>4. CASE k.op = "routing"
    BY <2>0, <2>4 DEF EditGlobal
  <2>5. CASE k.op = "routing6"
    BY <2>0, <2>5 DEF EditGlobal
  <2>6. CASE k.op = "secret"
    BY <2>0, <2>6 DEF EditGlobal
  <2>7. CASE k.op = "username"
    BY <2>0, <2>7 DEF EditGlobal
  <2> QED
    BY <2>0, <2>1, <2>2, <2>3, <2>4, <2>5, <2>6, <2>7
<1>2. PICK f \in others : \E v : e = [c EXCEPT ![f] = v]
  BY <1>1
<1>3. PICK v : e = [c EXCEPT ![f] = v]
  BY <1>2
<1>4. Follows(c, [c EXCEPT ![f] = v])
  BY FieldFollows
<1> QED
  BY <1>3, <1>4

LEMMA EditRouteFollows ==
  ASSUME NEW c, IsDocument(c), NEW k, NEW e \in EditRoute(c, k)
  PROVE  Follows(c, e)
<1>1. \E r : IsList(r) /\ e = [c EXCEPT !.routes = r]
  <2>1. IsList(c.routes)
    BY DEF IsDocument
  <2>2. CASE k.no
    BY <2>1, <2>2, ListOnly DEF EditRoute, Allowed
  <2>3. CASE ~k.no
    BY <2>1, <2>3, AddedIsList DEF EditRoute
  <2> QED
    BY <2>2, <2>3
<1> QED
  BY <1>1, RoutesFollow

LEMMA EditNATFollows ==
  ASSUME NEW c, IsDocument(c), NEW k, NEW e \in EditNAT(c, k)
  PROVE  Follows(c, e)
<1>1. IsList(c.nat)
  BY DEF IsDocument
<1>2. CASE k.no
  <2>1. e = [c EXCEPT !.nat = Minus(c.nat, <<k.arg>>)]
    BY <1>2 DEF EditNAT, Allowed
  <2>2. IsList(Minus(c.nat, <<k.arg>>))
    BY <1>1, ListOnly DEF Minus
  <2>3. ForwardedOnce(c.nat) => ForwardedOnce(Minus(c.nat, <<k.arg>>))
    BY <1>1, FewerForwards DEF Minus
  <2> QED
    BY <2>1, <2>2, <2>3, NatFollows
<1>3. CASE ~k.no
  <2>1. /\ e = [c EXCEPT !.nat = Added(c.nat, k.arg)]
        /\ ~ \E r \in ToSet(c.nat) : Forwards(r, k.arg)
    BY <1>3 DEF EditNAT, Allowed
  <2>2. IsList(Added(c.nat, k.arg))
    BY <1>1, AddedIsList
  <2>3. ForwardedOnce(c.nat) => ForwardedOnce(Added(c.nat, k.arg))
    BY <1>1, <2>1, OneMoreForward
  <2> QED
    BY <2>1, <2>2, <2>3, NatFollows
<1> QED
  BY <1>2, <1>3

LEMMA EditHTTPFollows ==
  ASSUME NEW c, IsDocument(c), NEW k, NEW e \in EditHTTP(c, k)
  PROVE  Follows(c, e)
<1>1. "web" \in DOMAIN NewDocument \ {"interfaces", "acls", "nat", "routes"}
  BY DEF NewDocument
<1>2. \E v : e = [c EXCEPT !.web = v]
  BY DEF EditHTTP
<1> QED
  BY <1>1, <1>2, FieldFollows, SMTT(30)

LEMMA EditInterfacesFollows ==
  ASSUME NEW c, IsDocument(c), NEW k, k.no \in BOOLEAN, NEW e \in EditInterfaces(c, k)
  PROVE  Follows(c, e)
<1>0. Follows(c, c)
  BY DEF Follows
<1>1. CASE k.no
  <2> DEFINE m == Without(c.interfaces, k.arg)
             d == [c EXCEPT !.interfaces = m]
  <2>1. e = d
    BY <1>1 DEF EditInterfaces
  <2>2. /\ DOMAIN d = DOMAIN c /\ IsMap(d) /\ DOMAIN c = DOMAIN NewDocument
        /\ d.interfaces = m /\ d.acls = c.acls /\ d.nat = c.nat /\ d.routes = c.routes
    BY DEF IsDocument, IsMap, NewDocument
  <2>3. /\ IsMap(m) /\ DOMAIN m \subseteq DOMAIN c.interfaces
        /\ \A n \in DOMAIN m : m[n] = c.interfaces[n]
    BY DEF Without, IsMap
  <2> HIDE DEF m, d
  <2>4. IsDocument(d)
    <3>1. IsFiniteSet(DOMAIN m)
      BY <2>3, FS_Subset DEF IsDocument
    <3> QED
      BY <2>2, <2>3, <3>1 DEF IsDocument
  <2>5. ConflictFree(c) => ConflictFree(d)
    BY <2>2, <2>3 DEF ConflictFree, Configured
  <2> QED
    BY <2>1, <2>4, <2>5 DEF Follows
<1>2. CASE ~k.no
  <2>1. e = c \/ e = WithInterface(c, k.arg, InterfaceOf(c, k.arg))
    BY <1>2 DEF EditInterfaces
  <2>2. Free(c, k.arg, InterfaceOf(c, k.arg))
    BY DEF Free
  <2>3. Follows(c, WithInterface(c, k.arg, InterfaceOf(c, k.arg)))
    BY <2>2, InterfaceIsOne, InterfaceFollows
  <2> QED
    BY <1>0, <2>1, <2>3
<1> QED
  BY <1>1, <1>2

LEMMA ListIsEntries ==
  ASSUME NEW c, IsDocument(c), NEW a
  PROVE  IsEntries(ListOf(c, a)) /\ IsList(ListOf(c, a))
<1>1. IsEntries(<<>>)
  BY NoList DEF IsEntries
<1> QED
  BY <1>1 DEF ListOf, IsDocument, IsEntries

(* Another list in the place of one, or next to those there are.           *)
LEMMA ListFollows ==
  ASSUME NEW c, IsDocument(c), NEW a, NEW entries, IsEntries(entries)
  PROVE  Follows(c, [c EXCEPT !.acls = Updated(@, a, entries)])
<1> DEFINE old == c.acls
           m == Updated(old, a, entries)
<1>1. \A b \in DOMAIN old : IsEntries(old[b])
  BY DEF IsDocument
<1>2. /\ IsMap(m) /\ DOMAIN m = DOMAIN old \cup {a} /\ m[a] = entries
      /\ \A b \in DOMAIN old : b # a => m[b] = old[b]
  <2> HIDE DEF old
  <2> QED
    BY DEF Updated, IsMap
<1> HIDE DEF m
<1>3. \A b \in DOMAIN m : IsEntries(m[b])
  BY <1>1, <1>2
<1>4. Follows(c, [c EXCEPT !.acls = m])
  BY <1>2, <1>3, ListsFollow
<1> QED
  BY <1>4 DEF m

LEMMA EditListsFollows ==
  ASSUME NEW c, IsDocument(c), NEW k, k.no \in BOOLEAN, NEW e \in EditLists(c, k)
  PROVE  Follows(c, e)
<1>1. CASE k.no
  <2> DEFINE m == Without(c.acls, k.arg)
  <2>1. e = [c EXCEPT !.acls = m]
    BY <1>1 DEF EditLists
  <2>2. /\ IsMap(m) /\ DOMAIN m \subseteq DOMAIN c.acls
        /\ \A n \in DOMAIN m : m[n] = c.acls[n]
    BY DEF Without, IsMap
  <2> HIDE DEF m
  <2>3. \A a \in DOMAIN m : IsEntries(m[a])
    BY <2>2 DEF IsDocument
  <2> QED
    BY <2>1, <2>2, <2>3, ListsFollow
<1>2. CASE ~k.no
  BY <1>2, ListIsEntries, ListFollows DEF EditLists
<1> QED
  BY <1>1, <1>2

LEMMA EditPoolsFollows ==
  ASSUME NEW c, IsDocument(c), NEW k, NEW e \in EditPools(c, k)
  PROVE  Follows(c, e)
<1>1. "pools" \in DOMAIN NewDocument \ {"interfaces", "acls", "nat", "routes"}
  BY DEF NewDocument
<1>2. e = c \/ \E v : e = [c EXCEPT !.pools = v]
  BY DEF EditPools
<1>3. Follows(c, c)
  BY DEF Follows
<1> QED
  BY <1>1, <1>2, <1>3, FieldFollows

LEMMA EditPoolFollows ==
  ASSUME NEW c, IsDocument(c), NEW p, NEW k, NEW e \in EditPool(c, p, k)
  PROVE  Follows(c, e)
<1>1. "pools" \in DOMAIN NewDocument \ {"interfaces", "acls", "nat", "routes"}
  BY DEF NewDocument
<1>2. \E v : e = [c EXCEPT !.pools = v]
  BY DEF EditPool
<1> QED
  BY <1>1, <1>2, FieldFollows

-----------------------------------------------------------------------------
(* The commands of an interface                                            *)

LEMMA EditAddressFollows ==
  ASSUME NEW c, IsDocument(c), NEW n, NEW k, NEW e \in EditAddress(c, n, k)
  PROVE  Follows(c, e)
<1> DEFINE ifc == InterfaceOf(c, n)
           others == Minus(ifc.ipv4, <<k.arg>>)
           rest == IF others = <<>> THEN <<>> ELSE Tail(others)
           primary == <<k.arg>> \o rest
           Fewer == WithInterface(c, n, [ifc EXCEPT !.ipv4 = others])
           Given(v) == WithInterface(c, n, [ifc EXCEPT !.dhcp = FALSE, !.ipv4 = v])
<1>1. IsList(ifc.ipv4) /\ IsList(others)
  BY InterfaceIsOne, MinusIsList
<1>2. IsList(rest)
  BY <1>1, ListFirst, NoList
<1>3. IsList(primary) /\ IsList(Added(ifc.ipv4, k.arg))
  BY <1>1, <1>2, ListFirst, AddedIsList
<1>4. e \in {Fewer, Given(Added(ifc.ipv4, k.arg)), Given(primary)}
  BY DEF EditAddress, Allowed
<1>5. Follows(c, Fewer)
  BY <1>1, SettingOfDocument DEF NewInterface
<1>6. Follows(c, Given(Added(ifc.ipv4, k.arg))) /\ Follows(c, Given(primary))
  BY <1>3, AddressesOfDocument
<1> QED
  BY <1>4, <1>5, <1>6

LEMMA EditAddress6Follows ==
  ASSUME NEW c, IsDocument(c), NEW n, NEW k, NEW e \in EditAddress6(c, n, k)
  PROVE  Follows(c, e)
<1> DEFINE ifc == InterfaceOf(c, n)
           With(v) == WithInterface(c, n, [ifc EXCEPT !.ipv6 = v])
<1>1. IsList(Minus(ifc.ipv6, <<k.arg>>)) /\ IsList(Append(ifc.ipv6, k.arg))
  BY InterfaceIsOne, MinusIsList, ListAppend
<1>2. e \in {c, With(Minus(ifc.ipv6, <<k.arg>>)), With(Append(ifc.ipv6, k.arg))}
  BY DEF EditAddress6, Allowed
<1>3. \A v : IsList(v) => Follows(c, With(v))
  BY SettingOfDocument DEF NewInterface
<1>4. Follows(c, c)
  BY DEF Follows
<1> QED
  BY <1>1, <1>2, <1>3, <1>4

LEMMA EditFieldFollows ==
  ASSUME NEW c, IsDocument(c), NEW n, NEW k, k.op \in FieldOps, k.no \in BOOLEAN,
         NEW e \in EditField(c, n, k)
  PROVE  Follows(c, e)
<1> DEFINE ifc == InterfaceOf(c, n)
           plain == {"description", "shutdown", "mtu", "media", "ipv6"}
           With(f, v) == WithInterface(c, n, [ifc EXCEPT ![f] = v])
           Given(b, v) == WithInterface(c, n, [ifc EXCEPT !.dhcp = b, !.ipv4 = v])
<1>1. \/ \E f \in plain : \E v : e = With(f, v) /\ (f = "ipv6" => v = <<>>)
      \/ \E b : e = Given(b, ifc.ipv4) \/ e = Given(b, <<>>)
  <2>1. CASE k.op = "description"
    BY <2>1 DEF EditField
  <2>2. CASE k.op = "shutdown"
    BY <2>2 DEF EditField
  <2>3. CASE k.op = "mtu"
    BY <2>3 DEF EditField
  <2>4. CASE k.op = "media"
    BY <2>4 DEF EditField
  <2>5. CASE k.op = "dhcp"
    BY <2>5 DEF EditField
  <2>6. CASE k.op = "addresses"
    BY <2>6 DEF EditField
  <2>7. CASE k.op = "addresses6"
    BY <2>7 DEF EditField
  <2> QED
    BY <2>1, <2>2, <2>3, <2>4, <2>5, <2>6, <2>7 DEF FieldOps
<1>2. IsList(ifc.ipv4) /\ IsList(<<>>)
  BY InterfaceIsOne, NoList
<1>3. ASSUME NEW f \in plain, NEW v, f = "ipv6" => v = <<>> PROVE Follows(c, With(f, v))
  <2>1. f \in DOMAIN NewInterface \ {"members"}
    BY DEF NewInterface
  <2>2. f \in ListFields => IsList(v)
    BY <1>2, <1>3 DEF ListFields
  <2> QED
    BY <2>1, <2>2, SettingOfDocument
<1>4. ASSUME NEW b, NEW v, IsList(v) PROVE Follows(c, Given(b, v))
  BY <1>4, AddressesOfDocument
<1>5. CASE \E b : e = Given(b, ifc.ipv4) \/ e = Given(b, <<>>)
  BY <1>2, <1>4, <1>5
<1>6. CASE \E f \in plain : \E v : e = With(f, v) /\ (f = "ipv6" => v = <<>>)
  BY <1>3, <1>6
<1> QED
  BY <1>1, <1>5, <1>6

LEMMA EditGroupFollows ==
  ASSUME NEW c, IsDocument(c), NEW n, NEW k, NEW e \in EditGroup(c, n, k)
  PROVE  Follows(c, e)
<1> DEFINE With(f, v) == WithInterface(c, n, [InterfaceOf(c, n) EXCEPT ![f] = v])
<1>1. \E f \in {"aclIn", "aclOut"} : \E v : e = With(f, v)
  BY DEF EditGroup, Allowed
<1>2. ASSUME NEW f \in {"aclIn", "aclOut"}, NEW v PROVE Follows(c, With(f, v))
  <2>1. f \in DOMAIN NewInterface \ {"members"} /\ f \notin ListFields
    BY DEF NewInterface, ListFields
  <2> QED
    BY <2>1, SettingOfDocument
<1> QED
  BY <1>1, <1>2

LEMMA EditVLANFollows ==
  ASSUME NEW c, IsDocument(c), NEW n, NEW k, NEW e \in EditVLAN(c, n, k)
  PROVE  Follows(c, e)
<1>1. \E v : e = WithInterface(c, n, [InterfaceOf(c, n) EXCEPT !.vlan = v])
  BY DEF EditVLAN, Allowed
<1>2. "vlan" \in DOMAIN NewInterface \ {"members"} /\ "vlan" \notin ListFields
  BY DEF NewInterface, ListFields
<1> QED
  BY <1>1, <1>2, SettingOfDocument

LEMMA EditWirelessFollows ==
  ASSUME NEW c, IsDocument(c), NEW n, NEW k, NEW e \in EditWireless(c, n, k)
  PROVE  Follows(c, e)
<1>1. e = c \/ \E v : e = WithInterface(c, n, [InterfaceOf(c, n) EXCEPT !.wireless = v])
  BY DEF EditWireless
<1>2. "wireless" \in DOMAIN NewInterface \ {"members"} /\ "wireless" \notin ListFields
  BY DEF NewInterface, ListFields
<1>3. Follows(c, c)
  BY DEF Follows
<1> QED
  BY <1>1, <1>2, <1>3, SettingOfDocument

(* A member is entered only if no other interface has it.                  *)
LEMMA EditMemberFollows ==
  ASSUME NEW c, IsDocument(c), NEW n, NEW k, NEW e \in EditMember(c, n, k)
  PROVE  Follows(c, e)
<1> DEFINE ifc == InterfaceOf(c, n)
           fewer == Minus(ifc.members, <<k.arg>>)
           more == Append(ifc.members, k.arg)
           With(v) == WithInterface(c, n, [ifc EXCEPT !.members = v])
<1>1. IsInterface(ifc) /\ IsList(ifc.members) /\ "members" \in DOMAIN NewInterface
  BY InterfaceIsOne DEF NewInterface
<1>2. /\ IsList(fewer) /\ ToSet(fewer) \subseteq ToSet(ifc.members)
      /\ IsList(more) /\ ToSet(more) = ToSet(ifc.members) \cup {k.arg}
  BY <1>1, MinusIsList, ListAppend
<1>3. \/ e = c \/ e = With(fewer)
      \/ e = With(more) /\ ~Elsewhere(c, n, k.arg)
  BY DEF EditMember, Allowed
<1>4. ASSUME NEW v, IsList(v),
             \A x \in ToSet(v) : x \in ToSet(ifc.members) \/ ~Elsewhere(c, n, x)
      PROVE  Follows(c, With(v))
  <2> DEFINE new == [ifc EXCEPT !.members = v]
  <2>1. IsInterface(new) /\ new.members = v
    BY <1>1, <1>4, SettingFollows
  <2> HIDE DEF new
  <2>2. Free(c, n, new)
    BY <1>4, <2>1 DEF Free
  <2>3. Follows(c, WithInterface(c, n, new))
    BY <2>1, <2>2, InterfaceFollows
  <2> QED
    BY <2>3 DEF new
<1>5. Follows(c, With(fewer))
  BY <1>2, <1>4
<1>6. ~Elsewhere(c, n, k.arg) => Follows(c, With(more))
  BY <1>2, <1>4
<1>7. Follows(c, c)
  BY DEF Follows
<1> QED
  BY <1>3, <1>5, <1>6, <1>7

-----------------------------------------------------------------------------
(* The commands of an access list                                          *)

(* Every list of a document is in the order of its numbers, each number    *)
(* there once: what Normalize and Validate make of it together.            *)
Ordered(c) == \A a \in DOMAIN c.acls : Ascending(c.acls[a])

LEMMA ListIsAscending ==
  ASSUME NEW c, IsDocument(c), Ordered(c), NEW a
  PROVE  Ascending(ListOf(c, a))
BY NoList, ListFacts DEF ListOf, Ordered, Ascending

LEMMA LastIsLargest ==
  ASSUME NEW entries, IsEntries(entries), Ascending(entries)
  PROVE  /\ LastNumber(entries) \in Nat
         /\ \A i \in DOMAIN entries : entries[i].seq <= LastNumber(entries)
<1> DEFINE n == Len(entries)
           numbers == {0} \cup {e.seq : e \in ToSet(entries)}
           last == IF n = 0 THEN 0 ELSE entries[n].seq
<1>1. /\ DOMAIN entries = 1 .. n /\ n \in Nat
      /\ ToSet(entries) = {entries[i] : i \in 1 .. n}
      /\ \A i \in 1 .. n : entries[i].seq \in Nat
  BY ListFacts DEF IsEntries
<1>2. numbers = {0} \cup {entries[i].seq : i \in 1 .. n}
  BY <1>1
<1>3. last \in numbers /\ last \in Nat
  BY <1>1, <1>2
<1>4. \A x \in numbers : x \in Nat /\ last >= x
  <2>1. ASSUME NEW i \in 1 .. n PROVE last >= entries[i].seq
    <3>1. n # 0 /\ n \in 1 .. n /\ last = entries[n].seq
      BY <1>1
    <3>2. i = n \/ i < n
      <4>1. n \in Nat
        BY <1>1
      <4> HIDE DEF n
      <4> QED
        BY <4>1
    <3>3. i < n => entries[i].seq < entries[n].seq
      BY <1>1, <3>1 DEF Ascending
    <3>4. entries[i].seq \in Nat /\ entries[n].seq \in Nat
      BY <1>1, <3>1
    <3> QED
      BY <3>1, <3>2, <3>3, <3>4
  <2> HIDE DEF last
  <2>2. last >= 0
    BY <1>3
  <2> QED
    BY <1>1, <1>2, <2>1, <2>2
<1> HIDE DEF numbers, last
<1>5. Max(numbers) \in numbers /\ \A x \in numbers : Max(numbers) >= x
  BY <1>3, <1>4 DEF Max
<1>6. LastNumber(entries) = Max(numbers)
  BY DEF LastNumber, numbers
<1>7. \A i \in 1 .. n : entries[i].seq \in numbers
  BY <1>2
<1>8. ASSUME NEW i \in DOMAIN entries PROVE entries[i].seq <= LastNumber(entries)
  BY <1>1, <1>4, <1>5, <1>6, <1>7
<1> QED
  BY <1>4, <1>5, <1>6, <1>8

LEMMA NextIsLarger ==
  ASSUME NEW entries, IsEntries(entries), Ascending(entries)
  PROVE  /\ NextNumber(entries) \in Nat
         /\ \A i \in DOMAIN entries : entries[i].seq < NextNumber(entries)
<1> DEFINE last == LastNumber(entries)
<1>1. last \in Nat /\ \A i \in DOMAIN entries : entries[i].seq <= last
  BY LastIsLargest
<1>2. NextNumber(entries) = (last \div 10 + 1) * 10
  BY DEF NextNumber
<1>3. \A i \in DOMAIN entries : entries[i].seq \in Nat
  BY DEF IsEntries
<1> HIDE DEF last
<1> QED
  BY <1>1, <1>2, <1>3

LEMMA FewerEntries ==
  ASSUME NEW entries, IsEntries(entries), NEW T
  PROVE  IsEntries(Only(entries, T))
<1>1. IsList(entries) /\ \A e \in ToSet(entries) :
        DOMAIN e = {"seq", "action", "rule"} /\ e.seq \in Nat
  BY DEF IsEntries, ToSet
<1>2. IsList(Only(entries, T)) /\ ToSet(Only(entries, T)) \subseteq ToSet(entries)
  BY <1>1, ListOnly
<1>3. \A i \in DOMAIN Only(entries, T) : Only(entries, T)[i] \in ToSet(Only(entries, T))
  BY DEF ToSet
<1> QED
  BY <1>1, <1>2, <1>3 DEF IsEntries

LEMMA OneMoreEntry ==
  ASSUME NEW entries, IsEntries(entries), NEW e, DOMAIN e = {"seq", "action", "rule"}, e.seq \in Nat
  PROVE  IsEntries(Append(entries, e))
<1> DEFINE more == Append(entries, e)
           n == Len(entries)
<1>1. IsList(entries) /\ DOMAIN entries = 1 .. n /\ n \in Nat
  BY ListFacts DEF IsEntries
<1>2. /\ IsList(more) /\ Len(more) = n + 1 /\ more[n + 1] = e
      /\ \A i \in 1 .. n : more[i] = entries[i]
  BY <1>1, ListAppend
<1>3. DOMAIN more = 1 .. n + 1
  BY <1>2, ListFacts
<1> HIDE DEF more, n
<1>4. ASSUME NEW i \in DOMAIN more
      PROVE  DOMAIN more[i] = {"seq", "action", "rule"} /\ more[i].seq \in Nat
  <2>1. CASE i \in 1 .. n
    BY <1>1, <1>2, <2>1 DEF IsEntries
  <2>2. CASE i = n + 1
    BY <1>2, <2>2
  <2> QED
    BY <1>1, <1>3, <2>1, <2>2
<1>5. IsEntries(more)
  BY <1>2, <1>4 DEF IsEntries
<1> QED
  BY <1>5 DEF more

LEMMA EditEntryFollows ==
  ASSUME NEW c, IsDocument(c), Ordered(c), NEW a, NEW k, k.arg.seq \in Nat,
         NEW e \in EditEntry(c, a, k)
  PROVE  Follows(c, e)
<1> DEFINE entries == ListOf(c, a)
           With(v) == [c EXCEPT !.acls = Updated(@, a, v)]
           number == IF k.arg.seq # 0 THEN k.arg.seq ELSE NextNumber(entries)
           entry == [seq |-> number, action |-> k.arg.action,
                     rule |-> ParseRule(k.arg.action, k.arg.words).value]
<1>1. IsEntries(entries) /\ Ascending(entries)
  BY ListIsEntries, ListIsAscending
<1>2. number \in Nat
  BY <1>1, NextIsLarger
<1>3. \/ e = c \/ \E T : e = With(Only(entries, T))
      \/ e = With(Append(entries, entry))
  BY DEF EditEntry, Allowed
<1> HIDE DEF number
<1>4. IsEntries(Append(entries, entry)) /\ \A T : IsEntries(Only(entries, T))
  BY <1>1, <1>2, FewerEntries, OneMoreEntry
<1>5. Follows(c, c)
  BY DEF Follows
<1> HIDE DEF entries, entry
<1> QED
  BY <1>3, <1>4, <1>5, ListFollows

LEMMA EditNumberFollows ==
  ASSUME NEW c, IsDocument(c), NEW a, NEW k, NEW e \in EditNumber(c, a, k)
  PROVE  Follows(c, e)
<1>1. \E T : e = [c EXCEPT !.acls = Updated(@, a, Only(ListOf(c, a), T))]
  BY DEF EditNumber, Allowed
<1>2. \A T : IsEntries(Only(ListOf(c, a), T))
  BY ListIsEntries, FewerEntries
<1> QED
  BY <1>1, <1>2, ListFollows

LEMMA ResequenceFollows ==
  ASSUME NEW c, IsDocument(c), NEW a, NEW e \in Resequence(c, a)
  PROVE  Follows(c, e)
<1>1. CASE a \notin DOMAIN c.acls
  BY <1>1 DEF Resequence, Follows
<1>2. CASE a \in DOMAIN c.acls
  <2> DEFINE old == c.acls[a]
             n == Len(old)
             new == [i \in DOMAIN old |-> [old[i] EXCEPT !.seq = 10 * i]]
             m == [c.acls EXCEPT ![a] = new]
  <2>1. /\ IsEntries(old) /\ DOMAIN old = 1 .. n /\ n \in Nat
    BY <1>2, ListFacts DEF IsDocument, IsEntries
  <2>2. IsList(new)
    <3>1. new \in [1 .. n -> ToSet(new)]
      BY <2>1 DEF ToSet
    <3>2. new \in Seq(ToSet(new))
      BY <2>1, <3>1, SeqDef
    <3> HIDE DEF new
    <3> QED
      BY <3>2, TypedList
  <2>3. \A i \in DOMAIN new :
          DOMAIN new[i] = {"seq", "action", "rule"} /\ new[i].seq \in Nat
    <3>1. \A i \in 1 .. n : 10 * i \in Nat
      BY <2>1
    <3> QED
      BY <2>1, <3>1 DEF IsEntries
  <2> HIDE DEF new
  <2>4. IsEntries(new)
    BY <2>2, <2>3 DEF IsEntries
  <2>5. IsMap(m) /\ \A b \in DOMAIN m : IsEntries(m[b])
    <3>1. \A b \in DOMAIN c.acls : IsEntries(c.acls[b])
      BY DEF IsDocument
    <3>2. /\ DOMAIN m = DOMAIN c.acls
          /\ \A b \in DOMAIN m : m[b] = IF b = a THEN new ELSE c.acls[b]
      BY <1>2
    <3>3. IsMap(m)
      BY DEF IsMap
    <3> HIDE DEF m
    <3> QED
      BY <2>4, <3>1, <3>2, <3>3
  <2>6. e = [c EXCEPT !.acls = m]
    BY <1>2 DEF Resequence, new
  <2> HIDE DEF m
  <2> QED
    BY <2>5, <2>6, ListsFollow
<1> QED
  BY <1>1, <1>2

-----------------------------------------------------------------------------
(* A line as a whole                                                       *)

LEMMA NormalizeFollows ==
  ASSUME NEW c, NEW e, Follows(c, e)
  PROVE  /\ Follows(c, Normalize(e))
         /\ Validate(Normalize(e)) => Ordered(Normalize(e))
<1> DEFINE m == [a \in DOMAIN e.acls |-> SortedEntries(e.acls[a])]
           d == [e EXCEPT !.acls = m]
<1>1. d = Normalize(e)
  BY DEF Normalize
<1>2. IsDocument(e)
  BY DEF Follows
<1>3. ASSUME NEW a \in DOMAIN e.acls
      PROVE  /\ IsEntries(SortedEntries(e.acls[a]))
             /\ \A i, j \in DOMAIN SortedEntries(e.acls[a]) :
                  i < j => SortedEntries(e.acls[a])[i].seq <= SortedEntries(e.acls[a])[j].seq
  <2>1. IsEntries(e.acls[a])
    BY <1>2 DEF IsDocument
  <2> QED
    BY <2>1, SortedIsSorted
<1>4. IsMap(m) /\ DOMAIN m = DOMAIN e.acls /\ \A a \in DOMAIN m : m[a] = SortedEntries(e.acls[a])
  BY DEF IsMap
<1> HIDE DEF m
<1>5. \A a \in DOMAIN m : IsEntries(m[a])
  BY <1>3, <1>4
<1>6. Follows(e, d)
  BY <1>2, <1>4, <1>5, ListsFollow
<1>7. Follows(c, d)
  BY <1>6 DEF Follows
<1>8. d.acls = m
  BY <1>2 DEF IsDocument, IsMap, NewDocument
<1> HIDE DEF d
<1>9. ASSUME Validate(d) PROVE Ordered(d)
  <2> SUFFICES ASSUME NEW a \in DOMAIN m, NEW i \in DOMAIN m[a], NEW j \in DOMAIN m[a], i < j
               PROVE  m[a][i].seq < m[a][j].seq
    BY <1>8 DEF Ordered, Ascending
  <2>1. m[a][i].seq <= m[a][j].seq
    BY <1>3, <1>4
  <2>2. \A p, q \in DOMAIN m[a] : m[a][p].seq = m[a][q].seq => p = q
    BY <1>8, <1>9 DEF Validate, ValidEntries
  <2>3. DOMAIN m[a] = 1 .. Len(m[a]) /\ Len(m[a]) \in Nat
    BY <1>5, ListFacts DEF IsEntries
  <2>4. i # j
    BY <2>3
  <2>5. m[a][i].seq # m[a][j].seq
    BY <2>2, <2>4
  <2>6. m[a][i].seq \in Nat /\ m[a][j].seq \in Nat
    BY <1>5 DEF IsEntries
  <2> QED
    BY <2>1, <2>5, <2>6
<1> QED
  BY <1>1, <1>7, <1>9

LEMMA EditFollows ==
  ASSUME NEW s, NEW c, IsDocument(c), Ordered(c), NEW k, IsCommand(k),
         k.op \notin Everywhere \cup ExecOps, NEW e \in Edit(s, c, k)
  PROVE  Follows(c, e)
<1>0. k.no \in BOOLEAN /\ k.op \in Ops \ (Everywhere \cup ExecOps)
  BY DEF IsCommand
<1> USE DEF Globals, FieldOps, WirelessOps, PoolOps, Everywhere
<1>1. CASE k.op \in Globals
  <2>1. e \in EditGlobal(c, k)
    BY <1>1 DEF Edit
  <2> QED
    BY <1>1, <2>1, EditGlobalFollows
<1>2. CASE k.op = "route"
  BY <1>2, EditRouteFollows DEF Edit
<1>3. CASE k.op = "nat"
  BY <1>3, EditNATFollows DEF Edit
<1>4. CASE k.op \in {"server", "secure-server"}
  BY <1>4, EditHTTPFollows DEF Edit
<1>5. CASE k.op = "interface"
  BY <1>0, <1>5, EditInterfacesFollows DEF Edit
<1>6. CASE k.op = "access-list"
  BY <1>0, <1>6, EditListsFollows DEF Edit
<1>7. CASE k.op = "pool"
  BY <1>7, EditPoolsFollows DEF Edit
<1>8. CASE k.op \in {"address", "secondary"}
  BY <1>8, EditAddressFollows DEF Edit
<1>9. CASE k.op = "address6"
  BY <1>9, EditAddress6Follows DEF Edit
<1>10. CASE k.op \in FieldOps
  <2>1. e \in EditField(c, s.object, k)
    BY <1>10 DEF Edit
  <2> QED
    BY <1>0, <1>10, <2>1, EditFieldFollows
<1>11. CASE k.op \in WirelessOps
  <2>1. e \in EditWireless(c, s.object, k)
    BY <1>11 DEF Edit
  <2> QED
    BY <2>1, EditWirelessFollows
<1>12. CASE k.op \in {"group-in", "group-out"}
  BY <1>12, EditGroupFollows DEF Edit
<1>13. CASE k.op = "encapsulation"
  BY <1>13, EditVLANFollows DEF Edit
<1>14. CASE k.op = "member"
  BY <1>14, EditMemberFollows DEF Edit
<1>15. CASE k.op = "entry"
  <2>1. k.arg.seq \in Nat
    BY <1>15 DEF IsCommand
  <2> QED
    BY <1>15, <2>1, EditEntryFollows DEF Edit
<1>16. CASE k.op = "number"
  BY <1>16, EditNumberFollows DEF Edit
<1>17. CASE k.op = "resequence"
  BY <1>17, ResequenceFollows DEF Edit
<1>18. CASE k.op \in PoolOps \ Everywhere
  <2>1. e \in EditPool(c, s.object, k)
    BY <1>18 DEF Edit
  <2> QED
    BY <2>1, EditPoolFollows
<1> QED
  BY <1>0, <1>1, <1>2, <1>3, <1>4, <1>5, <1>6, <1>7, <1>8, <1>9, <1>10, <1>11, <1>12, <1>13,
     <1>14, <1>15, <1>16, <1>17, <1>18
     DEF Ops, ConfigOps, InterfaceOps, ListOps, ExecOps

LEMMA ExecuteFollows ==
  ASSUME NEW s, NEW c, IsDocument(c), Ordered(c), NEW k, IsCommand(k)
  PROVE  LET d == Execute(s, c, k).document IN
         d = c \/ (Follows(c, d) /\ Validate(d) /\ Ordered(d))
<1> DEFINE d == Execute(s, c, k).document
           leaves == k.op \notin Tree(s.mode) /\ s.mode \in Submodes /\ k.op \in ConfigOps
           t == IF leaves THEN NewSession("config") ELSE s
           edited == {x \in {Normalize(e) : e \in Edit(t, c, k)} : Validate(x)}
<1>1. d = c \/ (k.op \notin Everywhere \cup ExecOps /\ edited # {} /\ d = CHOOSE x \in edited : TRUE)
  BY DEF Execute
<1> HIDE DEF t, d
<1>2. ASSUME k.op \notin Everywhere \cup ExecOps, edited # {}, d = CHOOSE x \in edited : TRUE
      PROVE  Follows(c, d) /\ Validate(d) /\ Ordered(d)
  <2>1. d \in edited
    BY <1>2
  <2>2. PICK e \in Edit(t, c, k) : d = Normalize(e) /\ Validate(d)
    BY <2>1
  <2>3. Follows(c, e)
    BY <1>2, EditFollows
  <2>4. Follows(c, Normalize(e)) /\ (Validate(Normalize(e)) => Ordered(Normalize(e)))
    BY <2>3, NormalizeFollows
  <2> HIDE DEF edited
  <2> QED
    BY <2>2, <2>4
<1> HIDE DEF edited
<1>3. d = c \/ (Follows(c, d) /\ Validate(d) /\ Ordered(d))
  BY <1>1, <1>2
<1> QED
  BY <1>3 DEF d

-----------------------------------------------------------------------------
(* The rule set                                                            *)

(* A list that is applied is rendered: Validate has seen that it exists.   *)
LEMMA ListsFilter ==
  ASSUME IsDocument(document), Validate(document)
  PROVE  AppliedListsFilter
<1> DEFINE c == Effective(document)
           groups == RuleSet(c).groups
<1>1. /\ IsDocument(c) /\ Configured(c) = Remaining(document) /\ c.acls = document.acls
      /\ Remaining(document) \subseteq Configured(document)
  BY EffectiveParts, EffectiveFields
<1> HIDE DEF c, groups
<1>2. ASSUME NEW n \in Configured(c), NEW list \in {c.interfaces[n].aclIn, c.interfaces[n].aclOut},
             list # None
      PROVE  list \in DOMAIN c.acls
  <2>1. /\ c.interfaces[n].aclIn = document.interfaces[n].aclIn
        /\ c.interfaces[n].aclOut = document.interfaces[n].aclOut
    BY <1>1, EffectiveInterface DEF c
  <2>2. ListsExist(document, document.interfaces[n])
    BY <1>1 DEF Validate, ValidInterface
  <2> QED
    BY <1>1, <1>2, <2>1, <2>2 DEF ListsExist
<1>3. ASSUME NEW n \in Configured(c), NEW d,
             d \in {[list |-> c.interfaces[n].aclIn, group |-> "in"],
                   [list |-> c.interfaces[n].aclOut, group |-> "out"]},
             d.list # None
      PROVE  /\ n \in DOMAIN groups
             /\ Len(groups[n][d.group]) = Len(document.acls[d.list]) + 1
             /\ Last(groups[n][d.group]).action = "deny"
  <2>1. d.list \in {c.interfaces[n].aclIn, c.interfaces[n].aclOut}
    BY <1>3
  <2>2. d.list \in DOMAIN c.acls
    BY <1>2, <1>3, <2>1
  <2>3. groups = [i \in Filtered(c) |-> Group(c, i)] /\ n \in Filtered(c)
    BY <2>1, <2>2 DEF groups, RuleSet, Filtered
  <2>4. Group(c, n)[d.group] = RulesOf(c, d.list)
    BY <1>3 DEF Group
  <2>5. Len(RulesOf(c, d.list)) = Len(c.acls[d.list]) + 1 /\ Last(RulesOf(c, d.list)).action = "deny"
    BY <1>1, <2>2, RulesOfList
  <2> QED
    BY <1>1, <2>3, <2>4, <2>5
<1> QED
  BY <1>3 DEF AppliedListsFilter, c, groups

-----------------------------------------------------------------------------
(* The inductive invariant and what follows from it                        *)

DocumentInv == IsDocument(document) /\ Validate(document) /\ Ordered(document)

LEMMA DocumentsAreTidy ==
  \A d \in Documents : IsDocument(d) /\ Validate(d) /\ Ordered(d)
<1> SUFFICES ASSUME NEW d \in Documents PROVE IsDocument(d) /\ Validate(d) /\ Ordered(d)
  OBVIOUS
<1>1. IsDocument(d) /\ Validate(d) /\ Normalize(d) = d
  BY EditorAssumption
<1>2. Follows(d, d)
  BY <1>1 DEF Follows
<1>3. Validate(Normalize(d)) => Ordered(Normalize(d))
  BY <1>2, NormalizeFollows
<1> QED
  BY <1>1, <1>3

LEMMA StepFollows ==
  ASSUME DocumentInv, [EditorNext]_editorVars
  PROVE  \/ document' = document
         \/ Follows(document, document') /\ Validate(document') /\ Ordered(document')
         \/ document' \in Documents
<1>1. ASSUME NEW s \in Sessions, NEW k \in Commands[s], Enter(s, k)
      PROVE  \/ document' = document
             \/ Follows(document, document') /\ Validate(document') /\ Ordered(document')
  <2>1. IsCommand(k)
    BY EditorAssumption
  <2>2. document' = Execute(session[s], document, k).document
    BY <1>1 DEF Enter
  <2> QED
    BY <2>1, <2>2, ExecuteFollows DEF DocumentInv
<1>2. ASSUME NEW d \in Documents, Replace(d) PROVE document' \in Documents
  BY <1>2 DEF Replace
<1>3. CASE UNCHANGED editorVars
  BY <1>3 DEF editorVars
<1> QED
  BY <1>1, <1>2, <1>3 DEF EditorNext

(* Every document in force has the type of one, passes Validate and has    *)
(* its lists in order, whoever enters what, in which session, and whatever *)
(* is put in place in between (manager.go: Change and Replace).            *)
THEOREM DocumentsStayValid == EditorSpec => []DocumentInv
<1>1. EditorInit => DocumentInv
  BY DocumentsAreTidy DEF EditorInit, DocumentInv
<1>2. DocumentInv /\ [EditorNext]_editorVars => DocumentInv'
  <2> SUFFICES ASSUME DocumentInv, [EditorNext]_editorVars PROVE DocumentInv'
    OBVIOUS
  <2>1. CASE document' = document
    BY <2>1 DEF DocumentInv, IsDocument, Validate, Ordered
  <2>2. CASE Follows(document, document') /\ Validate(document') /\ Ordered(document')
    BY <2>2 DEF DocumentInv, Follows
  <2>3. CASE document' \in Documents
    BY <2>3, DocumentsAreTidy DEF DocumentInv
  <2> QED
    BY <2>1, <2>2, <2>3, StepFollows
<1> QED
  BY <1>1, <1>2, PTL DEF EditorSpec

(* No interface to which a list is applied is ever rendered without it.    *)
THEOREM AppliedListsAlwaysFilter == EditorSpec => []AppliedListsFilter
<1>1. DocumentInv => AppliedListsFilter
  BY ListsFilter DEF DocumentInv
<1> QED
  BY <1>1, DocumentsStayValid, PTL

(* What is applied of a document stands on its own feet.                   *)
THEOREM EffectiveStaysValid == EditorSpec => []EffectiveIsValid
<1>1. DocumentInv => EffectiveIsValid
  BY EffectiveValidates, EffectiveAgain DEF DocumentInv, EffectiveIsValid
<1> QED
  BY <1>1, DocumentsStayValid, PTL

(* The commands never put an interface into two bridges nor forward a port *)
(* twice.  Whole configurations come from outside, and Validate does not   *)
(* look: that they are free of conflicts is a hypothesis.                  *)
THEOREM CommandsMakeNoConflicts ==
  ASSUME \A d \in Documents : ConflictFree(d)
  PROVE  EditorSpec => []NoConflicts
<1>1. EditorInit => NoConflicts
  BY DEF EditorInit, NoConflicts
<1>2. DocumentInv /\ NoConflicts /\ [EditorNext]_editorVars => NoConflicts'
  <2> SUFFICES ASSUME DocumentInv, NoConflicts, [EditorNext]_editorVars PROVE NoConflicts'
    OBVIOUS
  <2>1. CASE document' = document
    BY <2>1 DEF NoConflicts, ConflictFree
  <2>2. CASE Follows(document, document')
    BY <2>2 DEF NoConflicts, Follows
  <2>3. CASE document' \in Documents
    BY <2>3 DEF NoConflicts
  <2> QED
    BY <2>1, <2>2, <2>3, StepFollows
<1> QED
  BY <1>1, <1>2, DocumentsStayValid, PTL DEF EditorSpec

-----------------------------------------------------------------------------
(* First match decides                                                     *)

LEMMA OrderedStays ==
  ASSUME NEW c, IsDocument(c), Ordered(c)
  PROVE  Normalize(c) = c
<1> DEFINE m == [a \in DOMAIN c.acls |-> SortedEntries(c.acls[a])]
<1>1. \A a \in DOMAIN c.acls : SortedEntries(c.acls[a]) = c.acls[a]
  BY SortedStays DEF IsDocument, Ordered
<1>2. m = c.acls
  BY <1>1 DEF IsDocument, IsMap
<1>3. Normalize(c) = [c EXCEPT !.acls = m]
  BY DEF Normalize
<1> HIDE DEF m
<1> QED
  BY <1>2, <1>3 DEF IsDocument, IsMap

LEMMA LargerIsLast ==
  ASSUME NEW entries, IsEntries(entries), Ascending(entries),
         NEW e, DOMAIN e = {"seq", "action", "rule"}, e.seq = NextNumber(entries)
  PROVE  SortedEntries(Append(entries, e)) = Append(entries, e)
<1> DEFINE more == Append(entries, e)
           n == Len(entries)
<1>1. e.seq \in Nat /\ \A i \in DOMAIN entries : entries[i].seq < e.seq
  BY NextIsLarger
<1>2. IsEntries(more)
  BY <1>1, OneMoreEntry
<1>3. /\ DOMAIN entries = 1 .. n /\ n \in Nat /\ DOMAIN more = 1 .. n + 1
      /\ more[n + 1] = e /\ \A i \in 1 .. n : more[i] = entries[i]
  BY <1>2, ListFacts, ListAppend DEF IsEntries
<1> HIDE DEF more, n
<1>4. ASSUME NEW i \in DOMAIN more, NEW j \in DOMAIN more, i < j
      PROVE  more[i].seq < more[j].seq
  <2>1. i \in 1 .. n
    BY <1>3, <1>4
  <2>2. CASE j \in 1 .. n
    BY <1>3, <1>4, <2>1, <2>2 DEF Ascending
  <2>3. CASE j = n + 1
    BY <1>1, <1>3, <2>1, <2>3
  <2> QED
    BY <1>3, <2>2, <2>3
<1>5. Ascending(more)
  BY <1>4 DEF Ascending
<1> QED
  BY <1>2, <1>5, SortedStays DEF more

(* A new entry without a number: nothing but one more entry at the end.    *)
LEMMA EntryIsAppended ==
  ASSUME NEW c, IsDocument(c), Ordered(c), NEW a, NEW k, k.arg.seq = 0, ~k.no,
         NEW e \in EditEntry(c, a, k), Normalize(e) # c
  PROVE  \E x : ListOf(Normalize(e), a) = Append(ListOf(c, a), x)
<1> DEFINE entries == ListOf(c, a)
           entry == [seq |-> NextNumber(entries), action |-> k.arg.action,
                     rule |-> ParseRule(k.arg.action, k.arg.words).value]
           more == Append(entries, entry)
           m == Updated(c.acls, a, more)
           d == [c EXCEPT !.acls = m]
<1>1. e = c \/ e = d
  BY DEF EditEntry
<1>2. e = d
  BY <1>1, OrderedStays
<1>3. IsEntries(entries) /\ Ascending(entries)
  BY ListIsEntries, ListIsAscending
<1>4. DOMAIN entry = {"seq", "action", "rule"} /\ entry.seq = NextNumber(entries)
  OBVIOUS
<1> HIDE DEF entries, entry
<1>5. SortedEntries(more) = more
  BY <1>3, <1>4, LargerIsLast
<1>6. a \in DOMAIN m /\ m[a] = more
  BY DEF Updated
<1>7. d.acls = m /\ "acls" \in DOMAIN d
  BY DEF IsDocument, NewDocument
<1> HIDE DEF d, m
<1>8. Normalize(d).acls = [b \in DOMAIN m |-> SortedEntries(m[b])]
  BY <1>7 DEF Normalize
<1>9. a \in DOMAIN Normalize(d).acls /\ Normalize(d).acls[a] = more
  BY <1>5, <1>6, <1>8
<1> QED
  BY <1>2, <1>9 DEF ListOf, entries

LEMMA RulesAreList ==
  ASSUME NEW c, IsDocument(c), NEW a
  PROVE  /\ IsList(Rules(c, a)) /\ Len(Rules(c, a)) = Len(ListOf(c, a))
         /\ \A i \in 1 .. Len(ListOf(c, a)) :
              Rules(c, a)[i] = [action |-> ListOf(c, a)[i].action, rule |-> ListOf(c, a)[i].rule]
<1> DEFINE entries == ListOf(c, a)
           n == Len(entries)
           rules == Rules(c, a)
<1>1. DOMAIN entries = 1 .. n /\ n \in Nat
  BY ListIsEntries, ListFacts
<1>2. \A i \in 1 .. n : entries[i] = c.acls[a][i]
  <2>1. CASE a \in DOMAIN c.acls
    BY <2>1 DEF ListOf
  <2>2. CASE a \notin DOMAIN c.acls
    <3>1. n = 0
      BY <2>2, NoList DEF ListOf
    <3> QED
      BY <3>1
  <2> QED
    BY <2>1, <2>2
<1>3. rules = [i \in 1 .. n |-> [action |-> c.acls[a][i].action, rule |-> c.acls[a][i].rule]]
  BY <1>1 DEF Rules
<1> HIDE DEF rules, n, entries
<1>4. IsList(rules) /\ Len(rules) = n
  <2>1. rules = [i \in 1 .. n |-> rules[i]]
    BY <1>3
  <2> QED
    BY <1>1, <2>1, ListOfFunction
<1>5. \A i \in 1 .. n : rules[i] = [action |-> entries[i].action, rule |-> entries[i].rule]
  BY <1>2, <1>3
<1> QED
  BY <1>4, <1>5 DEF rules, n, entries

LEMMA EnterAppends ==
  ASSUME DocumentInv, DocumentInv', document' # document,
         NEW s \in Sessions, session[s].mode = "acl",
         NEW k \in Commands[s], k.op = "entry", ~k.no, k.arg.seq = 0, Enter(s, k)
  PROVE  Front(Rules(document', session[s].object)) = Rules(document, session[s].object)
<1> DEFINE a == session[s].object
           old == ListOf(document, a)
           new == ListOf(document', a)
           edited == {x \in {Normalize(e) : e \in EditEntry(document, a, k)} : Validate(x)}
<1>1. document' = Execute(session[s], document, k).document
  BY DEF Enter
<1>2. Edit(session[s], document, k) = EditEntry(document, a, k)
  BY DEF Edit, Globals, FieldOps, WirelessOps, PoolOps, Everywhere
<1>3. k.op \in Tree(session[s].mode) /\ HasForm(k) /\ k.op \notin Everywhere \cup ExecOps
  BY DEF Tree, ListOps, HasForm, Everywhere, ExecOps
<1>4. edited # {} /\ document' = CHOOSE x \in edited : TRUE
  BY <1>1, <1>2, <1>3 DEF Execute
<1>5. document' \in edited
  BY <1>4
<1>6. PICK e \in EditEntry(document, a, k) : document' = Normalize(e)
  BY <1>5
<1>7. PICK x : new = Append(old, x)
  BY <1>6, EntryIsAppended DEF DocumentInv
<1>8. /\ IsList(old) /\ Len(old) \in Nat /\ Len(new) = Len(old) + 1
      /\ \A i \in 1 .. Len(old) : new[i] = old[i]
  BY <1>7, ListIsEntries, ListFacts, ListAppend DEF DocumentInv
<1>9. /\ IsList(Rules(document, a)) /\ Len(Rules(document, a)) = Len(old)
      /\ \A i \in 1 .. Len(old) :
           Rules(document, a)[i] = [action |-> old[i].action, rule |-> old[i].rule]
  BY RulesAreList DEF DocumentInv
<1>10. /\ IsList(Rules(document', a)) /\ Len(Rules(document', a)) = Len(new)
       /\ \A i \in 1 .. Len(new) :
            Rules(document', a)[i] = [action |-> new[i].action, rule |-> new[i].rule]
  BY RulesAreList DEF DocumentInv
<1> HIDE DEF old, new
<1>11. ASSUME NEW i \in 1 .. Len(old) PROVE Rules(document', a)[i] = Rules(document, a)[i]
  <2>1. i \in 1 .. Len(new)
    BY <1>8
  <2>2. Rules(document', a)[i] = [action |-> new[i].action, rule |-> new[i].rule]
    BY <1>10, <2>1
  <2> QED
    BY <1>8, <1>9, <2>2
<1>12. Len(Rules(document', a)) = Len(Rules(document, a)) + 1
  BY <1>8, <1>9, <1>10
<1> QED
  BY <1>9, <1>10, <1>11, <1>12, ListFront

(* An entry that comes without a number is consulted after all that are    *)
(* there, however they were numbered and renumbered.                       *)
THEOREM EntriesAreAppended == EditorSpec => AppendedEntryIsLast
<1>1. DocumentInv /\ DocumentInv' /\ [EditorNext]_editorVars =>
        [document' # document =>
           \A s \in {t \in Sessions : session[t].mode = "acl"} :
             \A k \in {l \in Commands[s] : l.op = "entry" /\ ~l.no /\ l.arg.seq = 0} :
               Enter(s, k) =>
                 Front(Rules(document', session[s].object)) =
                   Rules(document, session[s].object)]_editorVars
  BY EnterAppends
<1> QED
  BY <1>1, DocumentsStayValid, PTL DEF EditorSpec, AppendedEntryIsLast
=============================================================================
