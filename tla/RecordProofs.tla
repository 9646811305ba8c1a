----------------------------- MODULE RecordProofs -----------------------------
(***************************************************************************)
(* The recorded configuration is in force: what the commands of a change,  *)
(* its rollback or a boot do to everything a document says of the system,  *)
(* for any documents, commands and failures.                               *)
(*                                                                         *)
(* A document makes claims.  A command that decides a claim agrees with it *)
(* or spoils it.  A list of commands leaves a claim alone if none of them  *)
(* spoils it, and settles it if one makes it hold and none after that one  *)
(* spoils it.  What both documents claim alike is left alone, so that it   *)
(* holds throughout and a rollback finds it; what else the new document    *)
(* claims is settled.                                                      *)
(***************************************************************************)
EXTENDS ApplierProofs

-----------------------------------------------------------------------------
(* What a document says of the system: claims [of, n, is, yes].  Found is  *)
(* what a claim is about, an interface n with is in its field of, a route  *)
(* of prefix n to is, or a field of that has the value is; it holds if it  *)
(* is found or not as yes says.  Nothing is claimed of an address where a  *)
(* document may give it with two prefix lengths.                           *)

Flags == {"exists", "up", "client", "hostap"}
Values == {"vlan", "mtu", "media", "supplicant"}
Families == {"v4", "v6"}
NifFields == Flags \cup Values \cup Families \cup {"members"}
Fields == {"hostname", "resolv", "forward", "forward6", "rules", "rulesOnDisk", "dhcpd"}

IsClaim(p) ==
  /\ p.of \in NifFields \cup Fields \cup {"routes"} /\ p.yes \in BOOLEAN
  /\ p.of \in NifFields => p.n \in Names
  /\ p.of \in Flags => p.is = TRUE
  /\ p.of \in Families => TwinFree(p.n)
  /\ p.of \in Values \cup Fields => p.yes
  /\ p.of \in {"members", "routes"} => ~p.yes

FoundIn(nif, p) ==
  IF p.of \in Flags \cup Values THEN nif[p.of] = p.is
  ELSE IF p.of \in Families THEN p.is \in ToSet(nif[p.of])
  ELSE p.is \in nif.members

Found(k, p) ==
  IF p.of \in NifFields THEN FoundIn(k.nif[p.n], p)
  ELSE IF p.of = "routes" THEN p.n \in DOMAIN k.routes /\ k.routes[p.n] = p.is
  ELSE k[p.of] = p.is

Holds(k, p) == p.yes <=> Found(k, p)

(* An interface that does not exist has no addresses, and so on.           *)
Lasting == {"client", "supplicant"}

SaneNif(nif, n) ==
  /\ \A f \in Flags : nif[f] \in BOOLEAN
  /\ \A f \in Families : IsList(nif[f])
  /\ ~nif.exists => \A f \in DOMAIN Unconfigured(n) \ Lasting : nif[f] = Unconfigured(n)[f]

Sane(k) == KernelOK(k) /\ \A n \in Names : SaneNif(k.nif[n], n)

(* What a command on an interface sets its field to, or puts into the list *)
(* there or takes out of it, an address by its IP.                         *)
ListOps == {"alias", "-alias", "add", "delete"}

Field(c) ==
  CASE c.op = "create"                   -> "exists"
    [] c.op \in {"vlanif", "-vlanif"}     -> "vlan"
    [] c.op \in {"mediaopt", "-mediaopt"} -> "hostap"
    [] c.op \in {"mtu", "media"}          -> c.op
    [] c.op \in {"alias", "-alias"}       -> c.arg.family
    [] c.op \in {"add", "delete"}         -> "members"
    [] c.op \in {"up", "down"}            -> "up"
    [] c.op \in {"dhcpcd -b", "dhcpcd -x"} -> "client"
    [] c.op \in {"start", "stop"}         -> "supplicant"

SetTo(c) ==
  CASE c.op \in {"create", "mediaopt", "up", "dhcpcd -b"} -> TRUE
    [] c.op \in {"-mediaopt", "down", "dhcpcd -x"}        -> FALSE
    [] c.op \in {"vlanif", "mtu", "media", "start"}       -> c.arg
    [] c.op = "-vlanif"                                   -> NoVLAN
    [] c.op = "stop"                                      -> NoSupplicant

Item(c) == IF c.op \in {"alias", "-alias"} THEN c.arg.address ELSE c.arg

(* Adding an address is about every prefix length of its IP.               *)
Means(op, item, p) ==
  IF op = "alias" THEN Ip(p.is) = Ip(item)
  ELSE IF op = "-alias" THEN Ip(p.is) = item ELSE p.is = item

Wants(op, item, p) == p.yes <=> op = "add" \/ (op = "alias" /\ p.is = item)

(* The command has a say in whether the claim holds; it wants it to.       *)
Decides(c, p) ==
  \/ c.op \in NifOps /\ p.of = Field(c) /\ p.n = c.n
     /\ (c.op \in ListOps => Means(c.op, Item(c), p))
  \/ c.op = "destroy" /\ p.n = c.n /\ p.of \in NifFields \ Lasting
  \/ c.op = "destroy" /\ p.of = "vlan" /\ p.is.parent = c.n
  \/ c.op \in RouteOps /\ p.of = "routes" /\ p.n = c.n
  \/ c.op \in SystemOps /\ p.of = c.op
  \/ c.op = "npf" /\ p.of \in {"rules", "rulesOnDisk"}
  \/ c.op \in ServerOps /\ p.of = "dhcpd"

Agrees(c, p) ==
  IF c.op \in ListOps THEN Wants(c.op, Item(c), p)
  ELSE IF c.op \in NifOps THEN p.yes <=> SetTo(c) = p.is
  ELSE IF c.op = "destroy" THEN p.yes <=> FoundIn(Unconfigured(c.n), p)
  ELSE IF c.op = "route delete" THEN TRUE
  ELSE IF c.op = "route add" THEN c.arg # p.is
  ELSE IF c.op = "stop dhcpd" THEN NoServer = p.is
  ELSE c.arg = p.is

Spoils(c, p) == Decides(c, p) /\ ~Agrees(c, p)

(* It does not matter that what these are to remove is missing.            *)
Removals ==
  {"destroy", "-alias", "delete", "-vlanif", "-mediaopt", "down", "dhcpcd -x", "route delete"}

(* Once it has been run, or its error was tolerated, the claim holds.      *)
Makes(c, p) ==
  /\ Decides(c, p) /\ Agrees(c, p) /\ (c.op = "alias" => p.yes)
  /\ c.op # "route add" /\ (c.tol = "missing" => c.op \in Removals)

NifFieldNames == DOMAIN Unconfigured(None)

(* An operation on an interface sets one field of it.                      *)
LEMMA NifValue ==
  ASSUME NEW nif, IsMap(nif), DOMAIN nif = NifFieldNames,
         NEW c, c.op \in NifOps, c.op \in {"alias", "-alias"} => c.arg.family \in Families
  PROVE  LET l == NifAfter(nif, c) IN
         /\ Field(c) \in NifFields
         /\ \A f \in NifFields \ {Field(c)} : l[f] = nif[f]
         /\ l[Field(c)] = CASE c.op = "alias"  -> WithAddress(nif[Field(c)], Item(c))
                            [] c.op = "-alias" -> WithoutIp(nif[Field(c)], Item(c))
                            [] c.op = "add"    -> nif.members \cup {Item(c)}
                            [] c.op = "delete" -> nif.members \ {Item(c)}
                            [] OTHER           -> SetTo(c)
<1>0. NifFields \subseteq NifFieldNames /\ "identity" \notin NifFields
  BY KernelFields DEF NifFieldNames, NifFields, Flags, Values, Families
<1>1. CASE c.op = "create"
  <2>1. Field(c) = "exists" /\ "exists" \in NifFields
    BY <1>1 DEF Field, NifFields, Flags, Values, Families
  <2> QED
    BY <1>0, <1>1, <2>1 DEF NifAfter, IsMap, SetTo, Item
<1>2. CASE c.op = "vlanif"
  <2>1. Field(c) = "vlan" /\ "vlan" \in NifFields
    BY <1>2 DEF Field, NifFields, Flags, Values, Families
  <2> QED
    BY <1>0, <1>2, <2>1 DEF NifAfter, IsMap, SetTo, Item
<1>3. CASE c.op = "-vlanif"
  <2>1. Field(c) = "vlan" /\ "vlan" \in NifFields
    BY <1>3 DEF Field, NifFields, Flags, Values, Families
  <2> QED
    BY <1>0, <1>3, <2>1 DEF NifAfter, IsMap, SetTo, Item
<1>4. CASE c.op = "mediaopt"
  <2>1. Field(c) = "hostap" /\ "hostap" \in NifFields
    BY <1>4 DEF Field, NifFields, Flags, Values, Families
  <2> QED
    BY <1>0, <1>4, <2>1 DEF NifAfter, IsMap, SetTo, Item
<1>5. CASE c.op = "-mediaopt"
  <2>1. Field(c) = "hostap" /\ "hostap" \in NifFields
    BY <1>5 DEF Field, NifFields, Flags, Values, Families
  <2> QED
    BY <1>0, <1>5, <2>1 DEF NifAfter, IsMap, SetTo, Item
<1>6. CASE c.op = "mtu"
  <2>1. Field(c) = "mtu" /\ "mtu" \in NifFields
    BY <1>6 DEF Field, NifFields, Flags, Values, Families
  <2> QED
    BY <1>0, <1>6, <2>1 DEF NifAfter, IsMap, SetTo, Item
<1>7. CASE c.op = "media"
  <2>1. Field(c) = "media" /\ "media" \in NifFields
    BY <1>7 DEF Field, NifFields, Flags, Values, Families
  <2> QED
    BY <1>0, <1>7, <2>1 DEF NifAfter, IsMap, SetTo, Item
<1>8. CASE c.op = "alias"
  <2>1. Field(c) = c.arg.family /\ c.arg.family \in NifFields
    BY <1>8 DEF Field, NifFields, Flags, Values, Families
  <2> QED
    BY <1>0, <1>8, <2>1 DEF NifAfter, IsMap, SetTo, Item
<1>9. CASE c.op = "-alias"
  <2>1. Field(c) = c.arg.family /\ c.arg.family \in NifFields
    BY <1>9 DEF Field, NifFields, Flags, Values, Families
  <2> QED
    BY <1>0, <1>9, <2>1 DEF NifAfter, IsMap, SetTo, Item
<1>10. CASE c.op = "add"
  <2>1. Field(c) = "members" /\ "members" \in NifFields
    BY <1>10 DEF Field, NifFields, Flags, Values, Families
  <2> QED
    BY <1>0, <1>10, <2>1 DEF NifAfter, IsMap, SetTo, Item
<1>11. CASE c.op = "delete"
  <2>1. Field(c) = "members" /\ "members" \in NifFields
    BY <1>11 DEF Field, NifFields, Flags, Values, Families
  <2> QED
    BY <1>0, <1>11, <2>1 DEF NifAfter, IsMap, SetTo, Item
<1>12. CASE c.op = "up"
  <2>1. Field(c) = "up" /\ "up" \in NifFields
    BY <1>12 DEF Field, NifFields, Flags, Values, Families
  <2> QED
    BY <1>0, <1>12, <2>1 DEF NifAfter, IsMap, SetTo, Item
<1>13. CASE c.op = "down"
  <2>1. Field(c) = "up" /\ "up" \in NifFields
    BY <1>13 DEF Field, NifFields, Flags, Values, Families
  <2> QED
    BY <1>0, <1>13, <2>1 DEF NifAfter, IsMap, SetTo, Item
<1>14. CASE c.op = "dhcpcd -b"
  <2>1. Field(c) = "client" /\ "client" \in NifFields
    BY <1>14 DEF Field, NifFields, Flags, Values, Families
  <2> QED
    BY <1>0, <1>14, <2>1 DEF NifAfter, IsMap, SetTo, Item
<1>15. CASE c.op = "dhcpcd -x"
  <2>1. Field(c) = "client" /\ "client" \in NifFields
    BY <1>15 DEF Field, NifFields, Flags, Values, Families
  <2> QED
    BY <1>0, <1>15, <2>1 DEF NifAfter, IsMap, SetTo, Item
<1>16. CASE c.op = "start"
  <2>1. Field(c) = "supplicant" /\ "supplicant" \in NifFields
    BY <1>16 DEF Field, NifFields, Flags, Values, Families
  <2> QED
    BY <1>0, <1>16, <2>1 DEF NifAfter, IsMap, SetTo, Item
<1>17. CASE c.op = "stop"
  <2>1. Field(c) = "supplicant" /\ "supplicant" \in NifFields
    BY <1>17 DEF Field, NifFields, Flags, Values, Families
  <2> QED
    BY <1>0, <1>17, <2>1 DEF NifAfter, IsMap, SetTo, Item
<1> QED
  BY <1>1, <1>2, <1>3, <1>4, <1>5, <1>6, <1>7, <1>8, <1>9, <1>10, <1>11, <1>12, <1>13, <1>14, <1>15, <1>16, <1>17 DEF NifOps

(* An address takes the place of those with its IP.                        *)
LEMMA AddressIsPut ==
  ASSUME NEW s, IsList(s), NEW a
  PROVE  /\ IsList(WithAddress(s, a))
         /\ \A x : x \in ToSet(WithAddress(s, a)) <=> x = a \/ (x \in ToSet(s) /\ Ip(x) # Ip(a))
<1> DEFINE l == WithAddress(s, a)
           put == [i \in DOMAIN s |-> IF Ip(s[i]) = Ip(a) THEN a ELSE s[i]]
<1>0. Len(s) \in Nat /\ DOMAIN s = 1 .. Len(s) /\ ToSet(s) = {s[i] : i \in 1 .. Len(s)}
  BY ListFacts
<1>1. HasIp(s, Ip(a)) <=> \E i \in 1 .. Len(s) : Ip(s[i]) = Ip(a)
  BY <1>0 DEF HasIp
<1>2. CASE HasIp(s, Ip(a))
  <2>1. l = put /\ DOMAIN put = 1 .. Len(s)
    BY <1>0, <1>2 DEF WithAddress
  <2>2. put = [i \in 1 .. Len(s) |-> put[i]]
    BY <1>0
  <2>3. \A i \in 1 .. Len(s) : put[i] = IF Ip(s[i]) = Ip(a) THEN a ELSE s[i]
    BY <1>0
  <2> HIDE DEF put
  <2>4. IsList(put)
    BY <1>0, <2>2, ListOfFunction
  <2>5. ToSet(put) = {put[i] : i \in 1 .. Len(s)}
    BY <2>1 DEF ToSet
  <2>6. \A x : x \in ToSet(put) <=> x = a \/ (x \in ToSet(s) /\ Ip(x) # Ip(a))
    BY <1>0, <1>1, <1>2, <2>3, <2>5
  <2> QED
    BY <2>1, <2>4, <2>6
<1>3. CASE ~HasIp(s, Ip(a))
  <2>1. l = Append(s, a)
    BY <1>3 DEF WithAddress
  <2>2. IsList(l) /\ ToSet(l) = ToSet(s) \cup {a}
    BY <2>1, ListAppend
  <2>3. \A x \in ToSet(s) : Ip(x) # Ip(a)
    BY <1>3 DEF HasIp
  <2> QED
    BY <2>2, <2>3
<1> QED
  BY <1>2, <1>3

LEMMA IpIsTakenOut ==
  ASSUME NEW s, IsList(s), NEW ip
  PROVE  /\ IsList(WithoutIp(s, ip))
         /\ \A x : x \in ToSet(WithoutIp(s, ip)) <=> x \in ToSet(s) /\ Ip(x) # ip
<1> DEFINE T == {a \in ToSet(s) : Ip(a) # ip}
<1>1. WithoutIp(s, ip) = Only(s, T)
  BY DEF WithoutIp
<1>2. \A x : x \in ToSet(s) \cap T <=> x \in ToSet(s) /\ Ip(x) # ip
  OBVIOUS
<1> HIDE DEF T
<1>3. IsList(Only(s, T)) /\ ToSet(Only(s, T)) = ToSet(s) \cap T
  BY ListOnly
<1> QED
  BY <1>1, <1>2, <1>3

LEMMA SingleList == \A x : IsList(<<x>>) /\ ToSet(<<x>>) = {x} /\ Len(<<x>>) = 1 /\ <<x>>[1] = x
<1> SUFFICES ASSUME NEW x PROVE IsList(<<x>>) /\ ToSet(<<x>>) = {x} /\ Len(<<x>>) = 1 /\ <<x>>[1] = x
  OBVIOUS
<1>1. <<x>> \in Seq({x}) /\ DOMAIN <<x>> = {1} /\ <<x>>[1] = x /\ Len(<<x>>) = 1
  OBVIOUS
<1>2. IsList(<<x>>)
  BY <1>1, TypedList
<1> QED
  BY <1>1, <1>2 DEF ToSet

LEMMA NifFieldsAreThere ==
  /\ NifFields \subseteq NifFieldNames
  /\ \A n : DOMAIN Unconfigured(n) = NifFields \cup {"identity"}
  /\ DOMAIN PowerOn = Fields \cup {"routes", "nif"}
  /\ {"routes", "nif"} \cap (NifFields \cup Fields) = {} /\ NifFields \cap Fields = {}
  /\ Flags \cap Values = {} /\ Families \cap (Flags \cup Values) = {}
BY KernelFields DEF NifFieldNames, NifFields, Flags, Values, Families, Fields

(* It changes nothing else.                                                *)
LEMMA NifEffects ==
  ASSUME NEW k, KernelOK(k), NEW c, Proper(c), c.op \in NifOps
  PROVE  LET l == Effect(k, c) IN
         /\ \A m \in Names \ {c.n} : l.nif[m] = k.nif[m]
         /\ l.nif[c.n] = NifAfter(k.nif[c.n], c)
         /\ \A f \in Fields \cup {"routes"} : l[f] = k[f]
<1> DEFINE l == Effect(k, c)
           one == NifAfter(k.nif[c.n], c)
           nif == [k.nif EXCEPT ![c.n] = one]
<1>1. l = WithNif(k, c.n, one)
  BY DEF Effect, NifOps, SystemOps, WithNif
<1> HIDE DEF one, l
<1>2. l = [k EXCEPT !.nif = nif]
  BY <1>1 DEF WithNif
<1>3. \A m \in Names : nif[m] = IF m = c.n THEN one ELSE k.nif[m]
  BY DEF KernelOK
<1> HIDE DEF nif
<1>4. l.nif = nif /\ \A f \in Fields \cup {"routes"} : l[f] = k[f]
  BY <1>2, NifFieldsAreThere DEF KernelOK
<1>5. c.n \in Names
  BY DEF Proper
<1> QED
  BY <1>3, <1>4, <1>5 DEF l, one

LEMMA OneStaysSane ==
  ASSUME NEW nif, IsMap(nif), DOMAIN nif = NifFieldNames, NEW n, SaneNif(nif, n),
         NEW c, c.op \in NifOps, c.op \in {"alias", "-alias"} => c.arg.family \in Families,
         c.op \in InterfaceOps => nif.exists
  PROVE  SaneNif(NifAfter(nif, c), n)
<1> DEFINE l == NifAfter(nif, c)
           f == Field(c)
<1>1. /\ f \in NifFields
      /\ \A g \in NifFields \ {f} : l[g] = nif[g]
      /\ l[f] = CASE c.op = "alias"  -> WithAddress(nif[f], Item(c))
                  [] c.op = "-alias" -> WithoutIp(nif[f], Item(c))
                  [] c.op = "add"    -> nif.members \cup {Item(c)}
                  [] c.op = "delete" -> nif.members \ {Item(c)}
                  [] OTHER           -> SetTo(c)
  BY NifValue
<1> HIDE DEF l
<1>2. /\ c.op \in {"alias", "-alias"} => f \in Families
      /\ c.op \in {"add", "delete"} => f = "members"
      /\ c.op \in NifOps \ ListOps => f \in Flags \cup Values
  BY DEF Field, NifOps, ListOps, Flags, Values
<1>3. ASSUME NEW g \in Flags PROVE l[g] \in BOOLEAN
  <2>1. CASE g # f
    BY <1>1, <1>3, <2>1 DEF SaneNif, NifFields
  <2>2. CASE g = f
    <3>1. c.op \in NifOps \ ListOps
      BY <1>2, <1>3, <2>2 DEF ListOps, Families, Flags, NifOps
    <3>2. l[f] = SetTo(c)
      BY <1>1, <3>1 DEF ListOps
    <3>3. c.op \in {"create", "mediaopt", "up", "dhcpcd -b", "-mediaopt", "down", "dhcpcd -x"}
      BY <3>1, <1>3, <2>2 DEF Field, NifOps, ListOps, Flags
    <3>4. SetTo(c) \in BOOLEAN
      BY <3>3 DEF SetTo
    <3> QED
      BY <2>2, <3>2, <3>4
  <2> QED
    BY <2>1, <2>2
<1>4. ASSUME NEW g \in Families PROVE IsList(l[g])
  <2>1. CASE g # f
    BY <1>1, <1>4, <2>1 DEF SaneNif, NifFields
  <2>2. CASE g = f
    <3>1. c.op \in {"alias", "-alias"} /\ IsList(nif[f])
      BY <1>2, <1>4, <2>2 DEF SaneNif, NifOps, ListOps, Families, Flags, Values
    <3>2. CASE c.op = "alias"
      <4>1. l[f] = WithAddress(nif[f], Item(c))
        BY <1>1, <3>2
      <4> QED
        BY <2>2, <3>1, <4>1, AddressIsPut
    <3>3. CASE c.op = "-alias"
      <4>1. l[f] = WithoutIp(nif[f], Item(c))
        BY <1>1, <3>3
      <4> QED
        BY <2>2, <3>1, <4>1, IpIsTakenOut
    <3> QED
      BY <3>1, <3>2, <3>3
  <2> QED
    BY <2>1, <2>2
<1>5. ASSUME ~l.exists PROVE \A g \in DOMAIN Unconfigured(n) \ Lasting : l[g] = Unconfigured(n)[g]
  <2>0. "exists" \in NifFields
    BY DEF NifFields, Flags
  <2>1. CASE c.op = "create"
    <3>1. f = "exists" /\ SetTo(c) = TRUE
      BY <2>1 DEF Field, SetTo
    <3>2. l[f] = SetTo(c)
      BY <1>1, <2>1
    <3> QED
      BY <1>5, <3>1, <3>2
  <2>2. CASE c.op \in InterfaceOps
    <3>1. f # "exists"
      BY <2>2 DEF Field, InterfaceOps, NifOps, Families
    <3> QED
      BY <1>1, <1>5, <2>0, <2>2, <3>1
  <2>3. CASE c.op \in {"dhcpcd -x", "stop"}
    <3>1. f \in Lasting /\ "exists" \notin Lasting
      BY <2>3 DEF Field, Lasting
    <3>2. ~nif.exists
      BY <1>1, <1>5, <2>0, <3>1
    <3>3. ASSUME NEW g \in DOMAIN Unconfigured(n) \ Lasting PROVE l[g] = Unconfigured(n)[g]
      <4>1. CASE g \in NifFields
        BY <1>1, <3>1, <3>2, <3>3, <4>1 DEF SaneNif
      <4>2. CASE g = "identity"
        <5>0. "identity" \in DOMAIN nif /\ "client" # "identity" /\ "supplicant" # "identity"
          BY NifFieldsAreThere DEF NifFieldNames
        <5>1. l.identity = nif.identity
          <6>1. CASE c.op = "dhcpcd -x"
            BY <5>0, <6>1 DEF NifAfter, l
          <6>2. CASE c.op = "stop"
            BY <5>0, <6>2 DEF NifAfter, l
          <6> QED
            BY <2>3, <6>1, <6>2
        <5> QED
          BY <3>2, <3>3, <4>2, <5>1 DEF SaneNif
      <4> QED
        BY <3>3, <4>1, <4>2, NifFieldsAreThere
    <3> QED
      BY <3>3
  <2> QED
    BY <2>1, <2>2, <2>3 DEF InterfaceOps, NifOps
<1>6. SaneNif(l, n)
  BY <1>3, <1>4, <1>5 DEF SaneNif
<1> QED
  BY <1>6 DEF l

(* What becomes of a claim about an interface.                             *)
LEMMA OneIsDecided ==
  ASSUME NEW nif, IsMap(nif), DOMAIN nif = NifFieldNames, NEW n, SaneNif(nif, n),
         NEW c, c.op \in NifOps, c.op \in {"alias", "-alias"} => c.arg.family \in Families,
         NEW p, IsClaim(p), p.of \in NifFields, p.n = c.n
  PROVE  LET l == NifAfter(nif, c) IN
         /\ ~Decides(c, p) => (FoundIn(l, p) <=> FoundIn(nif, p))
         /\ Decides(c, p) /\ Agrees(c, p) => (p.yes <=> FoundIn(l, p))
<1> DEFINE l == NifAfter(nif, c)
           f == Field(c)
<1>1. /\ f \in NifFields
      /\ \A g \in NifFields \ {f} : l[g] = nif[g]
      /\ l[f] = CASE c.op = "alias"  -> WithAddress(nif[f], Item(c))
                  [] c.op = "-alias" -> WithoutIp(nif[f], Item(c))
                  [] c.op = "add"    -> nif.members \cup {Item(c)}
                  [] c.op = "delete" -> nif.members \ {Item(c)}
                  [] OTHER           -> SetTo(c)
  BY NifValue
<1> HIDE DEF l
<1>2. Decides(c, p) <=> p.of = f /\ (c.op \in ListOps => Means(c.op, Item(c), p))
  BY <1>1, NifFieldsAreThere DEF Decides, NifOps, RouteOps, SystemOps, ServerOps, Fields
<1>3. /\ c.op \in {"alias", "-alias"} => f \in Families
      /\ c.op \in {"add", "delete"} => f = "members"
      /\ c.op \in NifOps \ ListOps => f \in Flags \cup Values
  BY DEF Field, NifOps, ListOps, Flags, Values
<1>4. CASE p.of # f
  <2>1. l[p.of] = nif[p.of]
    BY <1>1, <1>4
  <2>2. p.of \notin Flags \cup Values \cup Families => p.of = "members"
    BY DEF NifFields
  <2> QED
    BY <1>2, <1>4, <2>1, <2>2 DEF FoundIn, l
<1>5. CASE p.of = f /\ c.op \in {"alias", "-alias"}
  <2>1. IsList(nif[f]) /\ f \in Families /\ f \notin Flags \cup Values
    BY <1>3, <1>5, NifFieldsAreThere DEF SaneNif
  <2>2. p.is \in ToSet(l[f]) <=>
          IF c.op = "alias" THEN p.is = Item(c) \/ (p.is \in ToSet(nif[f]) /\ Ip(p.is) # Ip(Item(c)))
                            ELSE p.is \in ToSet(nif[f]) /\ Ip(p.is) # Item(c)
    <3>1. CASE c.op = "alias"
      <4>1. l[f] = WithAddress(nif[f], Item(c))
        BY <1>1, <3>1
      <4> QED
        BY <2>1, <3>1, <4>1, AddressIsPut
    <3>2. CASE c.op = "-alias"
      <4>1. l[f] = WithoutIp(nif[f], Item(c))
        BY <1>1, <3>2
      <4> QED
        BY <2>1, <3>2, <4>1, IpIsTakenOut
    <3> QED
      BY <1>5, <3>1, <3>2
  <2>3. /\ Agrees(c, p) <=> (p.yes <=> c.op = "alias" /\ p.is = Item(c))
        /\ Decides(c, p) <=> IF c.op = "alias" THEN Ip(p.is) = Ip(Item(c)) ELSE Ip(p.is) = Item(c)
    BY <1>2, <1>5 DEF Agrees, ListOps, Wants, Means
  <2>4. \A m : FoundIn(m, p) <=> p.is \in ToSet(m[f])
    BY <1>5, <2>1 DEF FoundIn
  <2>5. /\ ~Decides(c, p) => (FoundIn(l, p) <=> FoundIn(nif, p))
        /\ Decides(c, p) => (FoundIn(l, p) <=> c.op = "alias" /\ p.is = Item(c))
    <3>1. CASE c.op = "alias"
      BY <2>2, <2>3, <2>4, <3>1
    <3>2. CASE c.op = "-alias"
      BY <2>2, <2>3, <2>4, <3>2
    <3> QED
      BY <1>5, <3>1, <3>2
  <2> QED
    BY <2>3, <2>5 DEF l
<1>6. CASE p.of = f /\ c.op \in {"add", "delete"}
  <2>1. f = "members" /\ f \notin Flags \cup Values \cup Families
    BY <1>3, <1>6 DEF Flags, Values, Families
  <2>2. l.members = IF c.op = "add" THEN nif.members \cup {Item(c)} ELSE nif.members \ {Item(c)}
    BY <1>1, <1>6, <2>1
  <2>3. /\ Agrees(c, p) <=> (p.yes <=> c.op = "add")
        /\ Decides(c, p) <=> p.is = Item(c)
    BY <1>2, <1>6 DEF Agrees, ListOps, Wants, Means
  <2>4. \A m : FoundIn(m, p) <=> p.is \in m.members
    BY <1>6, <2>1 DEF FoundIn
  <2>5. (p.is # Item(c) => (FoundIn(l, p) <=> FoundIn(nif, p))) /\ (p.is = Item(c) => (FoundIn(l, p) <=> c.op = "add"))
    BY <2>2, <2>4, <1>6
  <2> QED
    BY <1>6, <2>3, <2>5 DEF l
<1>7. CASE p.of = f /\ c.op \notin ListOps
  <2>1. f \in Flags \cup Values /\ l[f] = SetTo(c)
    BY <1>1, <1>3, <1>7 DEF ListOps
  <2>2. Agrees(c, p) <=> (p.yes <=> SetTo(c) = p.is)
    BY <1>7 DEF Agrees, NifOps
  <2>3. FoundIn(l, p) <=> SetTo(c) = p.is
    BY <1>7, <2>1 DEF FoundIn
  <2> QED
    BY <1>2, <1>7, <2>2, <2>3 DEF l
<1> QED
  BY <1>4, <1>5, <1>6, <1>7 DEF ListOps

(* An interface that is destroyed loses all but what lasts, its bridge     *)
(* loses a member, and the VLANs on it lose their parent.                  *)
LEMMA DestroyEffects ==
  ASSUME NEW k, Sane(k), NEW c, Proper(c), c.op = "destroy"
  PROVE  LET l == Effect(k, c) IN
         /\ \A f \in DOMAIN Unconfigured(c.n) \ Lasting : l.nif[c.n][f] = Unconfigured(c.n)[f]
         /\ \A f \in Lasting : l.nif[c.n][f] = k.nif[c.n][f]
         /\ \A m \in Names \ {c.n} :
              /\ \A f \in DOMAIN Unconfigured(m) \ {"members", "vlan"} : l.nif[m][f] = k.nif[m][f]
              /\ l.nif[m].members = k.nif[m].members \ {c.n}
              /\ l.nif[m].vlan = IF k.nif[m].vlan.parent = c.n THEN NoVLAN ELSE k.nif[m].vlan
         /\ \A f \in Fields \cup {"routes"} : l[f] = k[f]
<1> DEFINE l == Effect(k, c)
           n == c.n
<1>1. l = [k EXCEPT !.nif = Destroyed(k, n)]
  BY DEF Effect, NifOps, SystemOps
<1>2. KernelOK(k) /\ n \in Names
  BY DEF Proper, Sane
<1>3. l.nif = Destroyed(k, n) /\ \A g \in DOMAIN PowerOn \ {"nif"} : l[g] = k[g]
  BY <1>1, <1>2, DestroyedIsOK
<1>4. \A f \in Fields \cup {"routes"} : l[f] = k[f]
  BY <1>3, NifFieldsAreThere
<1>5. /\ \A f \in DOMAIN Unconfigured(n) \ Lasting : Destroyed(k, n)[n][f] = Unconfigured(n)[f]
      /\ \A f \in Lasting : Destroyed(k, n)[n][f] = k.nif[n][f]
  <2> DEFINE gone == Unconfigured(n)
             left == [gone EXCEPT !.client = k.nif[n].client, !.supplicant = k.nif[n].supplicant]
  <2>1. Destroyed(k, n)[n] = left
    BY <1>2 DEF Destroyed
  <2>2. IsMap(gone) /\ DOMAIN gone = NifFields \cup {"identity"} /\ Lasting \subseteq NifFields
    BY KernelFields, NifFieldsAreThere DEF Lasting, NifFields, Flags, Values
  <2> HIDE DEF gone
  <2>3. /\ \A f \in DOMAIN gone \ Lasting : left[f] = gone[f]
        /\ left.client = k.nif[n].client /\ left.supplicant = k.nif[n].supplicant
    BY <2>2 DEF Lasting
  <2> QED
    BY <2>1, <2>3 DEF gone, Lasting
<1>6. ASSUME NEW m \in Names \ {n}
      PROVE  LET one == Destroyed(k, n)[m] IN
             /\ \A f \in DOMAIN Unconfigured(m) \ {"members", "vlan"} : one[f] = k.nif[m][f]
             /\ one.members = k.nif[m].members \ {n}
             /\ one.vlan = IF k.nif[m].vlan.parent = n THEN NoVLAN ELSE k.nif[m].vlan
  <2> DEFINE nif == k.nif[m]
             other == [nif EXCEPT !.members = @ \ {n}, !.vlan = IF @.parent = n THEN NoVLAN ELSE @]
  <2>1. Destroyed(k, n)[m] = other
    BY DEF Destroyed
  <2>2. IsMap(nif) /\ DOMAIN nif = DOMAIN Unconfigured(m) /\ {"members", "vlan"} \subseteq DOMAIN nif
    BY <1>2, KernelFields DEF KernelOK
  <2> HIDE DEF nif
  <2>3. /\ \A f \in DOMAIN Unconfigured(m) \ {"members", "vlan"} : other[f] = nif[f]
        /\ other.members = nif.members \ {n}
        /\ other.vlan = IF nif.vlan.parent = n THEN NoVLAN ELSE nif.vlan
    BY <2>2
  <2> QED
    BY <2>1, <2>3 DEF nif
<1> HIDE DEF l
<1> QED
  BY <1>3, <1>4, <1>5, <1>6 DEF l

LEMMA FieldIsSet ==
  ASSUME NEW k, KernelOK(k), NEW f \in Fields \cup {"routes"}, NEW v
  PROVE  LET l == WithField(k, f, v) IN
         /\ KernelOK(l) /\ l.nif = k.nif /\ l[f] = v
         /\ \A g \in (Fields \cup {"routes"}) \ {f} : l[g] = k[g]
<1> DEFINE l == WithField(k, f, v)
<1>1. DOMAIN PowerOn = Fields \cup {"routes", "nif"} /\ "nif" \notin Fields
  BY NifFieldsAreThere
<1>2. f \in DOMAIN PowerOn \ {"nif"}
  BY <1>1
<1>3. /\ KernelOK(l) /\ l.nif = k.nif /\ l[f] = v
      /\ \A g \in DOMAIN PowerOn \ {f} : l[g] = k[g]
  BY <1>2, FieldTouches
<1> QED
  BY <1>1, <1>3

(* The other commands.                                                     *)
LEMMA RestEffects ==
  ASSUME NEW k, KernelOK(k), NEW c, c.op \in Ops \ (NifOps \cup {"destroy"})
  PROVE  LET l == Effect(k, c) IN
         /\ l.nif = k.nif
         /\ \A f \in Fields :
              l[f] = IF c.op = f \/ (c.op = "npf" /\ f \in {"rules", "rulesOnDisk"})
                        \/ (c.op = "start dhcpd" /\ f = "dhcpd")
                     THEN c.arg
                     ELSE IF c.op = "stop dhcpd" /\ f = "dhcpd" THEN NoServer ELSE k[f]
         /\ l.routes = CASE c.op = "route add"    -> Updated(k.routes, c.n, c.arg)
                         [] c.op = "route delete" -> Without(k.routes, c.n)
                         [] OTHER                 -> k.routes
<1> DEFINE l == Effect(k, c)
<1>0. DOMAIN PowerOn = Fields \cup {"routes", "nif"} /\ "routes" \notin Fields /\ "nif" \notin Fields
  BY NifFieldsAreThere
<1>1. CASE c.op \in RouteOps
  <2>1. PICK v : /\ l = WithField(k, "routes", v)
                 /\ v = IF c.op = "route add" THEN Updated(k.routes, c.n, c.arg) ELSE Without(k.routes, c.n)
    BY <1>1 DEF Effect, SystemOps, NifOps, RouteOps, WithField
  <2>2. l.nif = k.nif /\ l.routes = v /\ \A g \in (Fields \cup {"routes"}) \ {"routes"} : l[g] = k[g]
    <3> DEFINE x == WithField(k, "routes", v)
    <3>1. x.nif = k.nif /\ x.routes = v /\ \A g \in (Fields \cup {"routes"}) \ {"routes"} : x[g] = k[g]
      BY FieldIsSet
    <3>2. l = x
      BY <2>1
    <3> HIDE DEF l, x
    <3> QED
      BY <3>1, <3>2
  <2>3. c.op \notin Fields /\ c.op \notin {"npf", "start dhcpd", "stop dhcpd"}
    BY <1>1 DEF RouteOps, Fields
  <2> HIDE DEF l
  <2> QED
    BY <1>0, <1>1, <2>1, <2>2, <2>3 DEF l, RouteOps
<1>2. CASE c.op \in ServerOps
  <2>1. PICK v : l = WithField(k, "dhcpd", v) /\ v = IF c.op = "start dhcpd" THEN c.arg ELSE NoServer
    BY <1>2 DEF Effect, ServerOps, SystemOps, NifOps, WithField
  <2>2. l.nif = k.nif /\ l.dhcpd = v /\ \A g \in (Fields \cup {"routes"}) \ {"dhcpd"} : l[g] = k[g]
    <3> DEFINE x == WithField(k, "dhcpd", v)
    <3>1. x.nif = k.nif /\ x.dhcpd = v /\ \A g \in (Fields \cup {"routes"}) \ {"dhcpd"} : x[g] = k[g]
      BY FieldIsSet DEF Fields
    <3>2. l = x
      BY <2>1
    <3> HIDE DEF l, x
    <3> QED
      BY <3>1, <3>2
  <2>3. c.op \notin Fields /\ c.op \notin {"npf", "route add", "route delete"}
    BY <1>2 DEF ServerOps, Fields
  <2> HIDE DEF l
  <2> QED
    BY <1>0, <1>2, <2>1, <2>2, <2>3 DEF l, ServerOps
<1>3. CASE c.op \in SystemOps
  <2>1. l = WithField(k, c.op, c.arg)
    BY <1>3 DEF Effect, SystemOps, NifOps, WithField
  <2>2. c.op \in Fields /\ c.op \notin {"npf", "route add", "route delete", "start dhcpd", "stop dhcpd"}
    BY <1>3 DEF SystemOps, Fields
  <2>3. l.nif = k.nif /\ l[c.op] = c.arg /\ \A g \in (Fields \cup {"routes"}) \ {c.op} : l[g] = k[g]
    <3> DEFINE f == c.op
               v == c.arg
               x == WithField(k, f, v)
    <3>1. l = x
      BY <2>1
    <3>2. f \in Fields \cup {"routes"}
      BY <2>2
    <3> HIDE DEF f, v
    <3>3. x.nif = k.nif /\ x[f] = v /\ \A g \in (Fields \cup {"routes"}) \ {f} : x[g] = k[g]
      BY <3>2, FieldIsSet
    <3> HIDE DEF l, x
    <3> QED
      BY <3>1, <3>3 DEF f, v
  <2> HIDE DEF l
  <2> QED
    BY <1>0, <2>2, <2>3 DEF l
<1>4. CASE c.op = "npf"
  <2> DEFINE mid == WithField(k, "rulesOnDisk", c.arg)
  <2>1. /\ KernelOK(mid) /\ mid.nif = k.nif /\ mid.rulesOnDisk = c.arg
        /\ \A g \in (Fields \cup {"routes"}) \ {"rulesOnDisk"} : mid[g] = k[g]
    BY FieldIsSet DEF Fields
  <2>2. l = WithField(mid, "rules", c.arg)
    BY <1>4 DEF Effect, SystemOps, NifOps, WithField
  <2> HIDE DEF mid
  <2>3. l.nif = mid.nif /\ l.rules = c.arg /\ \A g \in (Fields \cup {"routes"}) \ {"rules"} : l[g] = mid[g]
    BY <2>1, <2>2, FieldIsSet DEF Fields
  <2>4. c.op \notin Fields /\ {"rules", "rulesOnDisk"} \subseteq Fields
    BY <1>4 DEF Fields
  <2> HIDE DEF l
  <2> QED
    BY <1>0, <1>4, <2>1, <2>3, <2>4 DEF l
<1> QED
  BY <1>1, <1>2, <1>3, <1>4 DEF Ops

(* However a command ends, the system remains one that can be.             *)
LEMMA RunStaysSane ==
  ASSUME NEW k, Sane(k), NEW c, Proper(c)
  PROVE  Sane(Run(k, c)) /\ \A l \in FailedEffects(k, c) : Sane(l)
<1>1. KernelOK(k) /\ c.op \in Ops
  BY DEF Sane, Proper
<1>2. KernelOK(Run(k, c)) /\ \A l \in FailedEffects(k, c) : KernelOK(l)
  BY <1>1, RunIsOK, FailedIsOK
<1>3. ASSUME ~Blocked(k, c) PROVE \A n \in Names : SaneNif(Effect(k, c).nif[n], n)
  <2>1. CASE c.op \in NifOps
    <3>1. c.n \in Names /\ IsMap(k.nif[c.n]) /\ DOMAIN k.nif[c.n] = NifFieldNames
      BY <1>1, <2>1, NifFieldsAreThere DEF Proper, KernelOK, NifFieldNames
    <3>2. c.op \in InterfaceOps => k.nif[c.n].exists = TRUE
      BY <1>3, <3>1 DEF Blocked, Missing, Exists, Sane, SaneNif, Flags
    <3>3. SaneNif(NifAfter(k.nif[c.n], c), c.n)
      BY <2>1, <3>1, <3>2, OneStaysSane DEF Proper, Sane, Families
    <3> QED
      BY <1>1, <2>1, <3>1, <3>3, NifEffects DEF Sane
  <2>2. CASE c.op = "destroy"
    <3> DEFINE l == Effect(k, c)
    <3>1. /\ \A f \in DOMAIN Unconfigured(c.n) \ Lasting : l.nif[c.n][f] = Unconfigured(c.n)[f]
          /\ \A f \in Lasting : l.nif[c.n][f] = k.nif[c.n][f]
          /\ \A m \in Names \ {c.n} :
              /\ \A f \in DOMAIN Unconfigured(m) \ {"members", "vlan"} : l.nif[m][f] = k.nif[m][f]
              /\ l.nif[m].members = k.nif[m].members \ {c.n}
              /\ l.nif[m].vlan = IF k.nif[m].vlan.parent = c.n THEN NoVLAN ELSE k.nif[m].vlan
      BY <2>2, DestroyEffects
    <3>2. l.nif = Destroyed(k, c.n) /\ c.n \in Names
      BY <1>1, <2>2, DestroyedIsOK DEF Effect, NifOps, SystemOps, Proper
    <3> HIDE DEF l
    <3>3. SaneNif(l.nif[c.n], c.n)
      <4>1. \A f \in Flags : l.nif[c.n][f] \in BOOLEAN
        <5>1. \A f \in Flags : k.nif[c.n][f] \in BOOLEAN
          BY <3>2 DEF Sane, SaneNif
        <5>2. \A f \in Flags \ Lasting : Unconfigured(c.n)[f] = FALSE
          BY DEF Unconfigured, Flags, Lasting
        <5> QED
          <6>1. Flags \subseteq DOMAIN Unconfigured(c.n)
            BY NifFieldsAreThere DEF NifFields
          <6> HIDE DEF Flags
          <6>2. ASSUME NEW f \in Flags PROVE l.nif[c.n][f] \in BOOLEAN
            <7>1. CASE f \in Lasting
              BY <3>1, <5>1, <7>1
            <7>2. CASE f \notin Lasting
              BY <3>1, <5>2, <6>1, <7>2
            <7> QED
              BY <7>1, <7>2
          <6> QED
            BY <6>2
      <4>2. \A f \in Families : IsList(l.nif[c.n][f])
        BY <3>1, NoList, NifFieldsAreThere DEF Families, NifFields, Lasting, Unconfigured
      <4> QED
        BY <3>1, <4>1, <4>2 DEF SaneNif
    <3>4. ASSUME NEW m \in Names \ {c.n} PROVE SaneNif(l.nif[m], m)
      <4>1. SaneNif(k.nif[m], m)
        BY DEF Sane
      <4>2. \A f \in Flags \cup Families : f \in DOMAIN Unconfigured(m) \ {"members", "vlan"}
        BY NifFieldsAreThere DEF Flags, Families, NifFields
      <4>3. Unconfigured(m).members = {} /\ Unconfigured(m).vlan = NoVLAN /\ "exists" \in Flags
        BY DEF Unconfigured, Flags
      <4>4. {"members", "vlan"} \cap Lasting = {} /\ {"members", "vlan"} \subseteq DOMAIN Unconfigured(m)
        BY NifFieldsAreThere DEF Lasting, NifFields, Values
      <4> HIDE DEF Flags, Families
      <4>5. ASSUME ~l.nif[m].exists, NEW f \in DOMAIN Unconfigured(m) \ Lasting
            PROVE  l.nif[m][f] = Unconfigured(m)[f]
        <5>1. ~k.nif[m].exists
          BY <3>1, <4>2, <4>3, <4>5
        <5>2. \A g \in DOMAIN Unconfigured(m) \ Lasting : k.nif[m][g] = Unconfigured(m)[g]
          BY <4>1, <5>1 DEF SaneNif
        <5>3. k.nif[m].members = {} /\ k.nif[m].vlan = NoVLAN
          BY <4>3, <4>4, <5>2
        <5>4. CASE f = "members"
          BY <3>1, <4>3, <5>3, <5>4
        <5>5. CASE f = "vlan"
          BY <3>1, <4>3, <5>3, <5>5
        <5>6. CASE f \notin {"members", "vlan"}
          BY <3>1, <4>5, <5>2, <5>6
        <5> QED
          BY <5>4, <5>5, <5>6
      <4> QED
        BY <3>1, <4>1, <4>2, <4>5 DEF SaneNif
    <3> QED
      BY <3>3, <3>4 DEF l
  <2>3. CASE c.op \notin NifOps \cup {"destroy"}
    BY <1>1, <2>3, OtherEffect DEF Sane
  <2> QED
    BY <2>1, <2>2, <2>3
<1>4. ASSUME NEW l \in FailedEffects(k, c) PROVE l.nif = k.nif
  BY <1>1, FailureSparesInterfaces
<1> QED
  BY <1>1, <1>2, <1>3, <1>4 DEF Sane, Run

(* A command that is run.                                                  *)
LEMMA EffectDecides ==
  ASSUME NEW k, Sane(k), NEW c, Proper(c), NEW p, IsClaim(p)
  PROVE  /\ ~Decides(c, p) /\ Holds(k, p) => Holds(Effect(k, c), p)
         /\ Decides(c, p) /\ Agrees(c, p) => Holds(Effect(k, c), p)
<1> DEFINE l == Effect(k, c)
<1>1. KernelOK(k) /\ c.op \in Ops
  BY DEF Sane, Proper
<1>2. CASE c.op \in NifOps
  <2>1. /\ \A m \in Names \ {c.n} : l.nif[m] = k.nif[m]
        /\ l.nif[c.n] = NifAfter(k.nif[c.n], c)
        /\ \A f \in Fields \cup {"routes"} : l[f] = k[f]
    BY <1>1, <1>2, NifEffects
  <2>2. IsMap(k.nif[c.n]) /\ DOMAIN k.nif[c.n] = NifFieldNames /\ SaneNif(k.nif[c.n], c.n)
    BY <1>2, NifFieldsAreThere DEF Proper, Sane, KernelOK, NifFieldNames
  <2> HIDE DEF l
  <2>3. Decides(c, p) <=> /\ p.of = Field(c) /\ p.n = c.n
                          /\ c.op \in ListOps => Means(c.op, Item(c), p)
    BY <1>2 DEF Decides, NifOps, RouteOps, SystemOps, ServerOps
  <2>4. Field(c) \in NifFields
    BY <1>2, <2>2, NifValue DEF Proper, Families
  <2>5. CASE p.of \in NifFields /\ p.n = c.n
    <3>1. /\ ~Decides(c, p) => (FoundIn(l.nif[p.n], p) <=> FoundIn(k.nif[p.n], p))
          /\ Decides(c, p) /\ Agrees(c, p) => (p.yes <=> FoundIn(l.nif[p.n], p))
      BY <1>2, <2>1, <2>2, <2>5, OneIsDecided DEF Proper, Families
    <3> QED
      BY <2>5, <3>1 DEF Holds, Found, l
  <2>6. CASE p.of \in NifFields /\ p.n # c.n
    <3>1. l.nif[p.n] = k.nif[p.n]
      BY <2>1, <2>6 DEF IsClaim
    <3> QED
      BY <2>3, <2>6, <3>1 DEF Holds, Found, l
  <2>7. CASE p.of \notin NifFields
    <3>1. l.routes = k.routes /\ (p.of \in Fields => l[p.of] = k[p.of])
      BY <2>1
    <3> QED
      BY <2>3, <2>4, <2>7, <3>1 DEF Holds, Found, IsClaim, l
  <2> QED
    BY <2>5, <2>6, <2>7
<1>3. CASE c.op = "destroy"
  <2> DEFINE n == c.n
  <2>1. /\ \A f \in DOMAIN Unconfigured(n) \ Lasting : l.nif[n][f] = Unconfigured(n)[f]
        /\ \A f \in Lasting : l.nif[n][f] = k.nif[n][f]
        /\ \A m \in Names \ {n} :
             /\ \A f \in DOMAIN Unconfigured(m) \ {"members", "vlan"} : l.nif[m][f] = k.nif[m][f]
             /\ l.nif[m].members = k.nif[m].members \ {n}
             /\ l.nif[m].vlan = IF k.nif[m].vlan.parent = n THEN NoVLAN ELSE k.nif[m].vlan
        /\ \A f \in Fields \cup {"routes"} : l[f] = k[f]
    BY <1>3, DestroyEffects
  <2>2. n \in Names /\ n # None
    BY <1>3, DocumentAssumption DEF Proper
  <2>3. Decides(c, p) <=> \/ p.n = n /\ p.of \in NifFields \ Lasting
                          \/ p.of = "vlan" /\ p.is.parent = n
    BY <1>3 DEF Decides, NifOps, RouteOps, SystemOps, ServerOps
  <2>4. Agrees(c, p) <=> (p.yes <=> FoundIn(Unconfigured(n), p))
    BY <1>3 DEF Agrees, ListOps, NifOps
  <2> HIDE DEF l
  <2>5. NifFields \subseteq DOMAIN Unconfigured(n) /\ NifFields \subseteq DOMAIN Unconfigured(p.n)
    BY NifFieldsAreThere
  <2>6. CASE p.of \in NifFields \ Lasting /\ p.n = n
    <3>1. l.nif[n][p.of] = Unconfigured(n)[p.of]
      BY <2>1, <2>5, <2>6
    <3>2. FoundIn(l.nif[n], p) <=> FoundIn(Unconfigured(n), p)
      BY <2>6, <3>1 DEF FoundIn, NifFields
    <3> QED
      BY <2>3, <2>4, <2>6, <3>2 DEF Holds, Found, l
  <2>7. CASE p.of \in Lasting /\ p.n = n
    <3>1. l.nif[n][p.of] = k.nif[n][p.of] /\ p.of \in Flags \cup Values /\ p.of \in NifFields /\ p.of # "vlan"
      BY <2>1, <2>7 DEF Lasting, Flags, Values, NifFields
    <3> QED
      BY <2>3, <2>7, <3>1 DEF Holds, Found, FoundIn, l
  <2>8. CASE p.of \in NifFields /\ p.n # n /\ p.of \notin {"members", "vlan"}
    <3>1. l.nif[p.n][p.of] = k.nif[p.n][p.of]
      BY <2>1, <2>5, <2>8 DEF IsClaim
    <3> QED
      BY <2>3, <2>8, <3>1 DEF Holds, Found, FoundIn, NifFields, l
  <2>9. CASE p.of = "members" /\ p.n # n
    <3>1. l.nif[p.n].members = k.nif[p.n].members \ {n} /\ ~p.yes /\ p.of \in NifFields
      BY <2>1, <2>9 DEF IsClaim, NifFields
    <3> QED
      BY <2>3, <2>9, <3>1 DEF Holds, Found, FoundIn, Flags, Values, Families, l
  <2>10. CASE p.of = "vlan" /\ p.n # n
    <3>1. p.yes /\ p.n \in Names /\ p.of \in NifFields /\ p.of \in Flags \cup Values
      BY <2>10 DEF IsClaim, NifFields, Values
    <3>2. l.nif[p.n].vlan = IF k.nif[p.n].vlan.parent = n THEN NoVLAN ELSE k.nif[p.n].vlan
      BY <2>1, <2>10, <3>1
    <3>3. ~Decides(c, p) => p.is.parent # n
      BY <2>3, <2>10
    <3>4. ~(Decides(c, p) /\ Agrees(c, p))
      <4>1. Unconfigured(n).vlan = NoVLAN /\ NoVLAN.parent = None
        BY DEF Unconfigured, NoVLAN
      <4>2. FoundIn(Unconfigured(n), p) <=> NoVLAN = p.is
        BY <2>10, <3>1, <4>1 DEF FoundIn
      <4> QED
        BY <2>2, <2>3, <2>4, <2>10, <3>1, <4>1, <4>2
    <3>5. (Holds(k, p) <=> k.nif[p.n].vlan = p.is) /\ (Holds(l, p) <=> l.nif[p.n].vlan = p.is)
      BY <2>10, <3>1 DEF Holds, Found, FoundIn
    <3> QED
      BY <3>2, <3>3, <3>4, <3>5 DEF l
  <2>11. CASE p.of \notin NifFields
    <3>1. l.routes = k.routes /\ (p.of \in Fields => l[p.of] = k[p.of]) /\ p.of # "vlan"
      BY <2>1, <2>11 DEF NifFields, Values
    <3> QED
      BY <2>3, <2>11, <3>1 DEF Holds, Found, IsClaim, l
  <2> QED
    BY <2>6, <2>7, <2>8, <2>9, <2>10, <2>11
<1>4. CASE c.op \in Ops \ (NifOps \cup {"destroy"})
  <2>1. /\ l.nif = k.nif
        /\ \A f \in Fields :
             l[f] = IF c.op = f \/ (c.op = "npf" /\ f \in {"rules", "rulesOnDisk"})
                       \/ (c.op = "start dhcpd" /\ f = "dhcpd")
                    THEN c.arg
                    ELSE IF c.op = "stop dhcpd" /\ f = "dhcpd" THEN NoServer ELSE k[f]
        /\ l.routes = CASE c.op = "route add"    -> Updated(k.routes, c.n, c.arg)
                        [] c.op = "route delete" -> Without(k.routes, c.n)
                        [] OTHER                 -> k.routes
    BY <1>1, <1>4, RestEffects
  <2> HIDE DEF l
  <2>2. CASE p.of \in NifFields
    <3>1. ~Decides(c, p)
      BY <1>4, <2>2, NifFieldsAreThere DEF Decides, SystemOps, RouteOps, ServerOps, Fields
    <3> QED
      BY <2>1, <2>2, <3>1 DEF Holds, Found, l
  <2>3. CASE p.of = "routes"
    <3>1. ~p.yes /\ p.of \notin NifFields /\ p.of \notin Fields
      BY <2>3, NifFieldsAreThere DEF IsClaim
    <3>2. Decides(c, p) <=> c.op \in RouteOps /\ p.n = c.n
      BY <1>4, <2>3, <3>1 DEF Decides, SystemOps, ServerOps, RouteOps
    <3>3. \A m : Holds(m, p) <=> ~(p.n \in DOMAIN m.routes /\ m.routes[p.n] = p.is)
      BY <2>3, <3>1 DEF Holds, Found
    <3>4. CASE c.op = "route add"
      <4>1. l.routes = Updated(k.routes, c.n, c.arg) /\ c.op \in RouteOps
        BY <2>1, <3>4 DEF RouteOps
      <4>2. DOMAIN l.routes = DOMAIN k.routes \cup {c.n}
            /\ \A x \in DOMAIN l.routes : l.routes[x] = IF x = c.n THEN c.arg ELSE k.routes[x]
        BY <4>1 DEF Updated
      <4>3. Agrees(c, p) <=> c.arg # p.is
        BY <3>4 DEF Agrees, ListOps, NifOps
      <4> QED
        BY <3>2, <3>3, <4>1, <4>2, <4>3 DEF l
    <3>5. CASE c.op = "route delete"
      <4>1. l.routes = Without(k.routes, c.n) /\ c.op \in RouteOps
        BY <2>1, <3>5 DEF RouteOps
      <4>2. DOMAIN l.routes = DOMAIN k.routes \ {c.n}
            /\ \A x \in DOMAIN l.routes : l.routes[x] = k.routes[x]
        BY <4>1 DEF Without
      <4> QED
        BY <3>2, <3>3, <4>1, <4>2 DEF l
    <3>6. CASE c.op \notin RouteOps
      <4>1. l.routes = k.routes
        BY <2>1, <3>6 DEF RouteOps
      <4> QED
        BY <3>2, <3>3, <3>6, <4>1 DEF l
    <3> QED
      BY <3>4, <3>5, <3>6 DEF RouteOps
  <2>4. CASE p.of \in Fields
    <3>1. p.yes /\ p.of \notin NifFields /\ p.of # "routes"
      BY <2>4, NifFieldsAreThere DEF IsClaim
    <3>2. \A m : Holds(m, p) <=> m[p.of] = p.is
      BY <3>1 DEF Holds, Found
    <3>3. Decides(c, p) <=> \/ c.op \in SystemOps /\ p.of = c.op
                            \/ c.op = "npf" /\ p.of \in {"rules", "rulesOnDisk"}
                            \/ c.op \in ServerOps /\ p.of = "dhcpd"
      BY <1>4, <3>1 DEF Decides
    <3>4. Decides(c, p) => (Agrees(c, p) <=> IF c.op = "stop dhcpd" THEN NoServer = p.is ELSE c.arg = p.is)
      BY <3>3 DEF Agrees, ListOps, NifOps, SystemOps, ServerOps
    <3>5. c.op = p.of => c.op \in SystemOps
      BY <1>4, <2>4 DEF Ops, Fields, SystemOps, RouteOps, ServerOps
    <3>6. ~Decides(c, p) => l[p.of] = k[p.of]
      BY <2>1, <2>4, <3>3, <3>5 DEF ServerOps
    <3>7. Decides(c, p) => l[p.of] = IF c.op = "stop dhcpd" THEN NoServer ELSE c.arg
      BY <2>1, <2>4, <3>3 DEF ServerOps, SystemOps
    <3> QED
      BY <3>2, <3>4, <3>6, <3>7 DEF l
  <2> QED
    BY <2>2, <2>3, <2>4 DEF IsClaim
<1> QED
  BY <1>1, <1>2, <1>3, <1>4

(* A claim that holds stays, whether the command is run or fails.          *)
LEMMA SparedStays ==
  ASSUME NEW k, Sane(k), NEW c, Proper(c), NEW p, IsClaim(p), Holds(k, p), ~Spoils(c, p)
  PROVE  Holds(Run(k, c), p) /\ \A l \in FailedEffects(k, c) : Holds(l, p)
<1>1. Holds(Effect(k, c), p)
  BY EffectDecides DEF Spoils
<1>2. Holds(Run(k, c), p)
  BY <1>1 DEF Run
<1>3. ASSUME NEW l \in FailedEffects(k, c), c.op = "npf", l # k, l # Effect(k, c)
      PROVE  Holds(l, p)
  <2> DEFINE mid == WithField(k, "rulesOnDisk", c.arg)
  <2>1. l = mid
    BY <1>3 DEF FailedEffects, WithField
  <2>2. /\ mid.nif = k.nif /\ mid.rulesOnDisk = c.arg
        /\ \A g \in (Fields \cup {"routes"}) \ {"rulesOnDisk"} : mid[g] = k[g]
    BY FieldIsSet DEF Sane, Fields
  <2> HIDE DEF mid
  <2>3. CASE p.of = "rulesOnDisk"
    <3>1. p.yes /\ p.of \notin NifFields /\ p.of # "routes"
      BY <2>3 DEF IsClaim, Fields, NifFields, Flags, Values, Families
    <3>2. Decides(c, p)
      BY <1>3, <2>3 DEF Decides
    <3>3. c.arg = p.is
      BY <1>3, <3>2 DEF Spoils, Agrees, ListOps, NifOps
    <3> QED
      BY <2>1, <2>2, <2>3, <3>1, <3>3 DEF Holds, Found
  <2>4. CASE p.of # "rulesOnDisk"
    <3>1. p.of \in NifFields \/ mid[p.of] = k[p.of]
      BY <2>2, <2>4 DEF IsClaim
    <3>2. mid.routes = k.routes
      BY <2>2
    <3> QED
      BY <2>1, <2>2, <3>1, <3>2 DEF Holds, Found
  <2> QED
    BY <2>3, <2>4
<1> QED
  BY <1>1, <1>2, <1>3 DEF FailedEffects

(* A claim that a command makes holds afterwards unless it was refused.    *)
LEMMA MadeHolds ==
  ASSUME NEW k, Sane(k), NEW c, Proper(c), NEW p, IsClaim(p), Makes(c, p), Tolerated(k, c)
  PROVE  Holds(Run(k, c), p)
<1>1. /\ Decides(c, p) /\ Agrees(c, p) /\ c.op # "route add"
      /\ c.tol = "missing" => c.op \in Removals
      /\ c.op = "alias" => p.yes
  BY DEF Makes
<1>2. CASE ~Blocked(k, c)
  BY <1>1, <1>2, EffectDecides DEF Run
<1>3. CASE Blocked(k, c)
  <2>1. Run(k, c) = k /\ ((Missing(k, c) /\ c.op \in Removals) \/ Present(k, c))
    BY <1>1, <1>3 DEF Run, Blocked, Tolerated
  <2>2. CASE c.op = "destroy"
    <3>1. c.n \in Names /\ ~k.nif[c.n].exists
      BY <2>1, <2>2 DEF Missing, Present, Proper, Exists
    <3>2. \A f \in DOMAIN Unconfigured(c.n) \ Lasting : k.nif[c.n][f] = Unconfigured(c.n)[f]
      BY <3>1 DEF Sane, SaneNif
    <3>3. p.yes <=> FoundIn(Unconfigured(c.n), p)
      BY <1>1, <2>2 DEF Agrees, ListOps, NifOps
    <3>4. p.n = c.n /\ p.of \in NifFields \ Lasting
      <4>1. \/ p.n = c.n /\ p.of \in NifFields \ Lasting
            \/ p.of = "vlan" /\ p.is.parent = c.n
        BY <1>1, <2>2 DEF Decides, NifOps, RouteOps, SystemOps, ServerOps
      <4>2. ASSUME p.of = "vlan", p.is.parent = c.n PROVE FALSE
        <5>1. p.yes
          BY <4>2 DEF IsClaim, Values
        <5>2. FoundIn(Unconfigured(c.n), p) => p.is = NoVLAN
          BY <4>2 DEF FoundIn, Unconfigured, Values
        <5> QED
          BY <3>1, <3>3, <4>2, <5>1, <5>2, DocumentAssumption DEF NoVLAN
      <4> QED
        BY <4>1, <4>2
    <3>5. k.nif[p.n][p.of] = Unconfigured(c.n)[p.of]
      BY <3>2, <3>4, NifFieldsAreThere
    <3>6. FoundIn(k.nif[p.n], p) <=> FoundIn(Unconfigured(c.n), p)
      BY <3>4, <3>5 DEF FoundIn, NifFields
    <3> QED
      BY <2>1, <3>3, <3>4, <3>6 DEF Holds, Found
  <2>3. CASE c.op = "route delete"
    <3>1. c.n \notin DOMAIN k.routes
      BY <2>1, <2>3 DEF Missing, Present, InterfaceOps, NifOps
    <3>2. p.of = "routes" /\ p.n = c.n
      BY <1>1, <2>3 DEF Decides, NifOps, RouteOps, SystemOps, ServerOps
    <3> QED
      BY <2>1, <3>1, <3>2 DEF Holds, Found, IsClaim, NifFields, Flags, Values, Families
  <2>4. CASE c.op \in NifOps
    <3> DEFINE nif == k.nif[c.n]
    <3>1. c.n \in Names /\ SaneNif(nif, c.n)
      BY <2>4 DEF Proper, Sane
    <3>2. /\ p.of = Field(c) /\ p.n = c.n /\ p.of \in NifFields
          /\ c.op \in ListOps => Means(c.op, Item(c), p)
      <4>1. p.of = Field(c) /\ p.n = c.n /\ (c.op \in ListOps => Means(c.op, Item(c), p))
        BY <1>1, <2>4 DEF Decides, NifOps, RouteOps, SystemOps, ServerOps
      <4>2. IsMap(nif) /\ DOMAIN nif = NifFieldNames
        BY <3>1, NifFieldsAreThere DEF Sane, KernelOK, NifFieldNames
      <4>3. c.op \in {"alias", "-alias"} => c.arg.family \in Families
        BY DEF Proper, Families
      <4> HIDE DEF nif
      <4>4. Field(c) \in NifFields
        BY <2>4, <4>2, <4>3, NifValue
      <4> QED
        BY <4>1, <4>4
    <3>3. SUFFICES p.yes <=> FoundIn(nif, p)
      BY <2>1, <3>2 DEF Holds, Found
    <3>4. ~nif.exists => /\ ~nif.up /\ ~nif.hostap /\ nif.vlan = NoVLAN /\ nif.members = {}
                         /\ nif.v4 = <<>> /\ nif.v6 = <<>>
      <4>1. ~nif.exists => \A f \in DOMAIN Unconfigured(c.n) \ Lasting : nif[f] = Unconfigured(c.n)[f]
        BY <3>1 DEF SaneNif
      <4>2. {"up", "hostap", "vlan", "members", "v4", "v6"} \subseteq DOMAIN Unconfigured(c.n) \ Lasting
        BY KernelFields DEF Lasting
      <4> QED
        BY <4>1, <4>2 DEF Unconfigured
    <3>5. nif.exists \in BOOLEAN /\ nif.client \in BOOLEAN /\ nif.up \in BOOLEAN /\ nif.hostap \in BOOLEAN
      BY <3>1 DEF SaneNif, Flags
    <3> HIDE DEF nif
    <3>6. /\ c.op = "alias" => Contains(nif[c.arg.family], c.arg.address)
          /\ c.op = "-alias" => ~nif.exists \/ ~HasIp(nif[c.arg.family], c.arg.address)
          /\ c.op = "add" => c.arg \in nif.members
          /\ c.op = "delete" => ~nif.exists \/ c.arg \notin nif.members
          /\ c.op = "create" => nif.exists
          /\ c.op = "-vlanif" => ~nif.exists \/ nif.vlan = NoVLAN
          /\ c.op \in {"-mediaopt", "down"} => ~nif.exists
          /\ c.op = "dhcpcd -x" => ~nif.client
          /\ c.op \in {"alias", "-alias", "add", "delete", "create", "-vlanif", "-mediaopt", "down", "dhcpcd -x"}
      BY <2>1, <2>4, <3>1 DEF Missing, Present, Removals, Exists, InterfaceOps, NifOps, nif
    <3>7. CASE c.op \in {"alias", "-alias"}
      <4>1. p.of \in Families /\ p.of = c.arg.family /\ p.of \notin Flags \cup Values
        BY <3>2, <3>7 DEF Field, Proper, Families, Flags, Values
      <4>2. FoundIn(nif, p) <=> p.is \in ToSet(nif[p.of])
        BY <4>1 DEF FoundIn
      <4>3. p.is \in ToSet(nif[p.of]) <=> Contains(nif[p.of], p.is)
        <5>1. IsList(nif[p.of])
          BY <3>1, <4>1 DEF SaneNif, nif
        <5> DEFINE l == nif[p.of]
        <5>2. ToSet(l) = {l[i] : i \in 1 .. Len(l)}
          BY <5>1, ListFacts
        <5> HIDE DEF l
        <5>3. p.is \in ToSet(l) <=> Contains(l, p.is)
          BY <5>2 DEF Contains
        <5> QED
          BY <5>3 DEF l
      <4>4. nif[p.of] = <<>> => ~FoundIn(nif, p)
        BY <4>2, NoList
      <4>5. CASE c.op = "alias"
        <5>1. p.yes /\ p.is = c.arg.address
          BY <1>1, <4>5 DEF Agrees, ListOps, Wants, Item
        <5> QED
          BY <3>6, <4>1, <4>2, <4>3, <4>5, <5>1
      <4>6. CASE c.op = "-alias"
        <5>1. ~p.yes /\ Ip(p.is) = c.arg.address
          BY <1>1, <3>2, <4>6 DEF Agrees, ListOps, Wants, Means, Item
        <5>2. ~HasIp(nif[p.of], c.arg.address) => p.is \notin ToSet(nif[p.of])
          BY <5>1 DEF HasIp
        <5> QED
          BY <3>4, <3>6, <4>1, <4>2, <4>4, <4>6, <5>1, <5>2 DEF Families
      <4> QED
        BY <3>7, <4>5, <4>6
    <3>8. CASE c.op \in {"add", "delete"}
      <4>1. p.of = "members" /\ p.is = c.arg
        BY <3>2, <3>8 DEF Field, Item, ListOps, Means
      <4>2. FoundIn(nif, p) <=> p.is \in nif.members
        BY <4>1 DEF FoundIn, Flags, Values, Families
      <4>3. p.yes <=> c.op = "add"
        BY <1>1, <3>8 DEF Agrees, ListOps, Wants
      <4> QED
        BY <3>4, <3>6, <3>8, <4>1, <4>2, <4>3
    <3>9. CASE c.op \in {"create", "-vlanif", "-mediaopt", "down", "dhcpcd -x"}
      <4>1. p.yes <=> SetTo(c) = p.is
        BY <1>1, <3>9 DEF Agrees, ListOps, NifOps
      <4>2. p.of = CASE c.op = "create" -> "exists" [] c.op = "-vlanif" -> "vlan"
                     [] c.op = "-mediaopt" -> "hostap" [] c.op = "down" -> "up"
                     [] c.op = "dhcpcd -x" -> "client"
        BY <3>2, <3>9 DEF Field
      <4>3. FoundIn(nif, p) <=> nif[p.of] = p.is
        BY <3>9, <4>2 DEF FoundIn, Flags, Values
      <4>4. nif[p.of] = SetTo(c)
        <5>1. SetTo(c) = CASE c.op = "create" -> TRUE [] c.op = "-vlanif" -> NoVLAN
                           [] c.op \in {"-mediaopt", "down", "dhcpcd -x"} -> FALSE
          BY <3>9 DEF SetTo
        <5> QED
          BY <3>4, <3>5, <3>6, <3>9, <4>2, <5>1
      <4> QED
        BY <4>1, <4>3, <4>4
    <3> QED
      BY <3>6, <3>7, <3>8, <3>9
  <2> QED
    <3>1. c.op \in NifOps \cup {"destroy", "route delete"}
      BY <1>1, <2>1 DEF Present, Removals, NifOps
    <3> QED
      BY <2>2, <2>3, <2>4, <3>1
<1> QED
  BY <1>2, <1>3

-----------------------------------------------------------------------------
(* What a list of commands does for a claim: it leaves it alone, or it     *)
(* settles it, with a command after which it is left alone.                *)

Fine(s) == IsList(s) /\ \A c \in ToSet(s) : Proper(c)

Leaves(s, p) == Fine(s) /\ \A c \in ToSet(s) : ~Spoils(c, p)

Settles(s, p) ==
  /\ Fine(s)
  /\ \E i \in 1 .. Len(s) : Makes(s[i], p) /\ \A j \in i + 1 .. Len(s) : ~Spoils(s[j], p)

(* The claim is made afresh or holds already.                              *)
Outcome(s, p, same) == Fine(s) /\ (same => Leaves(s, p)) /\ (~same => Settles(s, p))

LEMMA NoCommands == Fine(<<>>) /\ \A p : Leaves(<<>>, p) /\ ~Settles(<<>>, p)
BY NoList DEF Fine, Leaves, Settles

LEMMA FineJoins ==
  ASSUME NEW s, NEW t, Fine(s), Fine(t)
  PROVE  Fine(s \o t)
BY ListJoin DEF Fine

LEMMA LeavesJoins ==
  ASSUME NEW p, NEW s, NEW t, Leaves(s, p), Leaves(t, p)
  PROVE  Leaves(s \o t, p)
BY ListJoin DEF Fine, Leaves

LEMMA JoinedPlaces ==
  ASSUME NEW s, NEW t, IsList(s), IsList(t)
  PROVE  /\ Len(s) \in Nat /\ Len(t) \in Nat /\ Len(s \o t) = Len(s) + Len(t)
         /\ \A i \in 1 .. Len(s) : (s \o t)[i] = s[i]
         /\ \A i \in 1 .. Len(t) : (s \o t)[Len(s) + i] = t[i]
<1>1. s \in Seq(ToSet(s)) /\ t \in Seq(ToSet(t))
  BY ListFacts
<1> QED
  BY <1>1

LEMMA SettlesJoins ==
  ASSUME NEW p, NEW s, NEW t
  PROVE  /\ Settles(s, p) /\ Leaves(t, p) => Settles(s \o t, p)
         /\ Fine(s) /\ Settles(t, p) => Settles(s \o t, p)
<1> DEFINE m == Len(s)
           n == Len(t)
           both == s \o t
<1>1. ASSUME Settles(s, p), Leaves(t, p) PROVE Settles(both, p)
  <2>1. PICK i \in 1 .. m : Makes(s[i], p) /\ \A j \in i + 1 .. m : ~Spoils(s[j], p)
    BY <1>1 DEF Settles
  <2>2. IsList(s) /\ IsList(t) /\ Fine(both)
    BY <1>1, FineJoins DEF Settles, Leaves, Fine
  <2>3. /\ m \in Nat /\ n \in Nat /\ Len(both) = m + n
        /\ \A j \in 1 .. m : both[j] = s[j]
        /\ \A j \in 1 .. n : both[m + j] = t[j]
    BY <2>2, JoinedPlaces
  <2>4. \A j \in 1 .. n : ~Spoils(t[j], p)
    BY <1>1, <2>2, ListFacts DEF Leaves
  <2> HIDE DEF m, n, both
  <2>5. i \in 1 .. m + n /\ both[i] = s[i]
    BY <2>3
  <2>6. ASSUME NEW j \in i + 1 .. m + n PROVE ~Spoils(both[j], p)
    <3>1. CASE j <= m
      <4>1. j \in 1 .. m /\ j \in i + 1 .. m
        BY <2>3, <3>1
      <4> QED
        BY <2>1, <2>3, <4>1
    <3>2. CASE j > m
      <4>1. j - m \in 1 .. n /\ m + (j - m) = j
        BY <2>3, <3>2
      <4>2. both[j] = t[j - m]
        BY <2>3, <4>1
      <4> QED
        BY <2>4, <4>1, <4>2
    <3> QED
      BY <2>3, <3>1, <3>2
  <2> QED
    BY <2>1, <2>2, <2>3, <2>5, <2>6 DEF Settles
<1>2. ASSUME Fine(s), Settles(t, p) PROVE Settles(both, p)
  <2>1. PICK i \in 1 .. n : Makes(t[i], p) /\ \A j \in i + 1 .. n : ~Spoils(t[j], p)
    BY <1>2 DEF Settles
  <2>2. IsList(s) /\ IsList(t) /\ Fine(both)
    BY <1>2, FineJoins DEF Settles, Fine
  <2>3. /\ m \in Nat /\ n \in Nat /\ Len(both) = m + n
        /\ \A j \in 1 .. n : both[m + j] = t[j]
    BY <2>2, JoinedPlaces
  <2> HIDE DEF m, n, both
  <2>4. m + i \in 1 .. m + n /\ both[m + i] = t[i]
    BY <2>3
  <2>5. ASSUME NEW j \in m + i + 1 .. m + n PROVE ~Spoils(both[j], p)
    <3>1. j - m \in 1 .. n /\ m + (j - m) = j /\ j - m \in i + 1 .. n
      BY <2>3
    <3>2. both[j] = t[j - m]
      BY <2>3, <3>1
    <3> QED
      BY <2>1, <3>1, <3>2
  <2>6. \E q \in 1 .. m + n : Makes(both[q], p) /\ \A j \in q + 1 .. m + n : ~Spoils(both[j], p)
    BY <2>1, <2>4, <2>5
  <2> QED
    BY <2>2, <2>3, <2>6 DEF Settles
<1> QED
  BY <1>1, <1>2

(* Lists one after the other, if each of them deals with the claim.        *)
LEMMA OutcomeJoins ==
  ASSUME NEW p, NEW same, NEW s, NEW t
  PROVE  /\ Outcome(s, p, same) /\ Leaves(t, p) => Outcome(s \o t, p, same)
         /\ Leaves(s, p) /\ Outcome(t, p, same) => Outcome(s \o t, p, same)
BY FineJoins, LeavesJoins, SettlesJoins DEF Outcome, Leaves

LEMMA OneCommand ==
  ASSUME NEW p, NEW c, Proper(c)
  PROVE  /\ Fine(<<c>>)
         /\ ~Spoils(c, p) => Leaves(<<c>>, p)
         /\ Makes(c, p) => Settles(<<c>>, p)
<1> DEFINE s == <<c>>
<1>1. IsList(s) /\ ToSet(s) = {c} /\ Len(s) = 1 /\ s[1] = c
  BY SingleList
<1> HIDE DEF s
<1>2. Fine(s) /\ (~Spoils(c, p) => Leaves(s, p))
  BY <1>1 DEF Fine, Leaves
<1>3. 1 \in 1 .. Len(s) /\ 1 + 1 .. Len(s) = {}
  BY <1>1
<1>4. Makes(c, p) => Settles(s, p)
  BY <1>1, <1>2, <1>3 DEF Settles
<1> QED
  BY <1>2, <1>4 DEF s

(* The first of the commands and the others.                               *)
LEMMA FirstCommand ==
  ASSUME NEW s, Fine(s), s # <<>>
  PROVE  /\ Proper(Head(s)) /\ Fine(Tail(s))
         /\ \A p : Leaves(s, p) => ~Spoils(Head(s), p) /\ Leaves(Tail(s), p)
         /\ \A p : Settles(s, p) => \/ Makes(Head(s), p) /\ Leaves(Tail(s), p)
                                    \/ Settles(Tail(s), p)
<1> DEFINE n == Len(s)
           t == Tail(s)
<1>1. s \in Seq(ToSet(s)) /\ n \in Nat /\ IsList(t) /\ ToSet(s) = {s[i] : i \in 1 .. n}
  BY ListFacts, ListFirst DEF Fine
<1>2. n # 0 /\ Len(t) = n - 1 /\ Head(s) = s[1] /\ \A i \in 1 .. n - 1 : t[i] = s[i + 1]
  BY <1>1
<1>3. ToSet(t) = {t[i] : i \in 1 .. n - 1}
  <2> HIDE DEF t, n
  <2>1. ToSet(t) = {t[i] : i \in 1 .. Len(t)}
    BY <1>1, ListFacts
  <2> QED
    BY <1>2, <2>1
<1> HIDE DEF t, n
<1>4. \A i \in 1 .. n - 1 : i + 1 \in 1 .. n
  BY <1>1
<1>5. ToSet(t) \subseteq ToSet(s) /\ s[1] \in ToSet(s)
  <2>1. ASSUME NEW c \in ToSet(t) PROVE c \in ToSet(s)
    <3>1. PICK i \in 1 .. n - 1 : c = t[i]
      BY <1>3, <2>1
    <3>2. c = s[i + 1] /\ i + 1 \in 1 .. n
      BY <1>2, <1>4, <3>1
    <3> QED
      BY <1>1, <3>2
  <2>2. 1 \in 1 .. n
    BY <1>1, <1>2
  <2> QED
    BY <1>1, <2>1, <2>2
<1>6. Proper(s[1]) /\ Fine(t)
  BY <1>1, <1>5 DEF Fine
<1>7. ASSUME NEW p, Leaves(s, p) PROVE ~Spoils(s[1], p) /\ Leaves(t, p)
  BY <1>5, <1>6, <1>7 DEF Leaves
<1>8. ASSUME NEW p, Settles(s, p)
      PROVE  \/ Makes(s[1], p) /\ Leaves(t, p)
             \/ Settles(t, p)
  <2>1. PICK i \in 1 .. n : Makes(s[i], p) /\ \A j \in i + 1 .. n : ~Spoils(s[j], p)
    BY <1>8 DEF Settles, n
  <2>2. ASSUME NEW q \in i .. n - 1, q # 0 PROVE ~Spoils(t[q], p)
    <3>1. q + 1 \in i + 1 .. n /\ q \in 1 .. n - 1
      BY <1>1, <2>2
    <3> QED
      BY <1>2, <2>1, <3>1
  <2>3. CASE i = 1
    <3>1. \A q \in 1 .. n - 1 : ~Spoils(t[q], p)
      BY <1>1, <2>2, <2>3
    <3>2. Leaves(t, p)
      BY <1>3, <1>6, <3>1 DEF Leaves
    <3> QED
      BY <2>1, <2>3, <3>2
  <2>4. CASE i # 1
    <3>1. i - 1 \in 1 .. n - 1 /\ i - 1 + 1 = i
      BY <1>1, <2>4
    <3>2. t[i - 1] = s[i]
      BY <1>2, <3>1
    <3>3. \A q \in i - 1 + 1 .. n - 1 : ~Spoils(t[q], p)
      BY <1>1, <2>2, <3>1
    <3>4. \E r \in 1 .. n - 1 : Makes(t[r], p) /\ \A q \in r + 1 .. n - 1 : ~Spoils(t[q], p)
      BY <2>1, <3>1, <3>2, <3>3
    <3> QED
      BY <1>2, <1>6, <3>4 DEF Settles
  <2> QED
    BY <2>3, <2>4
<1> QED
  BY <1>2, <1>6, <1>7, <1>8 DEF t

(* One list after the other: all leave a claim alone, or one settles it    *)
(* and those after it leave it alone.                                      *)
LEMMA AllAreFine ==
  ASSUME NEW n \in Nat, NEW f, f = [i \in 1 .. n |-> f[i]], \A i \in 1 .. n : Fine(f[i])
  PROVE  /\ Fine(FlattenSeq(f))
         /\ \A p : (\A i \in 1 .. n : Leaves(f[i], p)) => Leaves(FlattenSeq(f), p)
         /\ \A p : \A m \in 1 .. n :
              Settles(f[m], p) /\ (\A i \in m + 1 .. n : Leaves(f[i], p)) => Settles(FlattenSeq(f), p)
<1> DEFINE S == UNION {ToSet(f[i]) : i \in 1 .. n}
<1>1. \A i \in 1 .. n : f[i] \in Seq(S)
  <2> SUFFICES ASSUME NEW i \in 1 .. n PROVE f[i] \in Seq(S)
    OBVIOUS
  <2>1. f[i] \in Seq(ToSet(f[i])) /\ ToSet(f[i]) \subseteq S
    BY ListFacts DEF Fine
  <2> QED
    BY <2>1
<1> HIDE DEF S
<1>2. f \in [1 .. n -> Seq(S)]
  BY <1>1
<1>3. f \in Seq(Seq(S))
  BY <1>2, SeqDef
<1>4. Len(f) = n
  BY ListOfFunction
<1>5. PICK flat : Joins(f, flat)
  BY <1>3, FlatJoins
<1>6. /\ flat[0] = <<>> /\ flat[n] = FlattenSeq(f)
      /\ \A i \in 1 .. n : flat[i] = flat[i - 1] \o f[i]
  BY <1>4, <1>5 DEF Joins
<1>7. \A i \in 1 .. n : i \in 0 .. n
  OBVIOUS
<1>8. n \in 0 .. n
  OBVIOUS
<1>9. \A i \in 0 .. n : Fine(flat[i])
  <2> DEFINE G == {i \in 0 .. n : Fine(flat[i])}
  <2>1. 0 \in G
    BY <1>6, NoCommands
  <2>2. ASSUME NEW i \in 1 .. n, i - 1 \in G PROVE i \in G
    <3>1. flat[i] = flat[i - 1] \o f[i] /\ i \in 0 .. n
      BY <1>6, <1>7
    <3>2. Fine(flat[i - 1]) /\ Fine(f[i])
      BY <2>2
    <3>3. Fine(flat[i - 1] \o f[i])
      BY <3>2, FineJoins
    <3> QED
      BY <3>1, <3>3
  <2>3. \A i \in 0 .. n : i \in G
    <3> HIDE DEF G
    <3> QED
      BY <2>1, <2>2, Climb
  <2> QED
    BY <2>3
<1>10. ASSUME NEW p, \A i \in 1 .. n : Leaves(f[i], p) PROVE Leaves(flat[n], p)
  <2> DEFINE G == {i \in 0 .. n : Leaves(flat[i], p)}
  <2>1. 0 \in G
    BY <1>6, NoCommands
  <2>2. ASSUME NEW i \in 1 .. n, i - 1 \in G PROVE i \in G
    <3>1. flat[i] = flat[i - 1] \o f[i] /\ i \in 0 .. n
      BY <1>6, <1>7
    <3>2. Leaves(flat[i - 1], p) /\ Leaves(f[i], p)
      BY <1>10, <2>2
    <3>3. Leaves(flat[i - 1] \o f[i], p)
      BY <3>2, LeavesJoins
    <3> QED
      BY <3>1, <3>3
  <2>3. \A i \in 0 .. n : i \in G
    <3> HIDE DEF G
    <3> QED
      BY <2>1, <2>2, Climb
  <2> QED
    BY <1>8, <2>3
<1>11. ASSUME NEW p, NEW m \in 1 .. n, Settles(f[m], p), \A i \in m + 1 .. n : Leaves(f[i], p)
       PROVE  Settles(flat[n], p)
  <2> DEFINE G == {i \in 0 .. n : i >= m => Settles(flat[i], p)}
  <2>1. 0 \in G
    OBVIOUS
  <2>2. ASSUME NEW i \in 1 .. n, i - 1 \in G PROVE i \in G
    <3>0. i \in 0 .. n /\ i - 1 \in 0 .. n
      OBVIOUS
    <3>1. flat[i] = flat[i - 1] \o f[i] /\ Fine(flat[i - 1]) /\ i \in 0 .. n
      BY <1>6, <1>9, <3>0
    <3>2. CASE i < m
      BY <3>1, <3>2
    <3>3. CASE i = m
      BY <1>11, <3>1, <3>3, SettlesJoins
    <3>4. CASE i > m
      <4>1. i - 1 >= m /\ i \in m + 1 .. n
        BY <3>4
      <4>2. Settles(flat[i - 1], p) /\ Leaves(f[i], p)
        BY <1>11, <2>2, <4>1
      <4> QED
        BY <3>1, <4>2, SettlesJoins
    <3> QED
      BY <3>2, <3>3, <3>4
  <2>3. \A i \in 0 .. n : i \in G
    <3> HIDE DEF G
    <3> QED
      BY <2>1, <2>2, Climb
  <2>4. n >= m
    OBVIOUS
  <2> QED
    BY <1>8, <2>3, <2>4
<1> QED
  BY <1>6, <1>8, <1>9, <1>10, <1>11

(* A list of which every command deals with the claim in the same way.     *)
LEMMA EachOutcome ==
  ASSUME NEW s, IsList(s), NEW f, f = [i \in DOMAIN s |-> f[i]], \A i \in DOMAIN s : Fine(f[i])
  PROVE  /\ Fine(FlattenSeq(f))
         /\ \A p : (\A i \in DOMAIN s : Leaves(f[i], p)) => Leaves(FlattenSeq(f), p)
         /\ \A p : \A m \in DOMAIN s :
              Settles(f[m], p) /\ (\A i \in DOMAIN s : Leaves(f[i], p)) => Settles(FlattenSeq(f), p)
<1>1. DOMAIN s = 1 .. Len(s) /\ Len(s) \in Nat
  BY ListFacts
<1>2. /\ Fine(FlattenSeq(f))
      /\ \A p : (\A i \in 1 .. Len(s) : Leaves(f[i], p)) => Leaves(FlattenSeq(f), p)
      /\ \A p : \A m \in 1 .. Len(s) :
           Settles(f[m], p) /\ (\A i \in m + 1 .. Len(s) : Leaves(f[i], p)) => Settles(FlattenSeq(f), p)
  BY <1>1, AllAreFine
<1>3. \A m \in 1 .. Len(s) : \A i \in m + 1 .. Len(s) : i \in 1 .. Len(s)
  BY <1>1
<1> QED
  BY <1>1, <1>2, <1>3

(* How lists are put together.                                             *)
LEMMA Composing ==
  ASSUME NEW p
  PROVE  /\ Leaves(<<>>, p)
         /\ \A s : Leaves(s, p) => Fine(s)
         /\ \A s : Settles(s, p) => Fine(s)
         /\ \A s, t : Fine(s) /\ Fine(t) => Fine(s \o t)
         /\ \A s, t : Leaves(s, p) /\ Leaves(t, p) => Leaves(s \o t, p)
         /\ \A s, t : Settles(s, p) /\ Leaves(t, p) => Settles(s \o t, p)
         /\ \A s, t : Fine(s) /\ Settles(t, p) => Settles(s \o t, p)
         /\ \A condition, s : (condition => Leaves(s, p)) => Leaves(When(condition, s), p)
         /\ \A condition, s : condition /\ Settles(s, p) => Settles(When(condition, s), p)
<1>1. /\ Leaves(<<>>, p)
      /\ \A s : Leaves(s, p) => Fine(s)
      /\ \A s : Settles(s, p) => Fine(s)
  BY NoCommands DEF Leaves, Settles
<1>2. \A s, t : Fine(s) /\ Fine(t) => Fine(s \o t)
  BY FineJoins
<1>3. /\ \A s, t : Leaves(s, p) /\ Leaves(t, p) => Leaves(s \o t, p)
      /\ \A s, t : Settles(s, p) /\ Leaves(t, p) => Settles(s \o t, p)
      /\ \A s, t : Fine(s) /\ Settles(t, p) => Settles(s \o t, p)
  BY LeavesJoins, SettlesJoins
<1>4. \A condition, s : (condition => Leaves(s, p)) => Leaves(When(condition, s), p)
  BY <1>1 DEF When
<1>5. \A condition, s : condition /\ Settles(s, p) => Settles(When(condition, s), p)
  BY DEF When
<1> QED
  BY <1>1, <1>2, <1>3, <1>4, <1>5

-----------------------------------------------------------------------------
(* The commands for an interface                                           *)

(* The field that each command is about, and what it sets it to.           *)
LEMMA Topics ==
  ASSUME NEW c
  PROVE  /\ c.op = "create" => Field(c) = "exists" /\ SetTo(c) = TRUE
         /\ c.op = "vlanif" => Field(c) = "vlan" /\ SetTo(c) = c.arg
         /\ c.op = "-vlanif" => Field(c) = "vlan" /\ SetTo(c) = NoVLAN
         /\ c.op = "mediaopt" => Field(c) = "hostap" /\ SetTo(c) = TRUE
         /\ c.op = "-mediaopt" => Field(c) = "hostap" /\ SetTo(c) = FALSE
         /\ c.op = "mtu" => Field(c) = "mtu" /\ SetTo(c) = c.arg
         /\ c.op = "media" => Field(c) = "media" /\ SetTo(c) = c.arg
         /\ c.op \in {"alias", "-alias"} => Field(c) = c.arg.family /\ Item(c) = c.arg.address
         /\ c.op \in {"add", "delete"} => Field(c) = "members" /\ Item(c) = c.arg
         /\ c.op = "up" => Field(c) = "up" /\ SetTo(c) = TRUE
         /\ c.op = "down" => Field(c) = "up" /\ SetTo(c) = FALSE
         /\ c.op = "dhcpcd -b" => Field(c) = "client" /\ SetTo(c) = TRUE
         /\ c.op = "dhcpcd -x" => Field(c) = "client" /\ SetTo(c) = FALSE
         /\ c.op = "start" => Field(c) = "supplicant" /\ SetTo(c) = c.arg
         /\ c.op = "stop" => Field(c) = "supplicant" /\ SetTo(c) = NoSupplicant
<1>1. c.op = "create" => Field(c) = "exists" /\ SetTo(c) = TRUE
  BY DEF Field, SetTo
<1>2. c.op = "vlanif" => Field(c) = "vlan" /\ SetTo(c) = c.arg
  BY DEF Field, SetTo
<1>3. c.op = "-vlanif" => Field(c) = "vlan" /\ SetTo(c) = NoVLAN
  BY DEF Field, SetTo
<1>4. c.op = "mediaopt" => Field(c) = "hostap" /\ SetTo(c) = TRUE
  BY DEF Field, SetTo
<1>5. c.op = "-mediaopt" => Field(c) = "hostap" /\ SetTo(c) = FALSE
  BY DEF Field, SetTo
<1>6. c.op = "mtu" => Field(c) = "mtu" /\ SetTo(c) = c.arg
  BY DEF Field, SetTo
<1>7. c.op = "media" => Field(c) = "media" /\ SetTo(c) = c.arg
  BY DEF Field, SetTo
<1>8. c.op \in {"alias", "-alias"} => Field(c) = c.arg.family /\ Item(c) = c.arg.address
  BY DEF Field, Item
<1>9. c.op \in {"add", "delete"} => Field(c) = "members" /\ Item(c) = c.arg
  BY DEF Field, Item
<1>10. c.op = "up" => Field(c) = "up" /\ SetTo(c) = TRUE
  BY DEF Field, SetTo
<1>11. c.op = "down" => Field(c) = "up" /\ SetTo(c) = FALSE
  BY DEF Field, SetTo
<1>12. c.op = "dhcpcd -b" => Field(c) = "client" /\ SetTo(c) = TRUE
  BY DEF Field, SetTo
<1>13. c.op = "dhcpcd -x" => Field(c) = "client" /\ SetTo(c) = FALSE
  BY DEF Field, SetTo
<1>14. c.op = "start" => Field(c) = "supplicant" /\ SetTo(c) = c.arg
  BY DEF Field, SetTo
<1>15. c.op = "stop" => Field(c) = "supplicant" /\ SetTo(c) = NoSupplicant
  BY DEF Field, SetTo
<1> QED
  BY <1>1, <1>2, <1>3, <1>4, <1>5, <1>6, <1>7, <1>8, <1>9, <1>10, <1>11, <1>12, <1>13, <1>14, <1>15

(* What one command does for a claim, by its field and what it sets.       *)
LEMMA NifCommand ==
  ASSUME NEW c, Proper(c), c.op \in NifOps, NEW p, IsClaim(p)
  PROVE  LET decided == p.n = c.n /\ p.of = Field(c) /\ (c.op \in ListOps => Means(c.op, Item(c), p))
             agreed == IF c.op \in ListOps THEN Wants(c.op, Item(c), p)
                                           ELSE p.yes <=> SetTo(c) = p.is
         IN  /\ Fine(<<c>>)
             /\ ~decided \/ agreed => Leaves(<<c>>, p)
             /\ /\ decided /\ agreed
                /\ c.tol = "missing" => c.op \in Removals
                /\ c.op = "alias" => p.yes
                => Settles(<<c>>, p)
<1> DEFINE decided == p.n = c.n /\ p.of = Field(c) /\ (c.op \in ListOps => Means(c.op, Item(c), p))
           agreed == IF c.op \in ListOps THEN Wants(c.op, Item(c), p)
                                         ELSE p.yes <=> SetTo(c) = p.is
<1>1. Decides(c, p) <=> decided
  BY DEF Decides, NifOps, RouteOps, SystemOps, ServerOps
<1>2. Agrees(c, p) <=> agreed
  BY DEF Agrees
<1>3. c.op # "route add"
  BY DEF NifOps
<1> HIDE DEF decided, agreed
<1>4. /\ Fine(<<c>>)
      /\ ~decided \/ agreed => Leaves(<<c>>, p)
      /\ /\ decided /\ agreed
         /\ c.tol = "missing" => c.op \in Removals
         /\ c.op = "alias" => p.yes
         => Settles(<<c>>, p)
  BY <1>1, <1>2, <1>3, OneCommand DEF Spoils, Makes
<1> QED
  BY <1>4 DEF decided, agreed

(* A command that turns something on or off.                               *)
OnOps == {"create", "mediaopt", "up", "dhcpcd -b"}
OffOps == {"-mediaopt", "down", "dhcpcd -x"}

Flag(op) ==
  IF op = "create" THEN "exists"
  ELSE IF op \in {"mediaopt", "-mediaopt"} THEN "hostap"
  ELSE IF op \in {"up", "down"} THEN "up" ELSE "client"

LEMMA FlagOutcome ==
  ASSUME NEW op \in OnOps \cup OffOps, NEW n \in Names, NEW arg,
         NEW tol, tol = "missing" => op \in OffOps, NEW p, IsClaim(p)
  PROVE  LET s == Cmd(op, n, arg, tol)
             about == p.n = n /\ p.of = Flag(op)
             agreed == p.yes <=> op \in OnOps
         IN  /\ ~about \/ agreed => Leaves(s, p)
             /\ Fine(s)
             /\ about /\ agreed => Settles(s, p)
<1> DEFINE c == [op |-> op, n |-> n, arg |-> arg, tol |-> tol]
<1>1. c.op = op /\ c.n = n /\ c.tol = tol /\ Cmd(op, n, arg, tol) = <<c>>
  BY DEF Cmd
<1> HIDE DEF c
<1>2. /\ Proper(c) /\ c.op \in NifOps /\ c.op \notin ListOps /\ c.op # "alias"
      /\ c.tol = "missing" => c.op \in Removals
  BY <1>1 DEF Proper, NifOps, ListOps, Ops, OnOps, OffOps, Removals
<1>3. Field(c) = Flag(op) /\ (op \in OnOps => SetTo(c) = TRUE) /\ (op \in OffOps => SetTo(c) = FALSE)
  BY <1>1, Topics DEF Flag, OnOps, OffOps
<1>4. Flag(op) \in Flags /\ OnOps \cap OffOps = {}
  BY DEF Flag, Flags, OnOps, OffOps
<1>5. ASSUME p.of = Flag(op) PROVE (p.yes <=> SetTo(c) = p.is) <=> (p.yes <=> op \in OnOps)
  BY <1>3, <1>4, <1>5 DEF IsClaim
<1> QED
  BY <1>1, <1>2, <1>3, <1>5, NifCommand

(* One that sets another field back.                                       *)
LEMMA WipeOutcome ==
  ASSUME NEW op \in {"-vlanif", "stop"}, NEW n \in Names, NEW arg, NEW tol, NEW p, IsClaim(p)
  PROVE  /\ Fine(Cmd(op, n, arg, tol))
         /\ p.n # n \/ p.of # (IF op = "stop" THEN "supplicant" ELSE "vlan")
            => Leaves(Cmd(op, n, arg, tol), p)
<1> DEFINE c == [op |-> op, n |-> n, arg |-> arg, tol |-> tol]
<1>1. c.op = op /\ c.n = n /\ Cmd(op, n, arg, tol) = <<c>>
  BY DEF Cmd
<1> HIDE DEF c
<1>2. Proper(c) /\ c.op \in NifOps
  BY <1>1 DEF Proper, NifOps, Ops
<1>3. Field(c) = IF op = "stop" THEN "supplicant" ELSE "vlan"
  BY <1>1, Topics
<1> QED
  BY <1>1, <1>2, <1>3, NifCommand

(* The same with the value that the command is given.                      *)
LEMMA ValueOutcome ==
  ASSUME NEW op \in {"vlanif", "mtu", "media", "start"}, NEW n \in Names, NEW arg,
         NEW p, IsClaim(p)
  PROVE  LET s == Cmd(op, n, arg, None)
             field == IF op = "vlanif" THEN "vlan" ELSE IF op = "start" THEN "supplicant" ELSE op
             about == p.n = n /\ p.of = field
         IN  /\ ~about \/ p.is = arg => Leaves(s, p)
             /\ Fine(s)
             /\ about /\ p.is = arg => Settles(s, p)
<1> DEFINE c == [op |-> op, n |-> n, arg |-> arg, tol |-> None]
           field == IF op = "vlanif" THEN "vlan" ELSE IF op = "start" THEN "supplicant" ELSE op
<1>1. c.op = op /\ c.n = n /\ c.arg = arg /\ c.tol = None /\ Cmd(op, n, arg, None) = <<c>>
  BY DEF Cmd
<1> HIDE DEF c
<1>2. Proper(c) /\ c.op \in NifOps /\ c.op \notin ListOps
  BY <1>1 DEF Proper, ListOps, Ops, NifOps
<1>3. Field(c) = field /\ SetTo(c) = arg
  BY <1>1, Topics
<1>4. p.of = field => p.yes
  BY DEF IsClaim, Values
<1>5. c.tol # "missing"
  BY <1>1 DEF None
<1> HIDE DEF field
<1>6. LET about == p.n = n /\ p.of = field
      IN  /\ ~about \/ p.is = arg => Leaves(<<c>>, p)
          /\ Fine(<<c>>)
          /\ about /\ p.is = arg => Settles(<<c>>, p)
  BY <1>1, <1>2, <1>3, <1>4, <1>5, NifCommand
<1> QED
  BY <1>1, <1>6 DEF field

(* And with an address or a member of a bridge.                            *)
LEMMA ItemOutcome ==
  ASSUME NEW op \in ListOps, NEW n \in Names, NEW arg, NEW tol,
         tol = "missing" => op \in Removals,
         op \in {"alias", "-alias"} => arg.family \in Families,
         NEW p, IsClaim(p)
  PROVE  LET s == Cmd(op, n, arg, tol)
             field == IF op \in {"alias", "-alias"} THEN arg.family ELSE "members"
             item == IF op \in {"alias", "-alias"} THEN arg.address ELSE arg
             about == p.n = n /\ p.of = field /\ Means(op, item, p)
         IN  /\ ~about \/ Wants(op, item, p) => Leaves(s, p)
             /\ Fine(s)
             /\ about /\ Wants(op, item, p) /\ (op = "alias" => p.yes) => Settles(s, p)
<1> DEFINE c == [op |-> op, n |-> n, arg |-> arg, tol |-> tol]
           field == IF op \in {"alias", "-alias"} THEN arg.family ELSE "members"
           item == IF op \in {"alias", "-alias"} THEN arg.address ELSE arg
<1>1. c.op = op /\ c.n = n /\ c.arg = arg /\ c.tol = tol /\ Cmd(op, n, arg, tol) = <<c>>
  BY DEF Cmd
<1> HIDE DEF c
<1>2. Proper(c) /\ c.op \in NifOps
  BY <1>1 DEF Proper, ListOps, Ops, NifOps, Families
<1>3. Field(c) = field /\ Item(c) = item
  BY <1>1, Topics DEF ListOps
<1> HIDE DEF field, item
<1>4. LET about == p.n = n /\ p.of = field /\ Means(op, item, p)
      IN  /\ ~about \/ Wants(op, item, p) => Leaves(<<c>>, p)
          /\ Fine(<<c>>)
          /\ about /\ Wants(op, item, p) /\ (op = "alias" => p.yes) => Settles(<<c>>, p)
  BY <1>1, <1>2, <1>3, NifCommand
<1> QED
  BY <1>1, <1>4 DEF field, item

(* What the commands s do for the item in a list of n.                     *)
Handles(s, op, n, field, item, p) ==
  LET about == p.n = n /\ p.of = field /\ Means(op, item, p) IN
  /\ Fine(s)
  /\ ~about \/ Wants(op, item, p) => Leaves(s, p)
  /\ about /\ Wants(op, item, p) /\ (op = "alias" => p.yes) => Settles(s, p)

(* A command for each of a list.                                           *)
LEMMA ItemsOutcome ==
  ASSUME NEW s, IsList(s), NEW f, f = [i \in DOMAIN s |-> f[i]],
         NEW op, NEW n, NEW field, NEW p,
         \A i \in DOMAIN s : Handles(f[i], op, n, field, s[i], p)
  PROVE  LET about == p.n = n /\ p.of = field
             agreed == \A x \in ToSet(s) : Means(op, x, p) => Wants(op, x, p)
             made == \E x \in ToSet(s) : Means(op, x, p)
         IN  /\ Fine(FlattenSeq(f))
             /\ ~about \/ agreed => Leaves(FlattenSeq(f), p)
             /\ about /\ agreed /\ made /\ (op = "alias" => p.yes) => Settles(FlattenSeq(f), p)
<1> DEFINE agreed == \A x \in ToSet(s) : Means(op, x, p) => Wants(op, x, p)
           made == \E x \in ToSet(s) : Means(op, x, p)
<1>1. \A i \in DOMAIN s :
        LET about == p.n = n /\ p.of = field /\ Means(op, s[i], p) IN
        /\ Fine(f[i])
        /\ ~about \/ Wants(op, s[i], p) => Leaves(f[i], p)
        /\ about /\ Wants(op, s[i], p) /\ (op = "alias" => p.yes) => Settles(f[i], p)
  BY DEF Handles
<1>2. /\ agreed <=> \A i \in DOMAIN s : Means(op, s[i], p) => Wants(op, s[i], p)
      /\ made <=> \E i \in DOMAIN s : Means(op, s[i], p)
  BY DEF ToSet
<1> HIDE DEF agreed, made
<1>3. ASSUME p.n # n \/ p.of # field \/ agreed PROVE Leaves(FlattenSeq(f), p)
  <2>1. \A i \in DOMAIN s : Leaves(f[i], p) /\ Fine(f[i])
    BY <1>1, <1>2, <1>3
  <2> QED
    BY <2>1, EachOutcome
<1>4. ASSUME p.n = n, p.of = field, agreed, made, op = "alias" => p.yes
      PROVE  Settles(FlattenSeq(f), p)
  <2>1. \A i \in DOMAIN s : Leaves(f[i], p) /\ Fine(f[i])
    BY <1>1, <1>2, <1>4
  <2>2. PICK m \in DOMAIN s : Means(op, s[m], p)
    BY <1>2, <1>4
  <2>3. Settles(f[m], p)
    BY <1>1, <1>2, <1>4, <2>2
  <2> QED
    BY <2>1, <2>3, EachOutcome
<1>5. Fine(FlattenSeq(f))
  BY <1>1, EachOutcome
<1> QED
  BY <1>3, <1>4, <1>5 DEF agreed, made

ListOf(ifc, family) == IF family = "v4" THEN ifc.ipv4 ELSE ifc.ipv6

AliasEach(op, n, family, s, tol) ==
  FlattenSeq([i \in DOMAIN s |-> Cmd(op, n, [family |-> family, address |-> Named(op, s[i])], tol)])

(* The claim is not disputed by adding or deleting the addresses.          *)
Accords(op, addresses, p) ==
  \A x \in addresses : Ip(x) = Ip(p.is) => (p.yes <=> op = "alias" /\ x = p.is)

LEMMA FamilyOutcome ==
  ASSUME NEW op \in {"alias", "-alias"}, NEW n \in Names, NEW family \in Families,
         NEW tol, tol = "missing" => op = "-alias", NEW s, IsList(s), NEW p, IsClaim(p)
  PROVE  LET about == p.n = n /\ p.of = family
             agreed == Accords(op, ToSet(s), p)
             all == AliasEach(op, n, family, s, tol)
         IN  /\ Fine(all)
             /\ ~about \/ agreed => Leaves(all, p)
             /\ about /\ agreed /\ p.is \in ToSet(s) /\ (op = "alias" => p.yes) => Settles(all, p)
<1> DEFINE f == [i \in DOMAIN s |->
                   Cmd(op, n, [family |-> family, address |-> Named(op, s[i])], tol)]
           t == [i \in DOMAIN s |-> Named(op, s[i])]
<1>1. AliasEach(op, n, family, s, tol) = FlattenSeq(f)
  BY DEF AliasEach
<1>2. op \in ListOps /\ (tol = "missing" => op \in Removals)
  BY DEF ListOps, Removals
<1>3. Len(s) \in Nat /\ DOMAIN s = 1 .. Len(s) /\ ToSet(s) = {s[i] : i \in DOMAIN s}
  BY ListFacts
<1>4. DOMAIN t = DOMAIN s /\ \A i \in DOMAIN s : t[i] = Named(op, s[i])
  OBVIOUS
<1>5. IsList(t)
  <2>1. t = [i \in 1 .. Len(s) |-> t[i]]
    BY <1>3
  <2> HIDE DEF t
  <2> QED
    BY <1>3, <2>1, ListOfFunction
<1>6. ASSUME NEW i \in DOMAIN s
      PROVE  Handles(f[i], op, n, family, t[i], p)
  <2> DEFINE arg == [family |-> family, address |-> t[i]]
  <2>1. arg.family = family /\ arg.address = t[i] /\ f[i] = Cmd(op, n, arg, tol)
    BY <1>4
  <2> HIDE DEF f, arg, t
  <2> QED
    BY <1>2, <2>1, ItemOutcome DEF Handles
<1>7. f = [i \in DOMAIN t |-> f[i]]
  OBVIOUS
<1>8. /\ Accords(op, ToSet(s), p) <=> \A x \in ToSet(t) : Means(op, x, p) => Wants(op, x, p)
      /\ p.is \in ToSet(s) => \E x \in ToSet(t) : Means(op, x, p)
  <2>1. ToSet(t) = {t[i] : i \in DOMAIN s}
    BY <1>4 DEF ToSet
  <2>2. \A i \in DOMAIN s : /\ Means(op, t[i], p) <=> Ip(p.is) = Ip(s[i])
                            /\ Wants(op, t[i], p) <=> (p.yes <=> op = "alias" /\ p.is = s[i])
    <3>1. CASE op = "alias"
      BY <1>4, <3>1 DEF Means, Wants, Named
    <3>2. CASE op = "-alias"
      BY <1>4, <3>2 DEF Means, Wants, Named
    <3> QED
      BY <3>1, <3>2
  <2> HIDE DEF t
  <2> QED
    BY <1>3, <2>1, <2>2 DEF Accords
<1> HIDE DEF f, t
<1>9. LET about == p.n = n /\ p.of = family
          agreed == \A x \in ToSet(t) : Means(op, x, p) => Wants(op, x, p)
          made == \E x \in ToSet(t) : Means(op, x, p)
      IN  /\ Fine(FlattenSeq(f))
          /\ ~about \/ agreed => Leaves(FlattenSeq(f), p)
          /\ about /\ agreed /\ made /\ (op = "alias" => p.yes) => Settles(FlattenSeq(f), p)
  BY <1>4, <1>5, <1>6, <1>7, ItemsOutcome
<1> QED
  BY <1>1, <1>8, <1>9

LEMMA AddressesOutcome ==
  ASSUME NEW op \in {"alias", "-alias"}, NEW n \in Names,
         NEW tol, tol = "missing" => op = "-alias",
         NEW a, IsInterface(a), NEW b, NEW p, IsClaim(p)
  PROVE  LET s == Addresses(op, n, a, b, tol)
             about == p.n = n /\ p.of \in Families
             those == ToSet(ListOf(a, p.of)) \ ToSet(ListOf(b, p.of))
         IN  /\ Fine(s)
             /\ ~about \/ Accords(op, those, p) => Leaves(s, p)
             /\ about /\ Accords(op, those, p) /\ p.is \in those /\ (op = "alias" => p.yes)
                => Settles(s, p)
<1> DEFINE s4 == Minus(a.ipv4, b.ipv4)
           s6 == Minus(a.ipv6, b.ipv6)
           l4 == AliasEach(op, n, "v4", s4, tol)
           l6 == AliasEach(op, n, "v6", s6, tol)
           all == Addresses(op, n, a, b, tol)
<1>1. IsList(s4) /\ IsList(s6)
  BY MinusIsList DEF IsInterface
<1>2. /\ ToSet(s4) = ToSet(a.ipv4) \ ToSet(b.ipv4)
      /\ ToSet(s6) = ToSet(a.ipv6) \ ToSet(b.ipv6)
  BY MinusIsList DEF IsInterface
<1>3. all = l4 \o l6
  BY DEF Addresses, Each, AliasEach
<1>4. "v4" \in Families /\ "v6" \in Families
  BY DEF Families
<1> HIDE DEF s4, s6, all
<1>5. LET about == p.n = n /\ p.of = "v4"
          agreed == Accords(op, ToSet(s4), p)
      IN  /\ Fine(l4)
          /\ ~about \/ agreed => Leaves(l4, p)
          /\ about /\ agreed /\ p.is \in ToSet(s4) /\ (op = "alias" => p.yes) => Settles(l4, p)
  BY <1>1, <1>4, FamilyOutcome
<1>6. LET about == p.n = n /\ p.of = "v6"
          agreed == Accords(op, ToSet(s6), p)
      IN  /\ Fine(l6)
          /\ ~about \/ agreed => Leaves(l6, p)
          /\ about /\ agreed /\ p.is \in ToSet(s6) /\ (op = "alias" => p.yes) => Settles(l6, p)
  BY <1>1, <1>4, FamilyOutcome
<1> HIDE DEF l4, l6
<1>7. LET about == p.n = n /\ p.of \in Families
          those == ToSet(ListOf(a, p.of)) \ ToSet(ListOf(b, p.of))
      IN  /\ ~about \/ Accords(op, those, p) => Leaves(all, p)
          /\ about /\ Accords(op, those, p) /\ p.is \in those /\ (op = "alias" => p.yes)
             => Settles(all, p)
  <2>1. CASE p.of = "v4"
    <3>1. ToSet(ListOf(a, p.of)) \ ToSet(ListOf(b, p.of)) = ToSet(s4) /\ p.of \in Families
      BY <1>2, <1>4, <2>1 DEF ListOf
    <3> QED
      BY <1>3, <1>5, <1>6, <2>1, <3>1, Composing
  <2>2. CASE p.of = "v6"
    <3>1. ToSet(ListOf(a, p.of)) \ ToSet(ListOf(b, p.of)) = ToSet(s6) /\ p.of \in Families
      BY <1>2, <1>4, <2>2 DEF ListOf
    <3> QED
      BY <1>3, <1>5, <1>6, <2>2, <3>1, Composing
  <2>3. CASE p.of \notin Families
    <3>1. p.of # "v4" /\ p.of # "v6"
      BY <1>4, <2>3
    <3> QED
      BY <1>3, <1>5, <1>6, <2>3, <3>1, Composing
  <2> QED
    BY <2>1, <2>2, <2>3 DEF Families
<1>8. Fine(all)
  BY <1>3, <1>5, <1>6, FineJoins
<1> QED
  BY <1>7, <1>8 DEF all

LEMMA ForEachOutcome ==
  ASSUME NEW op \in {"add", "delete"}, NEW n \in Names, NEW tol, tol = "missing" => op = "delete",
         NEW s, IsList(s), NEW p, IsClaim(p)
  PROVE  LET about == p.n = n /\ p.of = "members" /\ p.is \in ToSet(s)
         IN  /\ ~about \/ op = "delete" => Leaves(ForEach(op, n, s, tol), p)
             /\ about /\ op = "delete" => Settles(ForEach(op, n, s, tol), p)
<1> DEFINE f == [i \in DOMAIN s |-> Cmd(op, n, s[i], tol)]
<1>1. ForEach(op, n, s, tol) = FlattenSeq(f)
  BY DEF ForEach
<1>2. /\ op \in ListOps /\ op \notin {"alias", "-alias"} /\ (tol = "missing" => op \in Removals)
      /\ p.of = "members" => ~p.yes
      /\ \A x : Means(op, x, p) <=> p.is = x
      /\ \A x : Wants(op, x, p) <=> (p.yes <=> op # "delete")
  BY DEF ListOps, Removals, IsClaim, Means, Wants
<1>3. ASSUME NEW i \in DOMAIN s
      PROVE  Handles(f[i], op, n, "members", s[i], p)
  <2>1. f[i] = Cmd(op, n, s[i], tol)
    OBVIOUS
  <2> HIDE DEF f
  <2> QED
    BY <1>2, <2>1, ItemOutcome DEF Handles
<1>4. f = [i \in DOMAIN s |-> f[i]]
  OBVIOUS
<1> HIDE DEF f
<1>5. LET about == p.n = n /\ p.of = "members"
          agreed == \A x \in ToSet(s) : Means(op, x, p) => Wants(op, x, p)
          made == \E x \in ToSet(s) : Means(op, x, p)
      IN  /\ Fine(FlattenSeq(f))
          /\ ~about \/ agreed => Leaves(FlattenSeq(f), p)
          /\ about /\ agreed /\ made /\ (op = "alias" => p.yes) => Settles(FlattenSeq(f), p)
  BY <1>3, <1>4, ItemsOutcome
<1> QED
  BY <1>1, <1>2, <1>5

LEMMA MembersOutcome ==
  ASSUME NEW n \in Names, NEW oi, IsInterface(oi), NEW ni, IsInterface(ni), NEW p, IsClaim(p)
  PROVE  LET s == Members(n, oi, ni)
             about == p.n = n /\ p.of = "members"
         IN  /\ ~about \/ p.is \notin ToSet(ni.members) => Leaves(s, p)
             /\ /\ about /\ p.is \notin ToSet(ni.members)
                /\ p.is \in ToSet(oi.members) /\ Kind[n] = "bridge"
                => Settles(s, p)
<1> DEFINE gone == Minus(oi.members, ni.members)
           come == Minus(ni.members, oi.members)
           delete == ForEach("delete", n, gone, "missing")
           add == ForEach("add", n, come, "exists")
<1>1. IsList(gone) /\ IsList(come)
  BY MinusIsList DEF IsInterface
<1>2. /\ ToSet(gone) = ToSet(oi.members) \ ToSet(ni.members)
      /\ ToSet(come) = ToSet(ni.members) \ ToSet(oi.members)
  BY MinusIsList DEF IsInterface
<1>3. Members(n, oi, ni) = When(Kind[n] = "bridge", delete \o add)
  BY DEF Members, Each, ForEach
<1> HIDE DEF gone, come
<1>4. LET about == p.n = n /\ p.of = "members" /\ p.is \in ToSet(gone)
      IN  Leaves(delete, p) /\ (about => Settles(delete, p))
  BY <1>1, ForEachOutcome
<1>5. LET about == p.n = n /\ p.of = "members" /\ p.is \in ToSet(come)
      IN  ~about => Leaves(add, p)
  <2>1. "exists" # "missing" /\ "add" # "delete"
    OBVIOUS
  <2> QED
    BY <1>1, <2>1, ForEachOutcome
<1> HIDE DEF delete, add
<1>6. ASSUME p.n # n \/ p.of # "members" \/ p.is \notin ToSet(ni.members)
      PROVE  Leaves(Members(n, oi, ni), p)
  <2>1. Leaves(delete, p) /\ Leaves(add, p)
    BY <1>2, <1>4, <1>5, <1>6
  <2>2. Leaves(delete \o add, p)
    BY <2>1, LeavesJoins
  <2> QED
    BY <1>3, <2>2, NoCommands DEF When
<1>7. ASSUME p.n = n, p.of = "members", p.is \notin ToSet(ni.members),
             p.is \in ToSet(oi.members), Kind[n] = "bridge"
      PROVE  Settles(Members(n, oi, ni), p)
  <2>1. Settles(delete, p) /\ Leaves(add, p)
    BY <1>2, <1>4, <1>5, <1>7
  <2>2. Settles(delete \o add, p)
    BY <2>1, SettlesJoins
  <2> QED
    BY <1>3, <1>7, <2>2 DEF When
<1> QED
  BY <1>6, <1>7

(* The parts of Configure.                                                 *)
LEMMA CreateOutcome ==
  ASSUME NEW n \in Names, NEW ni, NEW fresh, NEW p, IsClaim(p)
  PROVE  LET s == Create(n, ni, fresh)
             about == p.n = n /\ p.of = "exists"
         IN  /\ ~about \/ p.yes => Leaves(s, p)
             /\ about /\ p.yes /\ fresh /\ IsCloned(n) => Settles(s, p)
<1> DEFINE arg == IF Kind[n] = "wlan" THEN Identity(ni.wireless) ELSE Identity(NoWireless)
           c == Cmd("create", n, arg, "exists")
<1>1. Create(n, ni, fresh) = When(fresh /\ IsCloned(n), c)
  BY DEF Create
<1>2. "create" \in OnOps /\ Flag("create") = "exists" /\ "exists" # "missing"
  BY DEF OnOps, Flag
<1> HIDE DEF arg
<1>3. /\ p.n # n \/ p.of # "exists" \/ p.yes => Leaves(c, p)
      /\ p.n = n /\ p.of = "exists" /\ p.yes => Settles(c, p)
  BY <1>2, FlagOutcome
<1> HIDE DEF c
<1> QED
  BY <1>1, <1>3, NoCommands DEF When

LEMMA ParentOutcome ==
  ASSUME NEW n \in Names, NEW oi, NEW ni, NEW p, IsClaim(p)
  PROVE  LET s == Parent(n, oi, ni)
             about == p.n = n /\ p.of = "vlan"
         IN  /\ ~about => Leaves(s, p)
             /\ about /\ p.is = ni.vlan /\ (Kind[n] = "vlan" => ni.vlan # NoVLAN)
                => Outcome(s, p, Kind[n] # "vlan" \/ oi.vlan = ni.vlan)
<1> DEFINE off == Cmd("-vlanif", n, None, "missing")
           on == Cmd("vlanif", n, ni.vlan, None)
           s == Parent(n, oi, ni)
           differs == Kind[n] = "vlan" /\ oi.vlan # ni.vlan
           first == When(oi.vlan # NoVLAN, off)
           second == When(ni.vlan # NoVLAN, on)
<1>1. s = IF differs THEN first \o second ELSE <<>>
  BY DEF Parent, When
<1>2. Fine(off) /\ (p.n # n \/ p.of # "vlan" => Leaves(off, p))
  BY WipeOutcome
<1>3. /\ p.n # n \/ p.of # "vlan" => Leaves(on, p)
      /\ p.n = n /\ p.of = "vlan" /\ p.is = ni.vlan => Settles(on, p)
  BY ValueOutcome
<1> HIDE DEF off, on
<1>4. Fine(first) /\ (p.n # n \/ p.of # "vlan" => Leaves(first, p))
  BY <1>2, NoCommands DEF When
<1>5. /\ p.n # n \/ p.of # "vlan" => Leaves(second, p)
      /\ p.n = n /\ p.of = "vlan" /\ p.is = ni.vlan /\ ni.vlan # NoVLAN => Settles(second, p)
  BY <1>3, NoCommands DEF When
<1> HIDE DEF first, second, s
<1>6. ASSUME p.n # n \/ p.of # "vlan" PROVE Leaves(s, p)
  BY <1>1, <1>4, <1>5, <1>6, NoCommands, LeavesJoins
<1>7. ASSUME p.n = n, p.of = "vlan", p.is = ni.vlan, Kind[n] = "vlan" => ni.vlan # NoVLAN
      PROVE  Outcome(s, p, Kind[n] # "vlan" \/ oi.vlan = ni.vlan)
  <2>1. CASE differs
    <3>1. Settles(first \o second, p)
      BY <1>4, <1>5, <1>7, <2>1, SettlesJoins
    <3> QED
      BY <1>1, <2>1, <3>1 DEF Outcome, Settles
  <2>2. CASE ~differs
    BY <1>1, <2>2, NoCommands DEF Outcome
  <2> QED
    BY <2>1, <2>2
<1> QED
  BY <1>6, <1>7 DEF s

LEMMA RadioOutcome ==
  ASSUME NEW n \in Names, NEW oi, NEW ni, NEW fresh, NEW p, IsClaim(p)
  PROVE  LET s == Radio(n, oi, ni, fresh)
             about == p.n = n /\ p.of = "hostap"
         IN  /\ ~about => Leaves(s, p)
             /\ about /\ (p.yes <=> Kind[n] = "physical" /\ IsAP(ni))
                => Outcome(s, p, Kind[n] # "physical" \/ (IsAP(oi) <=> IsAP(ni)))
<1> DEFINE on == Cmd("mediaopt", n, None, None)
           off == Cmd("-mediaopt", n, None, None)
           s == Radio(n, oi, ni, fresh)
           first == When(IsAP(ni) /\ (~IsAP(oi) \/ fresh), on)
           second == When(~IsAP(ni) /\ IsAP(oi), off)
<1>1. s = IF Kind[n] = "physical" THEN first \o second ELSE <<>>
  BY DEF Radio, When
<1>2. /\ p.n # n \/ p.of # "hostap" \/ p.yes => Leaves(on, p)
      /\ p.n = n /\ p.of = "hostap" /\ p.yes => Settles(on, p)
  <2>1. "mediaopt" \in OnOps /\ "mediaopt" \notin OffOps /\ Flag("mediaopt") = "hostap"
    BY DEF OnOps, OffOps, Flag
  <2>2. None # "missing" /\ "exists" # "missing"
    BY DEF None
  <2> QED
    BY <2>1, <2>2, FlagOutcome
<1>3. /\ p.n # n \/ p.of # "hostap" \/ ~p.yes => Leaves(off, p)
      /\ p.n = n /\ p.of = "hostap" /\ ~p.yes => Settles(off, p)
  <2>1. "-mediaopt" \in OffOps /\ "-mediaopt" \notin OnOps /\ Flag("-mediaopt") = "hostap"
    BY DEF OnOps, OffOps, Flag
  <2>2. None # "missing" /\ "exists" # "missing"
    BY DEF None
  <2> QED
    BY <2>1, <2>2, FlagOutcome
<1> HIDE DEF on, off
<1>4. ASSUME p.n # n \/ p.of # "hostap" PROVE Leaves(s, p)
  <2>1. Leaves(first, p) /\ Leaves(second, p)
    BY <1>2, <1>3, <1>4, NoCommands DEF When
  <2> HIDE DEF first, second
  <2> QED
    BY <1>1, <2>1, NoCommands, LeavesJoins
<1>5. ASSUME p.n = n, p.of = "hostap", p.yes <=> Kind[n] = "physical" /\ IsAP(ni)
      PROVE  Outcome(s, p, Kind[n] # "physical" \/ (IsAP(oi) <=> IsAP(ni)))
  <2>1. CASE Kind[n] # "physical"
    BY <1>1, <2>1, NoCommands DEF Outcome, Leaves
  <2>2. CASE Kind[n] = "physical" /\ IsAP(ni)
    <3>1. Leaves(first, p) /\ (~IsAP(oi) => Settles(first, p)) /\ Leaves(second, p)
      BY <1>2, <1>5, <2>2, NoCommands DEF When
    <3> HIDE DEF first, second, s
    <3>2. Leaves(s, p) /\ (~IsAP(oi) => Settles(s, p))
      BY <1>1, <2>2, <3>1, LeavesJoins, SettlesJoins
    <3> QED
      BY <2>2, <3>2 DEF Outcome, Leaves
  <2>3. CASE Kind[n] = "physical" /\ ~IsAP(ni)
    <3>1. Leaves(first, p) /\ Leaves(second, p) /\ (IsAP(oi) => Settles(second, p))
      BY <1>3, <1>5, <2>3, NoCommands DEF When
    <3> HIDE DEF first, second, s
    <3>2. Leaves(s, p) /\ (IsAP(oi) => Settles(s, p))
      BY <1>1, <2>3, <3>1, LeavesJoins, SettlesJoins DEF Leaves
    <3> QED
      BY <2>3, <3>2 DEF Outcome, Leaves
  <2> QED
    BY <2>1, <2>2, <2>3
<1> QED
  BY <1>4, <1>5 DEF s

LEMMA LinkOutcome ==
  ASSUME NEW n \in Names, NEW oi, NEW ni, NEW fresh, NEW p, IsClaim(p)
  PROVE  LET s == Link(n, oi, ni, fresh) IN
         /\ p.n # n \/ p.of \notin {"mtu", "media"} => Leaves(s, p)
         /\ p.n = n /\ p.of = "mtu" /\ p.is = ni.mtu /\ p.is # 0
            => Outcome(s, p, ni.mtu = oi.mtu /\ ~fresh)
         /\ p.n = n /\ p.of = "media" /\ p.is = ni.media /\ p.is # None
            => Outcome(s, p, ni.media = oi.media /\ ~fresh)
<1> DEFINE mtu == Cmd("mtu", n, ni.mtu, None)
           media == Cmd("media", n, ni.media, None)
           s == Link(n, oi, ni, fresh)
           first == When(ni.mtu # 0 /\ (ni.mtu # oi.mtu \/ fresh), mtu)
           second == When(ni.media # oi.media \/ (fresh /\ ni.media # None), media)
<1>1. s = first \o second
  BY DEF Link
<1>2. /\ p.n # n \/ p.of # "mtu" \/ p.is = ni.mtu => Leaves(mtu, p)
      /\ p.n = n /\ p.of = "mtu" /\ p.is = ni.mtu => Settles(mtu, p)
  BY ValueOutcome
<1>3. /\ p.n # n \/ p.of # "media" \/ p.is = ni.media => Leaves(media, p)
      /\ p.n = n /\ p.of = "media" /\ p.is = ni.media => Settles(media, p)
  BY ValueOutcome
<1> HIDE DEF mtu, media, s
<1>4. ASSUME p.n # n \/ p.of \notin {"mtu", "media"} PROVE Leaves(s, p)
  <2>1. Leaves(first, p) /\ Leaves(second, p)
    BY <1>2, <1>3, <1>4, NoCommands DEF When
  <2> HIDE DEF first, second
  <2> QED
    BY <1>1, <2>1, LeavesJoins
<1>5. ASSUME p.n = n, p.of = "mtu", p.is = ni.mtu, p.is # 0
      PROVE  Outcome(s, p, ni.mtu = oi.mtu /\ ~fresh)
  <2>1. Leaves(first, p) /\ (ni.mtu # oi.mtu \/ fresh => Settles(first, p))
    BY <1>2, <1>5, NoCommands DEF When
  <2>2. Leaves(second, p)
    BY <1>3, <1>5, NoCommands DEF When
  <2> HIDE DEF first, second
  <2>3. Leaves(s, p) /\ (ni.mtu # oi.mtu \/ fresh => Settles(s, p))
    BY <1>1, <2>1, <2>2, LeavesJoins, SettlesJoins
  <2> QED
    BY <2>3 DEF Outcome, Leaves
<1>6. ASSUME p.n = n, p.of = "media", p.is = ni.media, p.is # None
      PROVE  Outcome(s, p, ni.media = oi.media /\ ~fresh)
  <2>1. Leaves(first, p)
    BY <1>2, <1>6, NoCommands DEF When
  <2>2. Leaves(second, p) /\ (ni.media # oi.media \/ fresh => Settles(second, p))
    BY <1>3, <1>6, NoCommands DEF When
  <2> HIDE DEF first, second
  <2>3. Leaves(s, p) /\ (ni.media # oi.media \/ fresh => Settles(s, p))
    BY <1>1, <2>1, <2>2, LeavesJoins, SettlesJoins DEF Leaves
  <2> QED
    BY <2>3 DEF Outcome, Leaves
<1> QED
  BY <1>4, <1>5, <1>6 DEF s

(* An interface that is shut down.                                         *)
LEMMA ShutOutcome ==
  ASSUME NEW n \in Names, NEW oi, NEW ni, NEW fresh, NEW p, IsClaim(p)
  PROVE  LET s == Shut(n, oi, ni, fresh) IN
         /\ p.n # n \/ p.of \notin {"supplicant", "client", "up"} => Leaves(s, p)
         /\ p.n = n /\ p.of = "up" /\ ~p.yes => Outcome(s, p, oi.shutdown /\ ~fresh) /\ Leaves(s, p)
         /\ p.n = n /\ p.of = "client" /\ ~p.yes
            => Leaves(s, p) /\ (oi.dhcp /\ ~oi.shutdown /\ ~fresh => Settles(s, p))
<1> DEFINE stop == Cmd("stop", n, None, None)
           quit == Cmd("dhcpcd -x", n, None, "missing")
           down == Cmd("down", n, None, None)
           s == Shut(n, oi, ni, fresh)
           first == When(HasWireless(ni), stop)
           second == When(oi.dhcp /\ ~fresh, quit)
           all == first \o second \o down
<1>1. s = IF ~oi.shutdown \/ fresh THEN all ELSE <<>>
  BY DEF Shut, When
<1>2. Fine(stop) /\ (p.n # n \/ p.of # "supplicant" => Leaves(stop, p))
  BY WipeOutcome
<1>3. /\ Fine(quit)
      /\ p.n # n \/ p.of # "client" \/ ~p.yes => Leaves(quit, p)
      /\ p.n = n /\ p.of = "client" /\ ~p.yes => Settles(quit, p)
  <2> DEFINE op == "dhcpcd -x"
  <2>1. op \in OffOps /\ op \notin OnOps /\ Flag(op) = "client"
    BY DEF OnOps, OffOps, Flag
  <2>2. None # "missing" /\ "exists" # "missing"
    BY DEF None
  <2>3. op \in OnOps \cup OffOps /\ ("missing" = "missing" => op \in OffOps)
    BY <2>1, <2>2
  <2>4. quit = Cmd(op, n, None, "missing")
    OBVIOUS
  <2> HIDE DEF op, quit
  <2> QED
    BY <2>1, <2>3, <2>4, FlagOutcome
<1>4. /\ Fine(down)
      /\ p.n # n \/ p.of # "up" \/ ~p.yes => Leaves(down, p)
      /\ p.n = n /\ p.of = "up" /\ ~p.yes => Settles(down, p)
  <2>1. "down" \in OffOps /\ "down" \notin OnOps /\ Flag("down") = "up"
    BY DEF OnOps, OffOps, Flag
  <2>2. None # "missing" /\ "exists" # "missing"
    BY DEF None
  <2> QED
    BY <2>1, <2>2, FlagOutcome
<1> HIDE DEF stop, quit, down, s
<1>5. /\ Fine(first) /\ (p.n # n \/ p.of # "supplicant" => Leaves(first, p))
      /\ Fine(second) /\ (p.n # n \/ p.of # "client" \/ ~p.yes => Leaves(second, p))
      /\ p.n = n /\ p.of = "client" /\ ~p.yes /\ oi.dhcp /\ ~fresh => Settles(second, p)
  BY <1>2, <1>3, NoCommands DEF When
<1> HIDE DEF first, second
<1>6. ASSUME p.n # n \/ p.of \notin {"supplicant", "client", "up"}
      PROVE  Leaves(s, p)
  <2>1. Leaves(all, p)
    BY <1>4, <1>5, <1>6, LeavesJoins
  <2> QED
    BY <1>1, <2>1, NoCommands
<1>7. ASSUME p.n = n, p.of = "up", ~p.yes
      PROVE  Outcome(s, p, oi.shutdown /\ ~fresh) /\ Leaves(s, p)
  <2>1. Leaves(all, p) /\ Settles(all, p)
    BY <1>4, <1>5, <1>7, LeavesJoins, SettlesJoins, FineJoins
  <2> QED
    BY <1>1, <2>1, NoCommands DEF Outcome, Leaves
<1>8. ASSUME p.n = n, p.of = "client", ~p.yes
      PROVE  Leaves(s, p) /\ (oi.dhcp /\ ~oi.shutdown /\ ~fresh => Settles(s, p))
  <2>1. Leaves(first \o second, p) /\ (oi.dhcp /\ ~fresh => Settles(first \o second, p))
    BY <1>5, <1>8, LeavesJoins, SettlesJoins
  <2>2. Leaves(all, p) /\ (oi.dhcp /\ ~fresh => Settles(all, p))
    BY <1>4, <1>8, <2>1, LeavesJoins, SettlesJoins
  <2> QED
    BY <1>1, <2>2, NoCommands
<1> QED
  BY <1>6, <1>7, <1>8 DEF s

(* One that is not.                                                        *)
LEMMA OpenOutcome ==
  ASSUME NEW n \in Names, NEW oi, NEW ni, NEW cameUp, NEW newBridge, NEW oldBridge,
         NEW p, IsClaim(p)
  PROVE  LET s == Open(n, oi, ni, cameUp, newBridge, oldBridge) IN
         /\ p.n # n \/ p.of \notin {"supplicant", "client", "up"} => Leaves(s, p)
         /\ p.n = n /\ p.of = "up" /\ p.yes => Outcome(s, p, ~cameUp)
         /\ p.n = n /\ p.of = "client" /\ (p.yes <=> ni.dhcp)
            => Leaves(s, p) /\ (ni.dhcp /\ (~oi.dhcp \/ cameUp) => Settles(s, p))
                            /\ (~ni.dhcp /\ oi.dhcp /\ ~oi.shutdown => Settles(s, p))
         /\ /\ p.n = n /\ p.of = "supplicant"
            /\ HasWireless(ni) /\ p.is = Supplicant(ni.wireless, newBridge)
            => Outcome(s, p, oi.wireless = ni.wireless /\ newBridge = oldBridge /\ ~cameUp)
<1> DEFINE up == Cmd("up", n, None, None)
           ask == Cmd("dhcpcd -b", n, None, "exists")
           quit == Cmd("dhcpcd -x", n, None, "missing")
           stop == Cmd("stop", n, None, None)
           start == Cmd("start", n, Supplicant(ni.wireless, newBridge), None)
           s == Open(n, oi, ni, cameUp, newBridge, oldBridge)
           a == When(cameUp, up)
           b == When(ni.dhcp /\ (~oi.dhcp \/ cameUp), ask)
           c == When(~ni.dhcp /\ oi.dhcp /\ ~oi.shutdown, quit)
           begin == When(HasWireless(ni), start)
           anew == /\ HasWireless(oi) \/ HasWireless(ni)
                   /\ oi.wireless # ni.wireless \/ newBridge # oldBridge \/ cameUp
           d == When(anew, stop \o begin)
<1>1. s = a \o b \o c \o d
  BY DEF Open
<1>2. /\ Fine(up)
      /\ p.n # n \/ p.of # "up" \/ p.yes => Leaves(up, p)
      /\ p.n = n /\ p.of = "up" /\ p.yes => Settles(up, p)
  <2>1. "up" \in OnOps /\ "up" \notin OffOps /\ Flag("up") = "up"
    BY DEF OnOps, OffOps, Flag
  <2>2. None # "missing" /\ "exists" # "missing"
    BY DEF None
  <2> QED
    BY <2>1, <2>2, FlagOutcome
<1>3. /\ Fine(ask)
      /\ p.n # n \/ p.of # "client" \/ p.yes => Leaves(ask, p)
      /\ p.n = n /\ p.of = "client" /\ p.yes => Settles(ask, p)
  <2> DEFINE op == "dhcpcd -b"
  <2>1. op \in OnOps /\ op \notin OffOps /\ Flag(op) = "client"
    BY DEF OnOps, OffOps, Flag
  <2>2. None # "missing" /\ "exists" # "missing"
    BY DEF None
  <2>3. op \in OnOps \cup OffOps /\ ("exists" = "missing" => op \in OffOps)
    BY <2>1, <2>2
  <2>4. ask = Cmd(op, n, None, "exists")
    OBVIOUS
  <2> HIDE DEF op, ask
  <2> QED
    BY <2>1, <2>3, <2>4, FlagOutcome
<1>4. /\ Fine(quit)
      /\ p.n # n \/ p.of # "client" \/ ~p.yes => Leaves(quit, p)
      /\ p.n = n /\ p.of = "client" /\ ~p.yes => Settles(quit, p)
  <2> DEFINE op == "dhcpcd -x"
  <2>1. op \in OffOps /\ op \notin OnOps /\ Flag(op) = "client"
    BY DEF OnOps, OffOps, Flag
  <2>2. None # "missing" /\ "exists" # "missing"
    BY DEF None
  <2>3. op \in OnOps \cup OffOps /\ ("missing" = "missing" => op \in OffOps)
    BY <2>1, <2>2
  <2>4. quit = Cmd(op, n, None, "missing")
    OBVIOUS
  <2> HIDE DEF op, quit
  <2> QED
    BY <2>1, <2>3, <2>4, FlagOutcome
<1>5. Fine(stop) /\ (p.n # n \/ p.of # "supplicant" => Leaves(stop, p))
  BY WipeOutcome
<1>6. /\ Fine(start)
      /\ p.n # n \/ p.of # "supplicant" => Leaves(start, p)
      /\ p.n = n /\ p.of = "supplicant" /\ p.is = Supplicant(ni.wireless, newBridge)
         => Settles(start, p)
  BY ValueOutcome
<1> HIDE DEF up, ask, quit, stop, start, s, anew
<1>7. /\ Fine(a) /\ (p.n # n \/ p.of # "up" \/ p.yes => Leaves(a, p))
      /\ p.n = n /\ p.of = "up" /\ p.yes /\ cameUp => Settles(a, p)
  BY <1>2, NoCommands DEF When
<1>8. /\ Fine(b) /\ (p.n # n \/ p.of # "client" \/ (p.yes <=> ni.dhcp) => Leaves(b, p))
      /\ p.n = n /\ p.of = "client" /\ p.yes /\ ni.dhcp /\ (~oi.dhcp \/ cameUp) => Settles(b, p)
  BY <1>3, NoCommands DEF When
<1>9. /\ Fine(c) /\ (p.n # n \/ p.of # "client" \/ (p.yes <=> ni.dhcp) => Leaves(c, p))
      /\ p.n = n /\ p.of = "client" /\ ~p.yes /\ ~ni.dhcp /\ oi.dhcp /\ ~oi.shutdown => Settles(c, p)
  BY <1>4, NoCommands DEF When
<1>10. /\ Fine(begin) /\ (p.n # n \/ p.of # "supplicant" => Leaves(begin, p))
       /\ /\ p.n = n /\ p.of = "supplicant" /\ p.is = Supplicant(ni.wireless, newBridge)
          /\ HasWireless(ni)
          => Settles(begin, p)
  BY <1>6, NoCommands DEF When
<1> HIDE DEF begin
<1>11. /\ p.n # n \/ p.of # "supplicant" => Leaves(d, p)
       /\ /\ p.n = n /\ p.of = "supplicant" /\ p.is = Supplicant(ni.wireless, newBridge)
          /\ HasWireless(ni) /\ anew
          => Settles(d, p)
       /\ ~anew => Leaves(d, p)
  BY <1>5, <1>10, NoCommands, LeavesJoins, SettlesJoins DEF When
<1> HIDE DEF a, b, c, d
<1>12. ASSUME p.n # n \/ p.of \notin {"supplicant", "client", "up"} PROVE Leaves(s, p)
  BY <1>1, <1>7, <1>8, <1>9, <1>11, <1>12, LeavesJoins
<1>13. ASSUME p.n = n, p.of = "up", p.yes PROVE Outcome(s, p, ~cameUp)
  <2>1. Leaves(a, p) /\ Leaves(b, p) /\ Leaves(c, p) /\ Leaves(d, p) /\ (cameUp => Settles(a, p))
    BY <1>7, <1>8, <1>9, <1>11, <1>13
  <2>2. Leaves(s, p) /\ (cameUp => Settles(s, p))
    BY <1>1, <2>1, LeavesJoins, SettlesJoins
  <2> QED
    BY <2>2 DEF Outcome, Leaves
<1>14. ASSUME p.n = n, p.of = "client", p.yes <=> ni.dhcp
       PROVE  /\ Leaves(s, p)
              /\ ni.dhcp /\ (~oi.dhcp \/ cameUp) => Settles(s, p)
              /\ ~ni.dhcp /\ oi.dhcp /\ ~oi.shutdown => Settles(s, p)
  <2>1. Leaves(a, p) /\ Leaves(b, p) /\ Leaves(c, p) /\ Leaves(d, p)
    BY <1>7, <1>8, <1>9, <1>11, <1>14
  <2>2. /\ ni.dhcp /\ (~oi.dhcp \/ cameUp) => Settles(b, p)
        /\ ~ni.dhcp /\ oi.dhcp /\ ~oi.shutdown => Settles(c, p)
    BY <1>8, <1>9, <1>14
  <2>3. Leaves(a \o b, p) /\ (Settles(b, p) => Settles(a \o b, p)) /\ Fine(a \o b)
    BY <1>7, <1>8, <2>1, LeavesJoins, SettlesJoins, FineJoins
  <2>4. Leaves(a \o b \o c, p) /\ (Settles(b, p) \/ Settles(c, p) => Settles(a \o b \o c, p))
    BY <2>1, <2>3, LeavesJoins, SettlesJoins
  <2>5. Leaves(s, p) /\ (Settles(b, p) \/ Settles(c, p) => Settles(s, p))
    BY <1>1, <2>1, <2>4, LeavesJoins, SettlesJoins
  <2> QED
    BY <2>2, <2>5
<1>15. ASSUME p.n = n, p.of = "supplicant", HasWireless(ni), p.is = Supplicant(ni.wireless, newBridge)
       PROVE  Outcome(s, p, oi.wireless = ni.wireless /\ newBridge = oldBridge /\ ~cameUp)
  <2>1. Leaves(a, p) /\ Leaves(b, p) /\ Leaves(c, p) /\ (~anew => Leaves(d, p)) /\ (anew => Settles(d, p))
    BY <1>7, <1>8, <1>9, <1>11, <1>15
  <2>2. Leaves(a \o b \o c, p) /\ Fine(a \o b \o c)
    BY <2>1, LeavesJoins DEF Leaves
  <2>3. (~anew => Leaves(s, p)) /\ (anew => Settles(s, p))
    BY <1>1, <2>1, <2>2, LeavesJoins, SettlesJoins
  <2>4. Fine(s)
    BY <2>3 DEF Leaves, Settles
  <2>5. (oi.wireless = ni.wireless /\ newBridge = oldBridge /\ ~cameUp) <=> ~anew
    BY <1>15 DEF anew
  <2> QED
    BY <2>3, <2>4, <2>5 DEF Outcome
<1> QED
  BY <1>12, <1>13, <1>14, <1>15 DEF s

(* What a document with the settings ifc of an interface, which is there   *)
(* or not, claims of it; and what is so when nothing is configured.        *)
Says(n, there, ifc, bridge, p) ==
  IF p.of = "exists" THEN p.yes <=> there \/ ~IsCloned(n)
  ELSE IF p.of = "up" THEN p.yes <=> there /\ ~ifc.shutdown
  ELSE IF p.of = "client" THEN p.yes <=> ifc.dhcp /\ there /\ ~ifc.shutdown
  ELSE IF p.of = "hostap" THEN p.yes <=> Kind[n] = "physical" /\ IsAP(ifc)
  ELSE IF p.of = "vlan" THEN p.is = ifc.vlan
  ELSE IF p.of = "mtu" THEN p.is = ifc.mtu /\ p.is # 0
  ELSE IF p.of = "media" THEN p.is = ifc.media /\ p.is # None
  ELSE IF p.of = "supplicant"
       THEN /\ HasWireless(ifc) /\ there /\ ~ifc.shutdown
            /\ p.is = Supplicant(ifc.wireless, bridge)
  ELSE IF p.of \in Families THEN p.yes <=> p.is \in ToSet(ListOf(ifc, p.of))
  ELSE p.is \notin ToSet(ifc.members)

Void(n, p) == Says(n, FALSE, NewInterface, None, p)

Tidy(n, ifc) ==
  /\ IsInterface(ifc)
  /\ Kind[n] # "vlan" => ifc.vlan = NoVLAN
  /\ Kind[n] # "bridge" => ifc.members = <<>>
  /\ Kind[n] = "physical" => ifc.wireless.device = None

(* It gives no address that the claim may be about two prefix lengths.     *)
Untwinned(ifc, p) == p.of \in Families => ~Twins(ListOf(ifc, p.of))

(* The parts of Configure one after the other.                             *)
LEMMA EightParts ==
  ASSUME NEW p, NEW a, NEW b, NEW c, NEW d, NEW e, NEW f, NEW g, NEW h
  PROVE  LET s == a \o b \o c \o d \o e \o f \o g \o h
             L(t) == Leaves(t, p)
             S(t) == Settles(t, p)
         IN  /\ L(a) /\ L(b) /\ L(c) /\ L(d) /\ L(e) /\ L(f) /\ L(g) /\ L(h) => L(s)
             /\ S(a) /\ L(b) /\ L(c) /\ L(d) /\ L(e) /\ L(f) /\ L(g) /\ L(h) => S(s)
             /\ L(a) /\ S(b) /\ L(c) /\ L(d) /\ L(e) /\ L(f) /\ L(g) /\ L(h) => S(s)
             /\ L(a) /\ L(b) /\ S(c) /\ L(d) /\ L(e) /\ L(f) /\ L(g) /\ L(h) => S(s)
             /\ L(a) /\ L(b) /\ L(c) /\ S(d) /\ L(e) /\ L(f) /\ L(g) /\ L(h) => S(s)
             /\ L(a) /\ L(b) /\ L(c) /\ L(d) /\ S(e) /\ L(f) /\ L(g) /\ L(h) => S(s)
             /\ L(a) /\ L(b) /\ L(c) /\ L(d) /\ Fine(e) /\ S(f) /\ L(g) /\ L(h) => S(s)
             /\ L(a) /\ L(b) /\ L(c) /\ L(d) /\ L(e) /\ L(f) /\ S(g) /\ L(h) => S(s)
             /\ L(a) /\ L(b) /\ L(c) /\ L(d) /\ L(e) /\ L(f) /\ L(g) /\ S(h) => S(s)
<1> DEFINE L(t) == Leaves(t, p)
           S(t) == Settles(t, p)
<1>1. \A t, u : L(t) /\ L(u) => L(t \o u)
  BY LeavesJoins
<1>2. \A t, u : S(t) /\ L(u) => S(t \o u)
  BY SettlesJoins
<1>3. /\ \A t, u : Fine(t) /\ S(u) => S(t \o u)
      /\ \A t, u : Fine(t) /\ Fine(u) => Fine(t \o u)
      /\ \A t : L(t) => Fine(t)
  BY SettlesJoins, FineJoins DEF Leaves
<1> HIDE DEF L, S
<1>4. /\ L(a) /\ L(b) /\ L(c) /\ L(d) => L(a \o b \o c \o d)
      /\ S(a) /\ L(b) /\ L(c) /\ L(d) => S(a \o b \o c \o d)
      /\ L(a) /\ S(b) /\ L(c) /\ L(d) => S(a \o b \o c \o d)
      /\ L(a) /\ L(b) /\ S(c) /\ L(d) => S(a \o b \o c \o d)
      /\ L(a) /\ L(b) /\ L(c) /\ S(d) => S(a \o b \o c \o d)
  BY <1>1, <1>2, <1>3
<1> DEFINE z == a \o b \o c \o d
           s == z \o e \o f \o g \o h
<1> HIDE DEF z
<1>5. /\ L(z) /\ L(e) /\ L(f) /\ L(g) /\ L(h) => L(s)
      /\ S(z) /\ L(e) /\ L(f) /\ L(g) /\ L(h) => S(s)
      /\ L(z) /\ S(e) /\ L(f) /\ L(g) /\ L(h) => S(s)
      /\ L(z) /\ Fine(e) /\ S(f) /\ L(g) /\ L(h) => S(s)
      /\ L(z) /\ L(e) /\ L(f) /\ S(g) /\ L(h) => S(s)
      /\ L(z) /\ L(e) /\ L(f) /\ L(g) /\ S(h) => S(s)
  BY <1>1, <1>2, <1>3
<1> QED
  BY <1>4, <1>5 DEF z, L, S

(* What becomes of a claim that holds under the new settings: the commands *)
(* leave it alone if it was made before, and make it if it was not.        *)
Configuring(n, oi, ni, fresh, newBridge, oldBridge, p) ==
  LET s == Configure(n, oi, ni, fresh, newBridge, oldBridge)
      same == /\ Says(n, ~fresh, oi, oldBridge, p)
              /\ p.of = "supplicant" => newBridge = oldBridge
  IN  /\ p.n # n \/ p.of \notin NifFields => Leaves(s, p)
      /\ p.n = n /\ p.of \in NifFields /\ Says(n, TRUE, ni, newBridge, p)
         => (same => Leaves(s, p)) /\ (~same => Settles(s, p))

(* Configure: a claim that the new settings make is left alone if the old  *)
(* ones made it and the interface is not created anew, and settled if not. *)
LEMMA ConfigureOutcome ==
  ASSUME NEW n \in Names, NEW oi, Tidy(n, oi), NEW ni, Tidy(n, ni),
         Kind[n] = "vlan" => ni.vlan # NoVLAN,
         NEW fresh \in BOOLEAN, fresh => oi = NewInterface, NEW newBridge, NEW oldBridge,
         NEW p, IsClaim(p), p.n = n => Untwinned(oi, p) /\ Untwinned(ni, p)
  PROVE  Configuring(n, oi, ni, fresh, newBridge, oldBridge, p)
<1> DEFINE cameUp == oi.shutdown \/ fresh
           a == Create(n, ni, fresh)
           b == Parent(n, oi, ni)
           c == Radio(n, oi, ni, fresh)
           d == Link(n, oi, ni, fresh)
           e == Addresses("-alias", n, oi, ni, "missing")
           f == Addresses("alias", n, ni, oi, "exists")
           g == Members(n, oi, ni)
           shut == Shut(n, oi, ni, fresh)
           open == Open(n, oi, ni, cameUp, newBridge, oldBridge)
           h == IF ni.shutdown THEN shut ELSE open
           s == Configure(n, oi, ni, fresh, newBridge, oldBridge)
           same == /\ Says(n, ~fresh, oi, oldBridge, p)
                   /\ p.of = "supplicant" => newBridge = oldBridge
           says == Says(n, TRUE, ni, newBridge, p)
           L(t) == Leaves(t, p)
           S(t) == Settles(t, p)
<1>0. s = a \o b \o c \o d \o e \o f \o g \o h
  BY DEF Configure
<1>1. IsInterface(oi) /\ IsInterface(ni)
  BY DEF Tidy
<1>2. /\ p.n # n \/ p.of # "exists" \/ p.yes => L(a)
      /\ p.n = n /\ p.of = "exists" /\ p.yes /\ fresh /\ IsCloned(n) => S(a)
  BY CreateOutcome
<1>3. /\ p.n # n \/ p.of # "vlan" => L(b)
      /\ p.n = n /\ p.of = "vlan" /\ p.is = ni.vlan =>
           /\ Kind[n] # "vlan" \/ oi.vlan = ni.vlan => L(b)
           /\ Kind[n] = "vlan" /\ oi.vlan # ni.vlan => S(b)
  BY ParentOutcome DEF Outcome
<1>4. /\ p.n # n \/ p.of # "hostap" => L(c)
      /\ p.n = n /\ p.of = "hostap" /\ (p.yes <=> Kind[n] = "physical" /\ IsAP(ni)) =>
           /\ Kind[n] # "physical" \/ (IsAP(oi) <=> IsAP(ni)) => L(c)
           /\ Kind[n] = "physical" /\ ~(IsAP(oi) <=> IsAP(ni)) => S(c)
  BY RadioOutcome DEF Outcome
<1>5. /\ p.n # n \/ p.of \notin {"mtu", "media"} => L(d)
      /\ p.n = n /\ p.of = "mtu" /\ p.is = ni.mtu /\ p.is # 0 =>
           /\ ni.mtu = oi.mtu /\ ~fresh => L(d)
           /\ ni.mtu # oi.mtu \/ fresh => S(d)
      /\ p.n = n /\ p.of = "media" /\ p.is = ni.media /\ p.is # None =>
           /\ ni.media = oi.media /\ ~fresh => L(d)
           /\ ni.media # oi.media \/ fresh => S(d)
  BY LinkOutcome DEF Outcome
<1>6. LET about == p.n = n /\ p.of \in Families
          those == ToSet(ListOf(oi, p.of)) \ ToSet(ListOf(ni, p.of))
      IN  /\ Fine(e)
          /\ ~about \/ Accords("-alias", those, p) => L(e)
          /\ about /\ Accords("-alias", those, p) /\ p.is \in those => S(e)
  BY <1>1, AddressesOutcome
<1>7. LET about == p.n = n /\ p.of \in Families
          those == ToSet(ListOf(ni, p.of)) \ ToSet(ListOf(oi, p.of))
      IN  /\ ~about \/ Accords("alias", those, p) => L(f)
          /\ about /\ Accords("alias", those, p) /\ p.is \in those /\ p.yes => S(f)
  BY <1>1, AddressesOutcome
<1>8. /\ p.n # n \/ p.of # "members" \/ p.is \notin ToSet(ni.members) => L(g)
      /\ /\ p.n = n /\ p.of = "members" /\ p.is \notin ToSet(ni.members)
         /\ p.is \in ToSet(oi.members) /\ Kind[n] = "bridge"
         => S(g)
  BY <1>1, MembersOutcome
<1>9. /\ p.n # n \/ p.of \notin {"supplicant", "client", "up"} => L(shut)
      /\ p.n = n /\ p.of = "up" /\ ~p.yes => L(shut) /\ (~oi.shutdown /\ ~fresh => S(shut))
      /\ p.n = n /\ p.of = "client" /\ ~p.yes
         => L(shut) /\ (oi.dhcp /\ ~oi.shutdown /\ ~fresh => S(shut))
  BY ShutOutcome DEF Outcome
<1>10. /\ p.n # n \/ p.of \notin {"supplicant", "client", "up"} => L(open)
       /\ p.n = n /\ p.of = "up" /\ p.yes => (~cameUp => L(open)) /\ (cameUp => S(open))
       /\ p.n = n /\ p.of = "client" /\ (p.yes <=> ni.dhcp)
          => L(open) /\ (ni.dhcp /\ (~oi.dhcp \/ cameUp) => S(open))
                     /\ (~ni.dhcp /\ oi.dhcp /\ ~oi.shutdown => S(open))
       /\ /\ p.n = n /\ p.of = "supplicant"
          /\ HasWireless(ni) /\ p.is = Supplicant(ni.wireless, newBridge)
          => /\ oi.wireless = ni.wireless /\ newBridge = oldBridge /\ ~cameUp => L(open)
             /\ ~(oi.wireless = ni.wireless /\ newBridge = oldBridge /\ ~cameUp) => S(open)
  <2> HIDE DEF cameUp
  <2> QED
    BY OpenOutcome DEF Outcome
<1>11. /\ L(a) /\ L(b) /\ L(c) /\ L(d) /\ L(e) /\ L(f) /\ L(g) /\ L(h) => L(s)
       /\ S(a) /\ L(b) /\ L(c) /\ L(d) /\ L(e) /\ L(f) /\ L(g) /\ L(h) => S(s)
       /\ L(a) /\ S(b) /\ L(c) /\ L(d) /\ L(e) /\ L(f) /\ L(g) /\ L(h) => S(s)
       /\ L(a) /\ L(b) /\ S(c) /\ L(d) /\ L(e) /\ L(f) /\ L(g) /\ L(h) => S(s)
       /\ L(a) /\ L(b) /\ L(c) /\ S(d) /\ L(e) /\ L(f) /\ L(g) /\ L(h) => S(s)
       /\ L(a) /\ L(b) /\ L(c) /\ L(d) /\ S(e) /\ L(f) /\ L(g) /\ L(h) => S(s)
       /\ L(a) /\ L(b) /\ L(c) /\ L(d) /\ Fine(e) /\ S(f) /\ L(g) /\ L(h) => S(s)
       /\ L(a) /\ L(b) /\ L(c) /\ L(d) /\ L(e) /\ L(f) /\ S(g) /\ L(h) => S(s)
       /\ L(a) /\ L(b) /\ L(c) /\ L(d) /\ L(e) /\ L(f) /\ L(g) /\ S(h) => S(s)
  <2> HIDE DEF a, b, c, d, e, f, g, h, s
  <2> QED
    BY <1>0, EightParts
<1> HIDE DEF a, b, c, d, e, f, g, shut, open, s, L, S
<1>12. NifFields = Flags \cup Values \cup Families \cup {"members"}
  BY DEF NifFields
<1>13. ASSUME p.n # n \/ p.of \notin NifFields PROVE L(s)
  <2>1. p.n # n \/ p.of \notin {"exists", "vlan", "hostap", "mtu", "media", "members", "supplicant",
                                "client", "up"} \cup Families
    BY <1>12, <1>13 DEF Flags, Values
  <2> QED
    BY <1>2, <1>3, <1>4, <1>5, <1>6, <1>7, <1>8, <1>9, <1>10, <1>11, <2>1
<1>14. ASSUME p.n = n, p.of \in NifFields, says
       PROVE  (same => L(s)) /\ (~same => S(s))
  <2>0. /\ fresh => oi.mtu = 0 /\ oi.media = None /\ ~oi.shutdown /\ ~oi.dhcp
        /\ Families = {"v4", "v6"}
    BY DEF NewInterface, Families
  <2>1. CASE p.of = "exists"
    <3>1. p.yes /\ (same <=> ~fresh \/ ~IsCloned(n))
      BY <1>14, <2>1 DEF Says
    <3>2. L(a) /\ L(b) /\ L(c) /\ L(d) /\ L(e) /\ L(f) /\ L(g) /\ L(h)
      BY <1>2, <1>3, <1>4, <1>5, <1>6, <1>7, <1>8, <1>9, <1>10, <2>0, <2>1, <3>1
    <3> QED
      BY <1>2, <1>11, <1>14, <2>1, <3>1, <3>2
  <2>2. CASE p.of = "up"
    <3>1. (p.yes <=> ~ni.shutdown) /\ (same <=> (p.yes <=> ~fresh /\ ~oi.shutdown))
      BY <1>14, <2>2 DEF Says
    <3>2. L(a) /\ L(b) /\ L(c) /\ L(d) /\ L(e) /\ L(f) /\ L(g)
      BY <1>2, <1>3, <1>4, <1>5, <1>6, <1>7, <1>8, <2>0, <2>2
    <3> HIDE DEF same
    <3>3. (same => L(h)) /\ (~same => S(h))
      BY <1>9, <1>10, <1>14, <2>2, <3>1
    <3> QED
      BY <1>11, <3>2, <3>3
  <2>3. CASE p.of = "client"
    <3>1. (p.yes <=> ni.dhcp /\ ~ni.shutdown) /\ (same <=> (p.yes <=> oi.dhcp /\ ~fresh /\ ~oi.shutdown))
      BY <1>14, <2>3 DEF Says
    <3>2. L(a) /\ L(b) /\ L(c) /\ L(d) /\ L(e) /\ L(f) /\ L(g)
      BY <1>2, <1>3, <1>4, <1>5, <1>6, <1>7, <1>8, <2>0, <2>3
    <3> HIDE DEF same
    <3>3. (same => L(h)) /\ (~same => S(h))
      BY <1>9, <1>10, <1>14, <2>0, <2>3, <3>1
    <3> QED
      BY <1>11, <3>2, <3>3
  <2>4. CASE p.of = "hostap"
    <3>1. /\ p.yes <=> Kind[n] = "physical" /\ IsAP(ni)
          /\ same <=> (p.yes <=> Kind[n] = "physical" /\ IsAP(oi))
      BY <1>14, <2>4 DEF Says
    <3>2. L(a) /\ L(b) /\ L(d) /\ L(e) /\ L(f) /\ L(g) /\ L(h)
      BY <1>2, <1>3, <1>5, <1>6, <1>7, <1>8, <1>9, <1>10, <2>0, <2>4
    <3> HIDE DEF same, h
    <3>3. (same => L(c)) /\ (~same => S(c))
      BY <1>4, <1>14, <2>4, <3>1
    <3> QED
      BY <1>11, <3>2, <3>3
  <2>5. CASE p.of = "vlan"
    <3>1. p.is = ni.vlan /\ (same <=> p.is = oi.vlan)
      BY <1>14, <2>5 DEF Says
    <3>2. L(a) /\ L(c) /\ L(d) /\ L(e) /\ L(f) /\ L(g) /\ L(h)
      BY <1>2, <1>4, <1>5, <1>6, <1>7, <1>8, <1>9, <1>10, <2>0, <2>5
    <3> HIDE DEF same, h
    <3>3. (same => L(b)) /\ (~same => S(b))
      BY <1>3, <1>14, <2>5, <3>1 DEF Tidy
    <3> QED
      BY <1>11, <3>2, <3>3
  <2>6. CASE p.of = "mtu"
    <3>1. p.is = ni.mtu /\ p.is # 0 /\ (same <=> p.is = oi.mtu)
      BY <1>14, <2>6 DEF Says
    <3>2. L(a) /\ L(b) /\ L(c) /\ L(e) /\ L(f) /\ L(g) /\ L(h)
      BY <1>2, <1>3, <1>4, <1>6, <1>7, <1>8, <1>9, <1>10, <2>0, <2>6
    <3> HIDE DEF same, h
    <3>3. (same => L(d)) /\ (~same => S(d))
      BY <1>5, <1>14, <2>0, <2>6, <3>1
    <3> QED
      BY <1>11, <3>2, <3>3
  <2>7. CASE p.of = "media"
    <3>1. p.is = ni.media /\ p.is # None /\ (same <=> p.is = oi.media)
      BY <1>14, <2>7 DEF Says
    <3>2. L(a) /\ L(b) /\ L(c) /\ L(e) /\ L(f) /\ L(g) /\ L(h)
      BY <1>2, <1>3, <1>4, <1>6, <1>7, <1>8, <1>9, <1>10, <2>0, <2>7
    <3> HIDE DEF same, h
    <3>3. (same => L(d)) /\ (~same => S(d))
      BY <1>5, <1>14, <2>0, <2>7, <3>1
    <3> QED
      BY <1>11, <3>2, <3>3
  <2>8. CASE p.of = "supplicant"
    <3>1. HasWireless(ni) /\ ~ni.shutdown /\ p.is = Supplicant(ni.wireless, newBridge)
      BY <1>14, <2>8 DEF Says
    <3>2. same <=> /\ HasWireless(oi) /\ ~cameUp /\ newBridge = oldBridge
                   /\ p.is = Supplicant(oi.wireless, oldBridge)
      BY <1>14, <2>8 DEF Says
    <3>3. same <=> oi.wireless = ni.wireless /\ newBridge = oldBridge /\ ~cameUp
      <4>1. Supplicant(oi.wireless, oldBridge).wireless = oi.wireless
            /\ Supplicant(ni.wireless, newBridge).wireless = ni.wireless
        BY DEF Supplicant
      <4>2. oi.wireless = ni.wireless => HasWireless(oi)
        BY <3>1 DEF HasWireless
      <4> HIDE DEF same, cameUp
      <4> QED
        BY <3>1, <3>2, <4>1, <4>2
    <3>4. L(a) /\ L(b) /\ L(c) /\ L(d) /\ L(e) /\ L(f) /\ L(g) /\ h = open
      BY <1>2, <1>3, <1>4, <1>5, <1>6, <1>7, <1>8, <2>0, <2>8, <3>1
    <3> HIDE DEF same, h, cameUp
    <3>5. (same => L(h)) /\ (~same => S(h))
      BY <1>10, <1>14, <2>8, <3>1, <3>3, <3>4
    <3> QED
      BY <1>11, <3>4, <3>5
  <2>9. CASE p.of \in Families
    <3> DEFINE old == ToSet(ListOf(oi, p.of))
               new == ToSet(ListOf(ni, p.of))
    <3>1. (p.yes <=> p.is \in new) /\ (same <=> (p.yes <=> p.is \in old))
      BY <1>14, <2>0, <2>9 DEF Says
    <3>2. L(a) /\ L(b) /\ L(c) /\ L(d) /\ L(g) /\ L(h)
      BY <1>2, <1>3, <1>4, <1>5, <1>8, <1>9, <1>10, <2>0, <2>9
    <3>3. \A x \in old : Ip(x) = Ip(p.is) /\ p.is \in old => x = p.is
      BY <1>14, <2>9 DEF Untwinned, Twins
    <3>4. \A x \in new : Ip(x) = Ip(p.is) /\ p.is \in new => x = p.is
      BY <1>14, <2>9 DEF Untwinned, Twins
    <3>5. /\ Fine(e)
          /\ Accords("-alias", old \ new, p) => L(e)
          /\ Accords("-alias", old \ new, p) /\ p.is \in old \ new => S(e)
          /\ Accords("alias", new \ old, p) => L(f)
          /\ Accords("alias", new \ old, p) /\ p.is \in new \ old /\ p.yes => S(f)
      BY <1>6, <1>7, <1>14, <2>9
    <3> HIDE DEF same, h, old, new
    <3>6. Accords("alias", new \ old, p)
      BY <3>1, <3>4 DEF Accords
    <3>7. same \/ ~p.yes => Accords("-alias", old \ new, p)
      BY <3>1, <3>3 DEF Accords
    <3>8. (same => L(e) /\ L(f)) /\ (~same => (Fine(e) /\ S(f)) \/ (S(e) /\ L(f)))
      BY <3>1, <3>5, <3>6, <3>7
    <3> QED
      BY <1>11, <3>2, <3>8
  <2>10. CASE p.of = "members"
    <3>1. p.is \notin ToSet(ni.members) /\ (same <=> p.is \notin ToSet(oi.members))
      BY <1>14, <2>0, <2>10 DEF Says
    <3>2. L(a) /\ L(b) /\ L(c) /\ L(d) /\ L(e) /\ L(f) /\ L(h)
      BY <1>2, <1>3, <1>4, <1>5, <1>6, <1>7, <1>9, <1>10, <2>0, <2>10
    <3>3. Kind[n] # "bridge" => p.is \notin ToSet(oi.members)
      BY NoList DEF Tidy
    <3> HIDE DEF same, h
    <3>4. (same => L(g)) /\ (~same => S(g))
      BY <1>8, <1>14, <2>10, <3>1, <3>3
    <3> QED
      BY <1>11, <3>2, <3>4
  <2> QED
    BY <1>12, <1>14, <2>1, <2>2, <2>3, <2>4, <2>5, <2>6, <2>7, <2>8, <2>9, <2>10 DEF Flags, Values
<1> QED
  BY <1>13, <1>14 DEF s, L, S, Configuring

(* An interface that goes away.                                            *)
LEMMA DestroyOutcome ==
  ASSUME NEW n \in Names, NEW p, IsClaim(p)
  PROVE  LET s == Cmd("destroy", n, None, "missing")
             about == p.n = n /\ p.of \in NifFields \ Lasting
         IN  /\ Fine(s)
             /\ ~about /\ ~(p.of = "vlan" /\ p.is.parent = n) => Leaves(s, p)
             /\ about /\ (p.yes <=> FoundIn(Unconfigured(n), p)) => Leaves(s, p) /\ Settles(s, p)
<1> DEFINE c == [op |-> "destroy", n |-> n, arg |-> None, tol |-> "missing"]
<1>1. c.op = "destroy" /\ c.n = n /\ c.tol = "missing" /\ Cmd("destroy", n, None, "missing") = <<c>>
  BY DEF Cmd
<1> HIDE DEF c
<1>2. Proper(c)
  BY <1>1 DEF Proper, Ops
<1>3. Decides(c, p) <=> \/ p.n = n /\ p.of \in NifFields \ Lasting
                        \/ p.of = "vlan" /\ p.is.parent = n
  BY <1>1 DEF Decides, NifOps, RouteOps, SystemOps, ServerOps
<1>4. Agrees(c, p) <=> (p.yes <=> FoundIn(Unconfigured(n), p))
  BY <1>1 DEF Agrees, ListOps, NifOps
<1>5. "destroy" \in Removals /\ "destroy" # "route add"
  BY DEF Removals
<1>6. /\ Fine(<<c>>)
      /\ ~Spoils(c, p) => Leaves(<<c>>, p)
      /\ Makes(c, p) => Settles(<<c>>, p)
  BY <1>2, OneCommand
<1> QED
  BY <1>1, <1>3, <1>4, <1>5, <1>6 DEF Spoils, Makes

LEMMA RemoveOutcome ==
  ASSUME NEW n \in Names, NEW oi, Tidy(n, oi), NEW p, IsClaim(p)
  PROVE  LET s == RemoveInterface(n, oi) IN
         /\ Fine(s)
         /\ (p.n # n \/ p.of \notin NifFields) /\ (p.of # "vlan" \/ p.is.parent # n)
            => Leaves(s, p)
         /\ p.n = n /\ p.of \in NifFields /\ Void(n, p) =>
              /\ Leaves(s, p)
              /\ \A bridge : ~Says(n, TRUE, oi, bridge, p) => Settles(s, p)
<1> DEFINE stop == When(HasWireless(oi), Cmd("stop", n, None, None))
           quit == When(oi.dhcp, Cmd("dhcpcd -x", n, None, "missing"))
           unalias == Addresses("-alias", n, oi, NewInterface, "missing")
           radio == When(IsAP(oi) /\ oi.wireless.device = None,
                         Cmd("-mediaopt", n, None, "missing"))
           down == Cmd("down", n, None, "missing")
           destroy == Cmd("destroy", n, None, "missing")
           rest == IF IsCloned(n) THEN destroy ELSE unalias \o radio \o down
           s == RemoveInterface(n, oi)
           L(t) == Leaves(t, p)
           S(t) == Settles(t, p)
<1>1. s = stop \o quit \o rest
  BY DEF RemoveInterface
<1>2. Fine(stop) /\ (p.n # n \/ p.of # "supplicant" => L(stop))
  <2>1. /\ Fine(Cmd("stop", n, None, None))
        /\ p.n # n \/ p.of # "supplicant" => L(Cmd("stop", n, None, None))
    BY WipeOutcome
  <2> QED
    BY <2>1, NoCommands DEF When
<1>3. /\ Fine(quit)
      /\ p.n # n \/ p.of # "client" \/ ~p.yes => L(quit)
      /\ p.n = n /\ p.of = "client" /\ ~p.yes /\ oi.dhcp => S(quit)
  <2> DEFINE op == "dhcpcd -x"
             one == Cmd(op, n, None, "missing")
  <2>1. op \in OffOps /\ op \notin OnOps /\ Flag(op) = "client"
    BY DEF OnOps, OffOps, Flag
  <2>2. op \in OnOps \cup OffOps /\ ("missing" = "missing" => op \in OffOps)
    BY <2>1
  <2>3. quit = When(oi.dhcp, one)
    OBVIOUS
  <2>4. one = Cmd(op, n, None, "missing")
    OBVIOUS
  <2> HIDE DEF op, one, quit
  <2>5. /\ Fine(one)
        /\ p.n # n \/ p.of # "client" \/ ~p.yes => L(one)
        /\ p.n = n /\ p.of = "client" /\ ~p.yes => S(one)
    BY <2>1, <2>2, <2>4, FlagOutcome
  <2> QED
    BY <2>3, <2>5, NoCommands DEF When
<1>4. LET about == p.n = n /\ p.of \in Families
      IN  /\ Fine(unalias)
          /\ ~about \/ ~p.yes => L(unalias)
          /\ about /\ p.is \in ToSet(ListOf(oi, p.of)) /\ ~p.yes => S(unalias)
  <2>1. \A family : ToSet(ListOf(NewInterface, family)) = {}
    BY NoList DEF ListOf, NewInterface
  <2>2. IsInterface(oi)
    BY DEF Tidy
  <2>3. LET about == p.n = n /\ p.of \in Families
            those == ToSet(ListOf(oi, p.of)) \ ToSet(ListOf(NewInterface, p.of))
        IN  /\ Fine(unalias)
            /\ ~about \/ Accords("-alias", those, p) => L(unalias)
            /\ about /\ Accords("-alias", those, p) /\ p.is \in those => S(unalias)
    BY <2>2, AddressesOutcome
  <2>4. ~p.yes => \A those : Accords("-alias", those, p)
    BY DEF Accords
  <2> QED
    BY <2>1, <2>3, <2>4
<1>5. /\ Fine(radio)
      /\ p.n # n \/ p.of # "hostap" \/ ~p.yes => L(radio)
      /\ p.n = n /\ p.of = "hostap" /\ ~p.yes /\ IsAP(oi) /\ oi.wireless.device = None => S(radio)
  <2> DEFINE op == "-mediaopt"
             one == Cmd(op, n, None, "missing")
  <2>1. op \in OffOps /\ op \notin OnOps /\ Flag(op) = "hostap"
    BY DEF OnOps, OffOps, Flag
  <2>2. op \in OnOps \cup OffOps /\ ("missing" = "missing" => op \in OffOps)
    BY <2>1
  <2>3. radio = When(IsAP(oi) /\ oi.wireless.device = None, one)
    OBVIOUS
  <2>4. one = Cmd(op, n, None, "missing")
    OBVIOUS
  <2> HIDE DEF op, one, radio
  <2>5. /\ Fine(one)
        /\ p.n # n \/ p.of # "hostap" \/ ~p.yes => L(one)
        /\ p.n = n /\ p.of = "hostap" /\ ~p.yes => S(one)
    BY <2>1, <2>2, <2>4, FlagOutcome
  <2> QED
    BY <2>3, <2>5, NoCommands DEF When
<1>6. /\ Fine(down)
      /\ p.n # n \/ p.of # "up" \/ ~p.yes => L(down)
      /\ p.n = n /\ p.of = "up" /\ ~p.yes => S(down)
  <2> DEFINE op == "down"
             one == Cmd(op, n, None, "missing")
  <2>1. op \in OffOps /\ op \notin OnOps /\ Flag(op) = "up"
    BY DEF OnOps, OffOps, Flag
  <2>2. op \in OnOps \cup OffOps /\ ("missing" = "missing" => op \in OffOps)
    BY <2>1
  <2>4. one = Cmd(op, n, None, "missing") /\ down = one
    OBVIOUS
  <2> HIDE DEF op, one, down
  <2> QED
    BY <2>1, <2>2, <2>4, FlagOutcome
<1>7. LET about == p.n = n /\ p.of \in NifFields \ Lasting
      IN  /\ Fine(destroy)
          /\ ~about /\ ~(p.of = "vlan" /\ p.is.parent = n) => L(destroy)
          /\ about /\ (p.yes <=> FoundIn(Unconfigured(n), p)) => L(destroy) /\ S(destroy)
  BY DestroyOutcome
<1> HIDE DEF stop, quit, unalias, radio, down, destroy, s
<1>8. /\ \A t, u : L(t) /\ L(u) => L(t \o u)
      /\ \A t, u : S(t) /\ L(u) => S(t \o u)
      /\ \A t, u : Fine(t) /\ S(u) => S(t \o u)
      /\ \A t, u : Fine(t) /\ Fine(u) => Fine(t \o u)
      /\ \A t : L(t) => Fine(t)
      /\ \A t : S(t) => Fine(t)
  BY Composing
<1> HIDE DEF L, S
<1>9. ASSUME ~IsCloned(n), ~p.yes \/ p.n # n \/ p.of \notin NifFields
      PROVE  L(rest)
  <2>1. p.n # n \/ ~p.yes \/ p.of \notin {"up", "hostap"} \cup Families
    BY <1>9 DEF NifFields, Flags
  <2>2. L(unalias) /\ L(radio) /\ L(down)
    BY <1>4, <1>5, <1>6, <2>1
  <2> QED
    BY <1>8, <1>9, <2>2
<1>10. Fine(s)
  <2>1. Fine(rest)
    <3>1. CASE IsCloned(n)
      BY <1>7, <3>1
    <3>2. CASE ~IsCloned(n)
      BY <1>4, <1>5, <1>6, <1>8, <3>2
    <3> QED
      BY <3>1, <3>2
  <2> HIDE DEF rest
  <2> QED
    BY <1>1, <1>2, <1>3, <1>8, <2>1
<1>11. ASSUME p.n # n \/ p.of \notin NifFields, p.of # "vlan" \/ p.is.parent # n
       PROVE  L(s)
  <2>1. L(rest)
    BY <1>7, <1>9, <1>11
  <2>2. p.n # n \/ p.of \notin {"supplicant", "client"}
    BY <1>11 DEF NifFields, Flags, Values
  <2> HIDE DEF rest
  <2> QED
    BY <1>1, <1>2, <1>3, <1>8, <2>1, <2>2
<1>12. ASSUME p.n = n, p.of \in NifFields, Void(n, p), NEW bridge
       PROVE  L(s) /\ (~Says(n, TRUE, oi, bridge, p) => S(s))
  <2>0. /\ NewInterface.vlan = NoVLAN /\ NewInterface.mtu = 0 /\ NewInterface.media = None
        /\ ~NewInterface.dhcp /\ NewInterface.wireless = NoWireless
        /\ NewInterface.ipv4 = <<>> /\ NewInterface.ipv6 = <<>>
        /\ ~IsAP(NewInterface) /\ NoVLAN.parent # n
    BY DocumentAssumption DEF NewInterface, IsAP, NoWireless, NoVLAN
  <2>1. p.of \in {"exists", "up", "client", "hostap", "vlan", "members"} \cup Families
    <3>1. p.of # "mtu" /\ p.of # "media" /\ p.of # "supplicant"
      BY <1>12, <2>0 DEF Void, Says
    <3> QED
      BY <1>12, <3>1 DEF NifFields, Flags, Values
  <2>2. L(stop)
    BY <1>2, <2>1 DEF Families
  <2>3. CASE p.of = "client"
    <3>1. ~p.yes /\ (Says(n, TRUE, oi, bridge, p) <=> ~(oi.dhcp /\ ~oi.shutdown))
      BY <1>12, <2>0, <2>3 DEF Void, Says
    <3>2. L(rest)
      BY <1>7, <1>9, <2>3, <3>1 DEF Lasting
    <3> HIDE DEF rest
    <3> QED
      BY <1>1, <1>2, <1>3, <1>8, <1>12, <2>2, <2>3, <3>1, <3>2
  <2>4. CASE p.of # "client"
    <3>1. L(quit)
      BY <1>3, <2>4
    <3>2. SUFFICES L(rest) /\ (~Says(n, TRUE, oi, bridge, p) => S(rest))
      <4> HIDE DEF rest
      <4> QED
        BY <1>1, <1>2, <1>3, <1>8, <2>2, <3>1, <3>2
    <3>3. CASE IsCloned(n)
      <4>1. p.of \in NifFields \ Lasting
        BY <1>12, <2>1, <2>4 DEF Lasting, Families
      <4>2. p.yes <=> FoundIn(Unconfigured(n), p)
        <5>1. CASE p.of \in {"exists", "up", "hostap"}
          <6>1. Kind[n] # "physical"
            BY <3>3 DEF IsCloned
          <6>2. ~p.yes
            BY <1>12, <2>0, <3>3, <5>1, <6>1 DEF Void, Says
          <6>3. p.is = TRUE
            BY <5>1 DEF IsClaim, Flags
          <6>4. FoundIn(Unconfigured(n), p) <=> Unconfigured(n)[p.of] = TRUE
            BY <5>1, <6>3 DEF FoundIn, Flags
          <6> QED
            BY <5>1, <6>2, <6>4 DEF Unconfigured
        <5>2. CASE p.of = "vlan"
          <6>1. p.yes /\ p.is = NoVLAN
            BY <1>12, <2>0, <5>2 DEF Void, Says, IsClaim, Values
          <6> QED
            BY <5>2, <6>1 DEF FoundIn, Unconfigured, Values
        <5>3. CASE p.of \in Families
          <6>1. ~p.yes
            BY <1>12, <2>0, <5>3, NoList DEF Void, Says, Families, ListOf
          <6>2. FoundIn(Unconfigured(n), p) <=> p.is \in ToSet(Unconfigured(n)[p.of])
            BY <5>3 DEF FoundIn, Families, Flags, Values
          <6>3. Unconfigured(n)[p.of] = <<>>
            BY <5>3 DEF Unconfigured, Families
          <6> QED
            BY <6>1, <6>2, <6>3, NoList
        <5>4. CASE p.of = "members"
          <6>1. ~p.yes
            BY <5>4 DEF IsClaim
          <6> QED
            BY <5>4, <6>1 DEF FoundIn, Unconfigured, Families, Flags, Values
        <5> QED
          BY <2>1, <2>4, <5>1, <5>2, <5>3, <5>4
      <4> QED
        BY <1>7, <1>12, <3>3, <4>1, <4>2
    <3>4. CASE ~IsCloned(n)
      <4>0. Kind[n] # "vlan" /\ Kind[n] # "bridge"
        BY <3>4 DEF IsCloned
      <4>1. CASE p.of = "exists"
        <5>1. p.yes /\ Says(n, TRUE, oi, bridge, p)
          BY <1>12, <3>4, <4>1 DEF Void, Says
        <5>2. L(unalias) /\ L(radio) /\ L(down)
          BY <1>4, <1>5, <1>6, <4>1 DEF Families
        <5> QED
          BY <1>8, <3>4, <5>1, <5>2
      <4>2. CASE p.of = "up"
        <5>1. ~p.yes
          BY <1>12, <4>2 DEF Void, Says
        <5>2. L(unalias) /\ L(radio) /\ L(down) /\ S(down)
          BY <1>4, <1>5, <1>6, <1>12, <4>2, <5>1 DEF Families
        <5> QED
          BY <1>8, <3>4, <5>2
      <4>3. CASE p.of = "hostap"
        <5>1. ~p.yes /\ (Says(n, TRUE, oi, bridge, p) <=> ~(Kind[n] = "physical" /\ IsAP(oi)))
          BY <1>12, <2>0, <4>3 DEF Void, Says
        <5>2. L(unalias) /\ L(radio) /\ L(down)
          BY <1>4, <1>5, <1>6, <4>3, <5>1 DEF Families
        <5>3. ~Says(n, TRUE, oi, bridge, p) => S(radio)
          BY <1>5, <1>12, <4>3, <5>1 DEF Tidy
        <5> QED
          BY <1>8, <3>4, <5>2, <5>3
      <4>4. CASE p.of = "vlan"
        <5>1. Says(n, TRUE, oi, bridge, p)
          BY <1>12, <2>0, <4>0, <4>4 DEF Void, Says, Tidy
        <5>2. L(unalias) /\ L(radio) /\ L(down)
          BY <1>4, <1>5, <1>6, <4>4 DEF Families
        <5> QED
          BY <1>8, <3>4, <5>1, <5>2
      <4>5. CASE p.of = "members"
        <5>1. Says(n, TRUE, oi, bridge, p)
          BY <4>0, <4>5, NoList DEF Says, Tidy, Families
        <5>2. L(unalias) /\ L(radio) /\ L(down)
          BY <1>4, <1>5, <1>6, <4>5 DEF Families
        <5> QED
          BY <1>8, <3>4, <5>1, <5>2
      <4>6. CASE p.of \in Families
        <5>1. ~p.yes /\ (Says(n, TRUE, oi, bridge, p) <=> p.is \notin ToSet(ListOf(oi, p.of)))
          BY <1>12, <2>0, <4>6, NoList DEF Void, Says, Families, ListOf
        <5>2. L(unalias) /\ L(radio) /\ L(down) /\ (~Says(n, TRUE, oi, bridge, p) => S(unalias))
          BY <1>4, <1>5, <1>6, <1>12, <4>6, <5>1 DEF Families
        <5> QED
          BY <1>8, <3>4, <5>2
      <4> QED
        BY <2>1, <2>4, <4>1, <4>2, <4>3, <4>4, <4>5, <4>6
    <3> QED
      BY <3>3, <3>4
  <2> QED
    BY <2>3, <2>4
<1>13. ASSUME p.n = n, p.of \in NifFields, Void(n, p)
       PROVE  L(s) /\ \A bridge : ~Says(n, TRUE, oi, bridge, p) => S(s)
  BY <1>12, <1>13
<1> QED
  BY <1>10, <1>11, <1>13 DEF s, L, S

-----------------------------------------------------------------------------
(* What a document claims, and what does not change from one to another.   *)

Forced == {"forward", "forward6", "rules", "rulesOnDisk", "dhcpd"}

Claimed(c, p) ==
  IF p.of \in NifFields
  THEN Says(p.n, p.n \in Configured(c), InterfaceOf(c, p.n), BridgeOf(c, p.n), p)
  ELSE IF p.of = "routes" THEN ~\E r \in ToSet(c.routes) : r.prefix = p.n /\ r.nexthop = p.is
  ELSE IF p.of = "hostname" THEN c.hostname # None /\ p.is = c.hostname
  ELSE IF p.of = "resolv"
       THEN c.servers # <<>> /\ p.is = [domain |-> c.domain, servers |-> c.servers]
  ELSE IF p.of = "forward" THEN p.is = c.routing
  ELSE IF p.of = "forward6" THEN p.is = c.routing6
  ELSE IF p.of = "dhcpd" THEN p.is = Serving(c)
  ELSE p.is = RuleSet(c)

Again(o, e, n) ==
  n \in Configured(o) \cap Configured(e) /\ Recreated(n, o.interfaces[n], e.interfaces[n])

Alike(o, e, p) ==
  /\ Claimed(o, p) /\ Claimed(e, p)
  /\ p.of \in NifFields /\ Again(o, e, p.n) => Void(p.n, p)
  /\ p.of = "supplicant" => BridgeOf(o, p.n) = BridgeOf(e, p.n)
  /\ p.of = "dhcpd" => DhcpdConf(o) = DhcpdConf(e)

Sound(c) ==
  /\ Grounded(c)
  /\ \A n \in Configured(c) : /\ Tidy(n, c.interfaces[n])
                              /\ Kind[n] = "vlan" => c.interfaces[n].vlan # NoVLAN
  /\ \A n \in Names : TwinFree(n) =>
       \A family \in Families : ~Twins(ListOf(InterfaceOf(c, n), family))

LEMMA NewIsTidy == \A n : Tidy(n, NewInterface)
BY NewInterfaceIsOne DEF Tidy, NewInterface, NoWireless

LEMMA NewHasNoTwins == \A family : ~Twins(ListOf(NewInterface, family))
BY NoList DEF Twins, ListOf, NewInterface

(* What the applier makes of a valid document.                             *)
LEMMA EffectiveIsSound ==
  ASSUME NEW d \in Documents
  PROVE  Sound(Effective(d))
<1> DEFINE e == Effective(d)
<1>1. IsDocument(d) /\ Configured(d) \subseteq Names /\ Validate(d)
  BY ApplierAssumption
<1>2. Configured(e) = Remaining(d) /\ Remaining(d) \subseteq Configured(d)
  BY <1>1, EffectiveParts DEF Remaining
<1>3. ASSUME NEW n \in Remaining(d)
      PROVE  Tidy(n, e.interfaces[n]) /\ (Kind[n] = "vlan" => e.interfaces[n].vlan # NoVLAN)
  <2> DEFINE old == d.interfaces[n]
             new == e.interfaces[n]
  <2>1. /\ IsInterface(old) /\ IsInterface(new) /\ new.vlan = old.vlan
        /\ new.members = Only(old.members, Remaining(d))
        /\ new.wireless \in {old.wireless, NoWireless}
    BY <1>1, EffectiveInterface
  <2>2. ValidInterface(d, n)
    BY <1>1, <1>2 DEF Validate
  <2>3. Kind[n] # "vlan" => old.vlan = NoVLAN
    BY <2>2 DEF ValidInterface
  <2>4. Kind[n] = "vlan" => old.vlan # NoVLAN
    BY <2>2 DEF ValidInterface
  <2>5. Kind[n] # "bridge" => old.members = <<>>
    BY <2>2 DEF ValidInterface
  <2>6. Only(<<>>, Remaining(d)) = <<>>
    <3> DEFINE s == Only(<<>>, Remaining(d))
    <3>1. IsList(s) /\ ToSet(s) = {}
      BY NoList, ListOnly
    <3> HIDE DEF s
    <3>2. s \in Seq({})
      BY <3>1, ListFacts
    <3> QED
      BY <3>2 DEF s
  <2>7. Kind[n] = "physical" => new.wireless.device = None
    BY <2>1, <2>2 DEF ValidInterface, NoWireless
  <2> QED
    BY <2>1, <2>3, <2>4, <2>5, <2>6, <2>7 DEF Tidy
<1>4. Grounded(e)
  BY EffectiveIsGrounded
<1>5. ASSUME NEW n \in Names, TwinFree(n), NEW family \in Families
      PROVE  ~Twins(ListOf(InterfaceOf(e, n), family))
  <2>1. CASE n \in Remaining(d)
    <3>1. /\ InterfaceOf(e, n).ipv4 = InterfaceOf(d, n).ipv4
          /\ InterfaceOf(e, n).ipv6 = InterfaceOf(d, n).ipv6
      BY <1>1, <1>2, <2>1, EffectiveInterface DEF InterfaceOf
    <3> QED
      BY <1>5, <3>1 DEF TwinFree, ListOf
  <2>2. CASE n \notin Remaining(d)
    <3>1. InterfaceOf(e, n) = NewInterface
      BY <1>2, <2>2 DEF InterfaceOf
    <3> QED
      BY <3>1, NewHasNoTwins
  <2> QED
    BY <2>1, <2>2
<1> QED
  BY <1>2, <1>3, <1>4, <1>5 DEF Sound

LEMMA BlankIsSound == Sound(Blank)
<1>1. \A n : InterfaceOf(Blank, n) = NewInterface
  BY BlankIsSettled DEF InterfaceOf
<1> QED
  BY <1>1, BlankIsGrounded, BlankIsSettled, NewHasNoTwins DEF Sound

LEMMA InterfaceIsTidy ==
  ASSUME NEW c, Sound(c), NEW n
  PROVE  Tidy(n, InterfaceOf(c, n))
BY NewIsTidy DEF Sound, InterfaceOf

(* No vlan is on an interface that goes away.                              *)
LEMMA ParentsRemain ==
  ASSUME NEW c, Sound(c), NEW p, IsClaim(p), Claimed(c, p), p.of = "vlan",
         NEW n \in Names, Kind[n] = "wlan" \/ n \notin Configured(c)
  PROVE  p.is.parent # n
<1>1. p.is = InterfaceOf(c, p.n).vlan
  BY DEF Claimed, Says, NifFields, Values
<1>2. NoVLAN.parent # n
  BY DocumentAssumption DEF NoVLAN
<1>3. CASE p.n \in Configured(c)
  BY <1>1, <1>2, <1>3 DEF InterfaceOf, Sound, Grounded
<1>4. CASE p.n \notin Configured(c)
  BY <1>1, <1>2, <1>4 DEF InterfaceOf, NewInterface
<1> QED
  BY <1>3, <1>4

(* An interface of the new document.                                       *)
LEMMA ConfigureInterfaceOutcome ==
  ASSUME NEW o, Sound(o), NEW e, Sound(e), NEW n \in Configured(e),
         NEW p, IsClaim(p), Claimed(e, p)
  PROVE  LET s == ConfigureInterface(n, o, e) IN
         /\ Fine(s)
         /\ p.n # n \/ p.of \notin NifFields => Leaves(s, p)
         /\ p.n = n /\ p.of \in NifFields => Outcome(s, p, Alike(o, e, p))
<1> DEFINE ni == e.interfaces[n]
           oi == InterfaceOf(o, n)
           again == n \in Configured(o) /\ Recreated(n, oi, ni)
           fresh == again \/ n \notin Configured(o)
           from == IF fresh THEN NewInterface ELSE oi
           new == BridgeOf(e, n)
           old == BridgeOf(o, n)
           remove == RemoveInterface(n, oi)
           configure == Configure(n, from, ni, fresh, new, old)
           s == ConfigureInterface(n, o, e)
           about == p.n = n /\ p.of \in NifFields
           same == /\ Says(n, ~fresh, from, old, p)
                   /\ p.of = "supplicant" => new = old
           L(t) == Leaves(t, p)
           S(t) == Settles(t, p)
<1>1. s = When(again, remove) \o configure
  BY DEF ConfigureInterface
<1>2. /\ n \in Names /\ Tidy(n, ni) /\ Tidy(n, oi) /\ Tidy(n, from)
      /\ Kind[n] = "vlan" => ni.vlan # NoVLAN
  BY NewIsTidy, InterfaceIsTidy DEF Sound, Grounded
<1>13. p.n = n => Untwinned(ni, p) /\ Untwinned(from, p)
  BY <1>2, NewHasNoTwins DEF Sound, IsClaim, Untwinned, InterfaceOf
<1>3. fresh \in BOOLEAN /\ (fresh => from = NewInterface)
  OBVIOUS
<1>4. again <=> Again(o, e, n)
  BY DEF Again, InterfaceOf
<1>5. InterfaceOf(e, n) = ni
  BY DEF InterfaceOf
<1> HIDE DEF ni, oi, from, new, old, fresh
<1>6. about => Says(n, TRUE, ni, new, p)
  BY <1>5 DEF Claimed, Says, new
<1>7. /\ ~about => L(configure)
      /\ about => (same => L(configure)) /\ (~same => S(configure))
  <2>1. CASE fresh
    <3>1. configure = Configure(n, from, ni, TRUE, new, old)
      BY <2>1
    <3>2. Configuring(n, from, ni, TRUE, new, old, p)
      BY <1>2, <1>3, <1>13, <2>1, ConfigureOutcome
    <3>3. same <=> Says(n, ~TRUE, from, old, p) /\ (p.of = "supplicant" => new = old)
      BY <2>1 DEF Says
    <3> HIDE DEF configure, same
    <3> QED
      BY <1>6, <3>1, <3>2, <3>3 DEF Configuring
  <2>2. CASE ~fresh
    <3>1. configure = Configure(n, from, ni, FALSE, new, old)
      BY <1>3, <2>2
    <3>2. Configuring(n, from, ni, FALSE, new, old, p)
      BY <1>2, <1>3, <1>13, <2>2, ConfigureOutcome
    <3>3. same <=> Says(n, ~FALSE, from, old, p) /\ (p.of = "supplicant" => new = old)
      BY <2>2 DEF Says
    <3> HIDE DEF configure, same
    <3> QED
      BY <1>6, <3>1, <3>2, <3>3 DEF Configuring
  <2> QED
    BY <2>1, <2>2
<1>8. /\ L(<<>>)
      /\ \A t, u : L(t) /\ L(u) => L(t \o u)
      /\ \A t, u : S(t) /\ L(u) => S(t \o u)
      /\ \A t, u : Fine(t) /\ S(u) => S(t \o u)
      /\ \A t : L(t) => Fine(t)
      /\ \A t : S(t) => Fine(t)
  BY Composing
<1>9. CASE again
  <2>1. fresh /\ from = NewInterface /\ n \in Configured(o) /\ Kind[n] = "wlan"
    BY <1>9 DEF fresh, from, Recreated
  <2>2. p.of = "vlan" => p.is.parent # n
    BY <1>2, <2>1, ParentsRemain
  <2>3. /\ Fine(remove)
        /\ ~about => L(remove)
        /\ about /\ Void(n, p) => /\ L(remove)
                                  /\ ~Says(n, TRUE, oi, old, p) => S(remove)
    BY <1>2, <2>2, RemoveOutcome
  <2>4. s = remove \o configure
    BY <1>1, <1>9 DEF When
  <2>5. about => (same <=> Void(n, p))
    BY <2>1 DEF Says, Void
  <2>6. about => (Alike(o, e, p) <=> Void(n, p) /\ Says(n, TRUE, oi, old, p))
    <3>1. about => (Claimed(o, p) <=> Says(n, TRUE, oi, old, p))
      BY <2>1 DEF Claimed, Says, oi, old
    <3>2. about => p.of # "dhcpd"
      BY DEF NifFields, Flags, Values, Families
    <3>3. Void(n, p) /\ about => p.of # "supplicant"
      BY DEF Void, Says
    <3> QED
      BY <1>4, <1>9, <3>1, <3>2, <3>3 DEF Alike
  <2> HIDE DEF remove, configure, s, same, L, S, about
  <2>7. ~about => L(s)
    BY <1>7, <1>8, <2>3, <2>4
  <2>8. about => (Alike(o, e, p) => L(s)) /\ (~Alike(o, e, p) => S(s))
    BY <1>7, <1>8, <2>3, <2>4, <2>5, <2>6
  <2>9. Fine(s)
    BY <1>8, <2>7, <2>8
  <2> QED
    BY <2>7, <2>8, <2>9 DEF about, s, L, S, Outcome
<1>10. CASE ~again
  <2>1. (fresh <=> n \notin Configured(o)) /\ from = oi
    BY <1>10 DEF fresh, from, oi, InterfaceOf
  <2>2. When(again, remove) = <<>>
    BY <1>10 DEF When
  <2>3. about => (same <=> Alike(o, e, p))
    <3>1. CASE fresh
      <4>1. about => (Claimed(o, p) <=> Says(n, FALSE, oi, old, p))
        BY <2>1, <3>1 DEF Claimed, Says, oi, old
      <4>2. Says(n, ~fresh, from, old, p) <=> Says(n, FALSE, oi, old, p)
        BY <2>1, <3>1 DEF Says
      <4>3. about => p.of # "dhcpd"
        BY DEF NifFields, Flags, Values, Families
      <4> QED
        BY <1>4, <1>10, <4>1, <4>2, <4>3 DEF Alike, new, old
    <3>2. CASE ~fresh
      <4>1. about => (Claimed(o, p) <=> Says(n, TRUE, oi, old, p))
        BY <2>1, <3>2 DEF Claimed, Says, oi, old
      <4>2. Says(n, ~fresh, from, old, p) <=> Says(n, TRUE, oi, old, p)
        BY <2>1, <3>2 DEF Says
      <4>3. about => p.of # "dhcpd"
        BY DEF NifFields, Flags, Values, Families
      <4> QED
        BY <1>4, <1>10, <4>1, <4>2, <4>3 DEF Alike, new, old
    <3> QED
      BY <3>1, <3>2
  <2> HIDE DEF remove, configure, s, same, L, S, about
  <2>4. /\ L(configure) => L(s)
        /\ S(configure) => S(s)
    BY <1>1, <1>8, <2>2
  <2>5. Fine(s)
    BY <1>7, <1>8, <2>4
  <2> QED
    BY <1>7, <2>3, <2>4, <2>5 DEF about, s, L, S, Outcome
<1> QED
  BY <1>9, <1>10

(* An interface that one document has and the other has not.               *)
LEMMA RemovedOutcome ==
  ASSUME NEW o, Sound(o), NEW e, Sound(e), NEW n \in Configured(o) \ Configured(e),
         NEW p, IsClaim(p), Claimed(e, p)
  PROVE  LET s == RemoveInterface(n, o.interfaces[n]) IN
         /\ Leaves(s, p)
         /\ p.n = n /\ p.of \in NifFields /\ ~Claimed(o, p) => Settles(s, p)
<1> DEFINE oi == o.interfaces[n]
           s == RemoveInterface(n, oi)
           about == p.n = n /\ p.of \in NifFields
<1>1. n \in Names /\ Tidy(n, oi)
  BY DEF Sound, Grounded
<1>2. p.of = "vlan" => p.is.parent # n
  BY <1>1, ParentsRemain
<1>3. about => Void(n, p)
  BY DEF Claimed, Says, Void, InterfaceOf
<1>4. about => (Claimed(o, p) <=> Says(n, TRUE, oi, BridgeOf(o, n), p))
  BY DEF Claimed, Says, InterfaceOf
<1> HIDE DEF oi
<1>5. /\ ~about => Leaves(s, p)
      /\ about /\ Void(n, p) => /\ Leaves(s, p)
                                /\ ~Says(n, TRUE, oi, BridgeOf(o, n), p) => Settles(s, p)
  BY <1>1, <1>2, RemoveOutcome
<1> HIDE DEF s, about
<1>6. Leaves(s, p) /\ (about /\ ~Claimed(o, p) => Settles(s, p))
  BY <1>3, <1>4, <1>5
<1> QED
  BY <1>6 DEF s, about, oi

(* All that go away, and all that are configured.                          *)
LEMMA RemovalsOutcome ==
  ASSUME NEW o, Sound(o), NEW e, Sound(e), NEW p, IsClaim(p), Claimed(e, p)
  PROVE  LET removed == Only(Reverse(InterfaceNames(o)), Configured(o) \ Configured(e))
             s == FlattenSeq([i \in DOMAIN removed |->
                                RemoveInterface(removed[i], o.interfaces[removed[i]])])
         IN  /\ Leaves(s, p)
             /\ /\ p.of \in NifFields /\ p.n \in Configured(o) \ Configured(e)
                /\ ~Claimed(o, p)
                => Settles(s, p)
<1> DEFINE removed == Only(Reverse(InterfaceNames(o)), Configured(o) \ Configured(e))
           f == [i \in DOMAIN removed |-> RemoveInterface(removed[i], o.interfaces[removed[i]])]
           gone == Configured(o) \ Configured(e)
<1>1. IsList(removed) /\ ToSet(removed) = gone
  <2> DEFINE names == InterfaceNames(o)
  <2>1. IsList(names) /\ ToSet(names) = Configured(o)
    BY NamesAreInOrder DEF InOrder, Sound, Grounded
  <2> HIDE DEF names
  <2>2. IsList(Reverse(names)) /\ ToSet(Reverse(names)) = Configured(o)
    BY <2>1, ReverseIsList, ReverseKeeps
  <2>3. IsList(Only(Reverse(names), gone))
        /\ ToSet(Only(Reverse(names), gone)) = Configured(o) \cap gone
    BY <2>2, ListOnly
  <2> QED
    BY <2>3 DEF names
<1> HIDE DEF removed
<1>2. \A i \in DOMAIN removed :
        /\ Leaves(f[i], p)
        /\ p.n = removed[i] /\ p.of \in NifFields /\ ~Claimed(o, p) => Settles(f[i], p)
  <2> SUFFICES ASSUME NEW i \in DOMAIN removed
               PROVE  LET s == RemoveInterface(removed[i], o.interfaces[removed[i]]) IN
                      /\ Leaves(s, p)
                      /\ p.n = removed[i] /\ p.of \in NifFields /\ ~Claimed(o, p) => Settles(s, p)
    OBVIOUS
  <2>1. removed[i] \in gone
    BY <1>1 DEF ToSet
  <2> QED
    BY <2>1, RemovedOutcome
<1>3. f = [i \in DOMAIN removed |-> f[i]]
  OBVIOUS
<1> HIDE DEF f, gone
<1>4. \A i \in DOMAIN removed : Fine(f[i])
  BY <1>2 DEF Leaves
<1>5. /\ \A q : (\A i \in DOMAIN removed : Leaves(f[i], q)) => Leaves(FlattenSeq(f), q)
      /\ \A q : \A m \in DOMAIN removed :
           Settles(f[m], q) /\ (\A i \in DOMAIN removed : Leaves(f[i], q))
           => Settles(FlattenSeq(f), q)
  BY <1>1, <1>3, <1>4, EachOutcome
<1>6. Leaves(FlattenSeq(f), p)
  BY <1>2, <1>5
<1>7. ASSUME p.of \in NifFields, p.n \in gone, ~Claimed(o, p)
      PROVE  Settles(FlattenSeq(f), p)
  <2>1. PICK m \in DOMAIN removed : removed[m] = p.n
    BY <1>1, <1>7 DEF ToSet
  <2>2. Settles(f[m], p)
    BY <1>2, <1>7, <2>1
  <2> QED
    BY <1>2, <1>5, <2>2
<1> QED
  BY <1>6, <1>7 DEF f, gone, removed

LEMMA ConfigurationsOutcome ==
  ASSUME NEW o, Sound(o), NEW e, Sound(e), NEW p, IsClaim(p), Claimed(e, p)
  PROVE  LET order == InterfaceNames(e)
             s == FlattenSeq([i \in DOMAIN order |-> ConfigureInterface(order[i], o, e)])
         IN  /\ Fine(s)
             /\ p.of \notin NifFields \/ p.n \notin Configured(e) => Leaves(s, p)
             /\ p.of \in NifFields /\ p.n \in Configured(e) => Outcome(s, p, Alike(o, e, p))
<1> DEFINE order == InterfaceNames(e)
           f == [i \in DOMAIN order |-> ConfigureInterface(order[i], o, e)]
           k == Len(order)
<1>1. /\ IsList(order) /\ ToSet(order) = Configured(e)
      /\ \A i \in 1 .. k : {order[j] : j \in 1 .. i - 1}
                             = {m \in Configured(e) : Precedes(m, order[i])}
  BY NamesAreInOrder DEF InOrder, Sound, Grounded
<1> HIDE DEF order
<1>2. k \in Nat /\ DOMAIN order = 1 .. k /\ ToSet(order) = {order[i] : i \in 1 .. k}
  BY <1>1, ListFacts
<1>3. \A i \in 1 .. k :
        /\ Fine(f[i])
        /\ p.n # order[i] \/ p.of \notin NifFields => Leaves(f[i], p)
        /\ p.n = order[i] /\ p.of \in NifFields => Outcome(f[i], p, Alike(o, e, p))
  <2> SUFFICES ASSUME NEW i \in 1 .. k
               PROVE  LET s == ConfigureInterface(order[i], o, e) IN
                      /\ Fine(s)
                      /\ p.n # order[i] \/ p.of \notin NifFields => Leaves(s, p)
                      /\ p.n = order[i] /\ p.of \in NifFields => Outcome(s, p, Alike(o, e, p))
    BY <1>2
  <2>1. order[i] \in Configured(e)
    BY <1>1, <1>2
  <2> QED
    BY <2>1, ConfigureInterfaceOutcome
<1>4. f = [i \in 1 .. k |-> f[i]]
  BY <1>2
<1> HIDE DEF f
<1>5. /\ Fine(FlattenSeq(f))
      /\ \A q : (\A i \in 1 .. k : Leaves(f[i], q)) => Leaves(FlattenSeq(f), q)
      /\ \A q : \A m \in 1 .. k :
           Settles(f[m], q) /\ (\A i \in m + 1 .. k : Leaves(f[i], q)) => Settles(FlattenSeq(f), q)
  BY <1>2, <1>3, <1>4, AllAreFine
<1>6. ASSUME p.of \notin NifFields \/ p.n \notin Configured(e) PROVE Leaves(FlattenSeq(f), p)
  <2>1. \A i \in 1 .. k : Leaves(f[i], p)
    BY <1>1, <1>2, <1>3, <1>6
  <2> QED
    BY <1>5, <2>1
<1>7. ASSUME p.of \in NifFields, p.n \in Configured(e)
      PROVE  Outcome(FlattenSeq(f), p, Alike(o, e, p))
  <2>1. CASE Alike(o, e, p)
    <3>1. \A i \in 1 .. k : Leaves(f[i], p)
      BY <1>3, <1>7, <2>1 DEF Outcome
    <3> QED
      BY <1>5, <2>1, <3>1 DEF Outcome
  <2>2. CASE ~Alike(o, e, p)
    <3>1. PICK m \in 1 .. k : order[m] = p.n
      BY <1>1, <1>2, <1>7
    <3>2. Settles(f[m], p)
      BY <1>3, <1>7, <2>2, <3>1 DEF Outcome
    <3>3. ASSUME NEW i \in m + 1 .. k PROVE Leaves(f[i], p)
      <4>1. i \in 1 .. k /\ m \in 1 .. i - 1
        BY <1>2
      <4>2. order[m] \in {order[j] : j \in 1 .. i - 1}
        BY <4>1
      <4>3. Precedes(order[m], order[i])
        BY <1>1, <4>1, <4>2
      <4>4. order[m] \in Names
        BY <1>7, <3>1 DEF Sound, Grounded
      <4>5. order[i] # order[m]
        BY <4>3, <4>4, DocumentAssumption DEF Precedes, KindOrder
      <4> QED
        BY <1>3, <3>1, <4>1, <4>5
    <3>4. Settles(FlattenSeq(f), p)
      BY <1>5, <3>2, <3>3
    <3> QED
      BY <2>2, <3>4 DEF Outcome, Settles
  <2> QED
    BY <2>1, <2>2
<1> QED
  BY <1>5, <1>6, <1>7 DEF f, order

LEMMA InterfacesOutcome ==
  ASSUME NEW o, Sound(o), NEW e, Sound(e), NEW p, IsClaim(p), Claimed(e, p)
  PROVE  LET s == Interfaces(o, e) IN
         /\ Fine(s)
         /\ p.of \notin NifFields => Leaves(s, p)
         /\ p.of \in NifFields => Outcome(s, p, Alike(o, e, p))
<1> DEFINE removed == Only(Reverse(InterfaceNames(o)), Configured(o) \ Configured(e))
           order == InterfaceNames(e)
           f == [i \in DOMAIN removed |-> RemoveInterface(removed[i], o.interfaces[removed[i]])]
           g == [i \in DOMAIN order |-> ConfigureInterface(order[i], o, e)]
           remove == FlattenSeq(f)
           configure == FlattenSeq(g)
           s == Interfaces(o, e)
<1>1. s = remove \o configure
  BY DEF Interfaces, Each, ConfigureOrder
<1>2. /\ Leaves(remove, p)
      /\ /\ p.of \in NifFields /\ p.n \in Configured(o) \ Configured(e)
         /\ ~Claimed(o, p)
         => Settles(remove, p)
  BY RemovalsOutcome
<1>3. /\ Fine(configure)
      /\ p.of \notin NifFields \/ p.n \notin Configured(e) => Leaves(configure, p)
      /\ p.of \in NifFields /\ p.n \in Configured(e) => Outcome(configure, p, Alike(o, e, p))
  BY ConfigurationsOutcome
<1> HIDE DEF remove, configure, s
<1>4. Fine(s)
  BY <1>1, <1>2, <1>3, FineJoins DEF Leaves
<1>5. p.of \notin NifFields => Leaves(s, p)
  BY <1>1, <1>2, <1>3, LeavesJoins
<1>6. ASSUME p.of \in NifFields, p.n \in Configured(e) PROVE Outcome(s, p, Alike(o, e, p))
  BY <1>1, <1>2, <1>3, <1>6, OutcomeJoins
<1>7. ASSUME p.of \in NifFields, p.n \notin Configured(e) PROVE Outcome(s, p, Alike(o, e, p))
  <2>1. Leaves(configure, p)
    BY <1>3, <1>7
  <2>2. Leaves(s, p)
    BY <1>1, <1>2, <2>1, LeavesJoins
  <2>3. CASE Claimed(o, p)
    <3>1. p.of # "supplicant" /\ p.of # "dhcpd"
      BY <1>7 DEF Claimed, Says, NifFields, Flags, Values, Families
    <3>2. Alike(o, e, p)
      BY <1>7, <2>3, <3>1 DEF Alike, Again
    <3> QED
      BY <1>4, <2>2, <3>2 DEF Outcome
  <2>4. CASE ~Claimed(o, p)
    <3>1. p.n \in Configured(o)
      <4> SUFFICES ASSUME p.n \notin Configured(o) PROVE Claimed(o, p)
        BY <2>4
      <4> QED
        BY <1>7 DEF Claimed, Says, InterfaceOf
    <3>2. Settles(remove, p)
      BY <1>2, <1>7, <2>4, <3>1
    <3>3. Settles(s, p)
      BY <1>1, <2>1, <3>2, SettlesJoins
    <3> QED
      BY <1>4, <2>2, <3>3 DEF Outcome
  <2> QED
    BY <2>3, <2>4
<1> QED
  BY <1>4, <1>5, <1>6, <1>7 DEF s

(* A command that has nothing to do with interfaces.                       *)
Plainly(op, n, arg, s, p) ==
  LET decided == \/ op \in RouteOps /\ p.of = "routes" /\ p.n = n
                 \/ op \in SystemOps /\ p.of = op
                 \/ op = "npf" /\ p.of \in {"rules", "rulesOnDisk"}
                 \/ op \in ServerOps /\ p.of = "dhcpd"
      agreed == IF op = "route delete" THEN TRUE
                ELSE IF op = "route add" THEN arg # p.is
                ELSE IF op = "stop dhcpd" THEN NoServer = p.is ELSE arg = p.is
  IN  /\ Fine(s)
      /\ ~decided \/ agreed => Leaves(s, p)
      /\ decided /\ agreed /\ op # "route add" => Settles(s, p)

(* A command that has nothing to do with interfaces.                       *)
LEMMA PlainCommand ==
  ASSUME NEW op \in Ops \ (NifOps \cup {"destroy"}), NEW n, NEW arg,
         NEW tol \in {None, "exists", "missing"}, tol = "missing" => op = "route delete",
         NEW p, IsClaim(p)
  PROVE  Plainly(op, n, arg, Cmd(op, n, arg, tol), p)
<1> DEFINE c == [op |-> op, n |-> n, arg |-> arg, tol |-> tol]
           decided == \/ op \in RouteOps /\ p.of = "routes" /\ p.n = n
                      \/ op \in SystemOps /\ p.of = op
                      \/ op = "npf" /\ p.of \in {"rules", "rulesOnDisk"}
                      \/ op \in ServerOps /\ p.of = "dhcpd"
           agreed == IF op = "route delete" THEN TRUE
                     ELSE IF op = "route add" THEN arg # p.is
                     ELSE IF op = "stop dhcpd" THEN NoServer = p.is ELSE arg = p.is
<1>1. c.op = op /\ c.n = n /\ c.arg = arg /\ c.tol = tol /\ Cmd(op, n, arg, tol) = <<c>>
  BY DEF Cmd
<1> HIDE DEF c
<1>2. Proper(c) /\ c.op \notin NifOps /\ c.op # "destroy" /\ c.op \notin ListOps
  BY <1>1 DEF Proper, ListOps, NifOps
<1>3. Decides(c, p) <=> decided
  BY <1>1, <1>2 DEF Decides
<1>4. Agrees(c, p) <=> agreed
  BY <1>1, <1>2 DEF Agrees
<1>5. c.tol = "missing" => c.op \in Removals
  BY <1>1 DEF Removals
<1> HIDE DEF decided, agreed
<1>6. /\ ~decided \/ agreed => ~Spoils(c, p)
      /\ decided /\ agreed /\ op # "route add" => Makes(c, p)
  <2>1. c.op # "alias"
    BY <1>2 DEF NifOps
  <2> QED
    BY <1>1, <1>3, <1>4, <1>5, <2>1 DEF Spoils, Makes
<1>7. /\ Fine(<<c>>)
      /\ ~Spoils(c, p) => Leaves(<<c>>, p)
      /\ Makes(c, p) => Settles(<<c>>, p)
  BY <1>2, OneCommand
<1> QED
  BY <1>1, <1>6, <1>7 DEF decided, agreed, Plainly

LEMMA SystemCommand ==
  ASSUME NEW op \in SystemOps, NEW arg, NEW p, IsClaim(p)
  PROVE  LET s == Cmd(op, None, arg, None) IN
         /\ Fine(s)
         /\ p.of # op \/ p.is = arg => Leaves(s, p)
         /\ p.of = op /\ p.is = arg => Settles(s, p)
<1>1. /\ op \in Ops \ (NifOps \cup {"destroy"}) /\ op # "npf" /\ op \notin RouteOps \cup ServerOps
      /\ op \notin {"route delete", "route add", "stop dhcpd"}
  BY OtherOps DEF RouteOps, ServerOps
<1>2. None \in {None, "exists", "missing"} /\ None # "missing"
  BY DEF None
<1>3. Plainly(op, None, arg, Cmd(op, None, arg, None), p)
  BY <1>1, <1>2, PlainCommand
<1> QED
  BY <1>1, <1>3 DEF Plainly

LEMMA SystemOutcome ==
  ASSUME NEW o, NEW e, NEW boot, NEW p, IsClaim(p), Claimed(e, p)
  PROVE  LET s == System(o, e, boot) IN
         /\ Fine(s)
         /\ p.of \notin SystemOps => Leaves(s, p)
         /\ p.of \in SystemOps
            => Outcome(s, p, Claimed(o, p) /\ ~(boot /\ p.of \in {"forward", "forward6"}))
<1> DEFINE dns(c) == [domain |-> c.domain, servers |-> c.servers]
           hostname == Cmd("hostname", None, e.hostname, None)
           resolv == Cmd("resolv", None, dns(e), None)
           forward == Cmd("forward", None, e.routing, None)
           forward6 == Cmd("forward6", None, e.routing6, None)
           a == When(e.hostname \notin {None, o.hostname}, hostname)
           b == When(<<e.domain, e.servers>> # <<o.domain, o.servers>> /\ e.servers # <<>>, resolv)
           c == When(boot \/ e.routing # o.routing, forward)
           d == When(boot \/ e.routing6 # o.routing6, forward6)
           s == System(o, e, boot)
           forced == boot /\ p.of \in {"forward", "forward6"}
           same == Claimed(o, p) /\ ~forced
           L(t) == Leaves(t, p)
           S(t) == Settles(t, p)
<1>1. s = a \o b \o c \o d
  BY DEF System
<1>2. {"hostname", "resolv", "forward", "forward6"} = SystemOps
  BY DEF SystemOps
<1>3. /\ Fine(hostname) /\ (p.of # "hostname" \/ p.is = e.hostname => L(hostname))
      /\ p.of = "hostname" /\ p.is = e.hostname => S(hostname)
  BY <1>2, SystemCommand
<1>4. /\ Fine(resolv) /\ (p.of # "resolv" \/ p.is = dns(e) => L(resolv))
      /\ p.of = "resolv" /\ p.is = dns(e) => S(resolv)
  BY <1>2, SystemCommand
<1>5. /\ Fine(forward) /\ (p.of # "forward" \/ p.is = e.routing => L(forward))
      /\ p.of = "forward" /\ p.is = e.routing => S(forward)
  BY <1>2, SystemCommand
<1>6. /\ Fine(forward6) /\ (p.of # "forward6" \/ p.is = e.routing6 => L(forward6))
      /\ p.of = "forward6" /\ p.is = e.routing6 => S(forward6)
  BY <1>2, SystemCommand
<1>7. /\ p.of = "hostname" => p.is = e.hostname /\ e.hostname # None
      /\ p.of = "resolv" => p.is = dns(e) /\ e.servers # <<>>
      /\ p.of = "forward" => p.is = e.routing
      /\ p.of = "forward6" => p.is = e.routing6
  BY DEF Claimed, NifFields, Flags, Values, Families
<1>8. /\ p.of = "hostname" => (Claimed(o, p) <=> o.hostname # None /\ p.is = o.hostname)
      /\ p.of = "resolv" => (Claimed(o, p) <=> o.servers # <<>> /\ p.is = dns(o))
      /\ p.of = "forward" => (Claimed(o, p) <=> p.is = o.routing)
      /\ p.of = "forward6" => (Claimed(o, p) <=> p.is = o.routing6)
  BY DEF Claimed, NifFields, Flags, Values, Families
<1>9. dns(e) = dns(o) <=> <<e.domain, e.servers>> = <<o.domain, o.servers>>
  <2>1. /\ dns(e).domain = e.domain /\ dns(o).domain = o.domain
        /\ dns(e).servers = e.servers /\ dns(o).servers = o.servers
    OBVIOUS
  <2>2. <<e.domain, e.servers>> = <<o.domain, o.servers>>
          => e.domain = o.domain /\ e.servers = o.servers
    OBVIOUS
  <2>3. e.domain = o.domain /\ e.servers = o.servers => dns(e) = dns(o)
    OBVIOUS
  <2> HIDE DEF dns
  <2>4. dns(e) = dns(o) => e.domain = o.domain /\ e.servers = o.servers
    BY <2>1
  <2> QED
    BY <2>2, <2>3, <2>4
<1> DEFINE differs == <<e.domain, e.servers>> # <<o.domain, o.servers>>
<1> HIDE DEF hostname, resolv, forward, forward6, dns, s
<1>10. /\ L(<<>>)
       /\ \A t, u : L(t) /\ L(u) => L(t \o u)
       /\ \A t, u : S(t) /\ L(u) => S(t \o u)
       /\ \A t, u : L(t) /\ S(u) => S(t \o u)
       /\ \A t : L(t) => Fine(t)
       /\ \A t : S(t) => Fine(t)
  BY Composing
<1>11. /\ L(a) /\ (p.of = "hostname" /\ ~same => S(a))
  <2>1. p.of = "hostname" => (same <=> e.hostname = o.hostname)
    BY <1>7, <1>8
  <2> HIDE DEF same, L, S
  <2> QED
    BY <1>3, <1>7, <1>10, <2>1 DEF When
<1>12. L(b) /\ (p.of = "resolv" /\ ~same => S(b))
  <2>1. p.of = "resolv" => (same <=> ~differs)
    <3>1. p.of = "resolv" => (same <=> o.servers # <<>> /\ dns(e) = dns(o))
      BY <1>7, <1>8
    <3>2. ~differs => e.servers = o.servers
      OBVIOUS
    <3> HIDE DEF same, differs
    <3> QED
      BY <1>7, <1>9, <3>1, <3>2 DEF differs
  <2> HIDE DEF same, L, S, differs
  <2>2. b = When(differs /\ e.servers # <<>>, resolv)
    BY DEF differs
  <2> HIDE DEF b
  <2> QED
    BY <1>4, <1>7, <1>10, <2>1, <2>2 DEF When
<1>13. L(c) /\ (p.of = "forward" /\ ~same => S(c))
  <2>1. p.of = "forward" => (same <=> ~boot /\ e.routing = o.routing)
    BY <1>7, <1>8
  <2> HIDE DEF same, L, S
  <2> QED
    BY <1>5, <1>7, <1>10, <2>1 DEF When
<1>14. L(d) /\ (p.of = "forward6" /\ ~same => S(d))
  <2>1. p.of = "forward6" => (same <=> ~boot /\ e.routing6 = o.routing6)
    BY <1>7, <1>8
  <2> HIDE DEF same, L, S
  <2> QED
    BY <1>6, <1>7, <1>10, <2>1 DEF When
<1> HIDE DEF a, b, c, d, L, S, same
<1>15. L(s) /\ Fine(s)
  BY <1>1, <1>10, <1>11, <1>12, <1>13, <1>14
<1>16. p.of \in SystemOps /\ ~same => S(s)
  BY <1>1, <1>2, <1>10, <1>11, <1>12, <1>13, <1>14
<1> QED
  BY <1>15, <1>16 DEF s, L, S, same, Outcome

(* Routes are only claimed to be absent: one that is added may be taken.   *)
LEMMA RoutesOutcome ==
  ASSUME NEW o, IsDocument(o), NEW e, IsDocument(e), NEW p, IsClaim(p), Claimed(e, p)
  PROVE  LET s == Routes(o, e) IN
         /\ Fine(s)
         /\ p.of # "routes" => Leaves(s, p)
         /\ p.of = "routes" => Outcome(s, p, Claimed(o, p))
<1> DEFINE gone == Minus(o.routes, e.routes)
           come == Minus(e.routes, o.routes)
           f == [i \in DOMAIN gone |-> Cmd("route delete", gone[i].prefix, None, "missing")]
           g == [i \in DOMAIN come |-> Cmd("route add", come[i].prefix, come[i].nexthop, "exists")]
           delete == FlattenSeq(f)
           add == FlattenSeq(g)
           s == Routes(o, e)
           about(r) == p.of = "routes" /\ r.prefix = p.n /\ r.nexthop = p.is
<1>1. s = delete \o add
  BY DEF Routes, Each
<1>2. /\ IsList(gone) /\ ToSet(gone) = ToSet(o.routes) \ ToSet(e.routes)
      /\ IsList(come) /\ ToSet(come) = ToSet(e.routes) \ ToSet(o.routes)
  BY MinusIsList DEF IsDocument
<1>3. /\ "route delete" \in RouteOps /\ "route add" \in RouteOps
      /\ "route delete" \in Ops \ (NifOps \cup {"destroy"})
      /\ "route add" \in Ops \ (NifOps \cup {"destroy"})
      /\ RouteOps \cap (SystemOps \cup ServerOps \cup {"npf"}) = {}
      /\ {None, "exists", "missing"} = {None} \cup {"exists", "missing"}
  BY OtherOps DEF RouteOps, SystemOps, ServerOps
<1>4. /\ p.of = "routes" => \A r \in ToSet(e.routes) : ~about(r)
      /\ p.of = "routes" => (Claimed(o, p) <=> \A r \in ToSet(o.routes) : ~about(r))
  BY DEF Claimed, NifFields, Flags, Values, Families
<1> HIDE DEF gone, come
<1>5. \A i \in DOMAIN gone : /\ Leaves(f[i], p)
                             /\ about(gone[i]) => Settles(f[i], p)
  <2> SUFFICES ASSUME NEW i \in DOMAIN gone
               PROVE  LET t == Cmd("route delete", gone[i].prefix, None, "missing") IN
                      Leaves(t, p) /\ (about(gone[i]) => Settles(t, p))
    OBVIOUS
  <2>1. "missing" \in {None, "exists", "missing"} /\ "route delete" # "route add"
    OBVIOUS
  <2>2. Plainly("route delete", gone[i].prefix, None,
                Cmd("route delete", gone[i].prefix, None, "missing"), p)
    BY <1>3, <2>1, PlainCommand
  <2> QED
    BY <1>3, <2>1, <2>2 DEF Plainly
<1>6. \A i \in DOMAIN come : Leaves(g[i], p)
  <2> SUFFICES ASSUME NEW i \in DOMAIN come
               PROVE  Leaves(Cmd("route add", come[i].prefix, come[i].nexthop, "exists"), p)
    OBVIOUS
  <2>1. "exists" \in {None, "exists", "missing"} /\ "exists" # "missing"
        /\ "route add" # "route delete"
    OBVIOUS
  <2>2. ~about(come[i])
    BY <1>2, <1>4 DEF ToSet
  <2>3. p.of # "routes" \/ p.n # come[i].prefix \/ come[i].nexthop # p.is
    BY <2>2
  <2>4. Plainly("route add", come[i].prefix, come[i].nexthop,
                Cmd("route add", come[i].prefix, come[i].nexthop, "exists"), p)
    BY <1>3, <2>1, PlainCommand
  <2> QED
    BY <1>3, <2>1, <2>3, <2>4 DEF Plainly
<1>7. f = [i \in DOMAIN gone |-> f[i]] /\ g = [i \in DOMAIN come |-> g[i]]
  OBVIOUS
<1> HIDE DEF f, g, about
<1>8. /\ Leaves(delete, p)
      /\ \A i \in DOMAIN gone : about(gone[i]) => Settles(delete, p)
  <2>1. \A i \in DOMAIN gone : Fine(f[i])
    BY <1>5 DEF Leaves
  <2>2. /\ \A q : (\A i \in DOMAIN gone : Leaves(f[i], q)) => Leaves(FlattenSeq(f), q)
        /\ \A q : \A m \in DOMAIN gone :
             Settles(f[m], q) /\ (\A i \in DOMAIN gone : Leaves(f[i], q))
             => Settles(FlattenSeq(f), q)
    BY <1>2, <1>7, <2>1, EachOutcome
  <2> QED
    BY <1>5, <2>2
<1>9. Leaves(add, p)
  <2>1. \A i \in DOMAIN come : Fine(g[i])
    BY <1>6 DEF Leaves
  <2>2. \A q : (\A i \in DOMAIN come : Leaves(g[i], q)) => Leaves(FlattenSeq(g), q)
    BY <1>2, <1>7, <2>1, EachOutcome
  <2> QED
    BY <1>6, <2>2
<1> HIDE DEF delete, add, s
<1>10. Leaves(s, p) /\ Fine(s)
  BY <1>1, <1>8, <1>9, LeavesJoins DEF Leaves
<1>11. ASSUME p.of = "routes", ~Claimed(o, p) PROVE Settles(s, p)
  <2>1. PICK r \in ToSet(o.routes) : about(r)
    BY <1>4, <1>11
  <2>2. r \in ToSet(gone)
    BY <1>2, <1>4, <1>11, <2>1
  <2>3. PICK i \in DOMAIN gone : gone[i] = r
    BY <2>2 DEF ToSet
  <2>4. Settles(delete, p)
    BY <1>8, <2>1, <2>3
  <2> QED
    BY <1>1, <1>9, <2>4, SettlesJoins
<1> QED
  BY <1>10, <1>11 DEF s, Outcome

LEMMA FirewallOutcome ==
  ASSUME NEW o, NEW e, NEW boot, NEW p, IsClaim(p), Claimed(e, p)
  PROVE  LET s == Firewall(o, e, boot) IN
         /\ Fine(s)
         /\ p.of \notin {"rules", "rulesOnDisk"} => Leaves(s, p)
         /\ p.of \in {"rules", "rulesOnDisk"} => Outcome(s, p, Claimed(o, p) /\ ~boot)
<1> DEFINE one == Cmd("npf", None, RuleSet(e), None)
           about == p.of \in {"rules", "rulesOnDisk"}
           s == Firewall(o, e, boot)
<1>1. s = When(boot \/ RuleSet(e) # RuleSet(o), one)
  BY DEF Firewall
<1>2. about => p.is = RuleSet(e) /\ (Claimed(o, p) <=> p.is = RuleSet(o))
  BY DEF Claimed, NifFields, Flags, Values, Families
<1>3. /\ Fine(one)
      /\ ~about \/ p.is = RuleSet(e) => Leaves(one, p)
      /\ about /\ p.is = RuleSet(e) => Settles(one, p)
  <2>1. "npf" \in Ops \ (NifOps \cup {"destroy"}) /\ "npf" \notin RouteOps \cup SystemOps \cup ServerOps
    BY OtherOps DEF RouteOps, SystemOps, ServerOps
  <2>2. None \in {None, "exists", "missing"} /\ None # "missing"
        /\ "npf" \notin {"route delete", "route add", "stop dhcpd"}
    BY DEF None
  <2>3. Plainly("npf", None, RuleSet(e), one, p)
    BY <2>1, <2>2, PlainCommand
  <2> QED
    BY <2>1, <2>2, <2>3 DEF Plainly
<1> HIDE DEF one, s, about
<1>4. Leaves(s, p)
  BY <1>1, <1>2, <1>3, NoCommands DEF When
<1>5. about /\ ~(Claimed(o, p) /\ ~boot) => Settles(s, p)
  BY <1>1, <1>2, <1>3 DEF When
<1> QED
  BY <1>4, <1>5 DEF s, about, Outcome, Leaves

LEMMA DhcpServerOutcome ==
  ASSUME NEW o, NEW e, NEW boot, NEW p, IsClaim(p), Claimed(e, p)
  PROVE  LET s == DhcpServer(o, e, boot) IN
         /\ Fine(s)
         /\ p.of # "dhcpd" => Leaves(s, p)
         /\ p.of = "dhcpd" => Outcome(s, p, DhcpdConf(o) = DhcpdConf(e) /\ ~boot)
<1> DEFINE stop == Cmd("stop dhcpd", None, None, None)
           start == Cmd("start dhcpd", None, DhcpdConf(e), None)
           more == When(DhcpdConf(e).serves # {}, start)
           s == DhcpServer(o, e, boot)
<1>1. s = When(boot \/ DhcpdConf(e) # DhcpdConf(o), stop \o more)
  BY DEF DhcpServer
<1>2. p.of = "dhcpd" => p.is = IF DhcpdConf(e).serves = {} THEN NoServer ELSE DhcpdConf(e)
  BY DEF Claimed, Serving, NifFields, Flags, Values, Families
<1>3. /\ {"stop dhcpd", "start dhcpd"} \subseteq ServerOps
      /\ {"stop dhcpd", "start dhcpd"} \subseteq Ops \ (NifOps \cup {"destroy"})
      /\ ServerOps \cap (SystemOps \cup RouteOps \cup {"npf"}) = {}
  BY OtherOps DEF RouteOps, SystemOps, ServerOps
<1>4. None \in {None, "exists", "missing"} /\ None # "missing"
  BY DEF None
<1>5. /\ Fine(stop)
      /\ p.of # "dhcpd" => Leaves(stop, p)
      /\ p.of = "dhcpd" /\ p.is = NoServer => Leaves(stop, p) /\ Settles(stop, p)
  <2>1. Plainly("stop dhcpd", None, None, stop, p)
    BY <1>3, <1>4, PlainCommand
  <2> HIDE DEF stop
  <2> QED
    BY <1>3, <2>1 DEF Plainly
<1>6. /\ Fine(start)
      /\ p.of # "dhcpd" => Leaves(start, p)
      /\ p.of = "dhcpd" /\ p.is = DhcpdConf(e) => Settles(start, p)
  <2>1. Plainly("start dhcpd", None, DhcpdConf(e), start, p)
    BY <1>3, <1>4, PlainCommand
  <2> HIDE DEF start
  <2> QED
    BY <1>3, <2>1 DEF Plainly
<1> HIDE DEF stop, start, s
<1>7. /\ Fine(more)
      /\ p.of # "dhcpd" => Leaves(more, p)
      /\ p.of = "dhcpd" => IF DhcpdConf(e).serves = {} THEN Leaves(more, p) ELSE Settles(more, p)
  BY <1>2, <1>6, NoCommands DEF When
<1> HIDE DEF more
<1>8. /\ Fine(stop \o more)
      /\ p.of # "dhcpd" => Leaves(stop \o more, p)
      /\ p.of = "dhcpd" => Settles(stop \o more, p)
  <2>1. Fine(stop \o more)
    BY <1>5, <1>7, FineJoins
  <2>2. p.of # "dhcpd" => Leaves(stop \o more, p)
    BY <1>5, <1>7, LeavesJoins
  <2>3. p.of = "dhcpd" => Settles(stop \o more, p)
    BY <1>2, <1>5, <1>7, SettlesJoins
  <2> QED
    BY <2>1, <2>2, <2>3
<1> DEFINE both == stop \o more
<1> HIDE DEF both
<1>9. s = When(boot \/ DhcpdConf(e) # DhcpdConf(o), both) /\ Fine(both)
      /\ (p.of # "dhcpd" => Leaves(both, p)) /\ (p.of = "dhcpd" => Settles(both, p))
  BY <1>1, <1>8 DEF both
<1>10. Fine(s) /\ (p.of # "dhcpd" => Leaves(s, p))
  BY <1>9, NoCommands DEF When
<1>11. p.of = "dhcpd" => Outcome(s, p, DhcpdConf(o) = DhcpdConf(e) /\ ~boot)
  BY <1>9, <1>10, NoCommands DEF When, Outcome
<1> QED
  BY <1>10, <1>11 DEF s

(* A change settles what the new document claims, and leaves alone what    *)
(* both documents claim alike; a boot also settles what it is forced to.   *)
LEMMA ApplyOutcome ==
  ASSUME NEW o, Sound(o), NEW e, Sound(e), NEW boot, NEW p, IsClaim(p), Claimed(e, p)
  PROVE  Outcome(Apply(o, e, boot), p, Alike(o, e, p) /\ ~(boot /\ p.of \in Forced))
<1> DEFINE a == System(o, e, boot)
           b == Interfaces(o, e)
           c == Routes(o, e)
           d == Firewall(o, e, boot)
           f == DhcpServer(o, e, boot)
           all == Apply(o, e, boot)
           same == Alike(o, e, p) /\ ~(boot /\ p.of \in Forced)
           L(t) == Leaves(t, p)
           S(t) == Settles(t, p)
<1>1. all = a \o b \o c \o d \o f
  BY DEF Apply
<1>2. /\ p.of \notin SystemOps => L(a)
      /\ p.of \in SystemOps
         => Outcome(a, p, Claimed(o, p) /\ ~(boot /\ p.of \in {"forward", "forward6"}))
  BY SystemOutcome
<1>3. /\ p.of \notin NifFields => L(b)
      /\ p.of \in NifFields => Outcome(b, p, Alike(o, e, p))
  BY InterfacesOutcome
<1>4. /\ p.of # "routes" => L(c)
      /\ p.of = "routes" => Outcome(c, p, Claimed(o, p))
  BY RoutesOutcome DEF Sound, Grounded
<1>5. /\ p.of \notin {"rules", "rulesOnDisk"} => L(d)
      /\ p.of \in {"rules", "rulesOnDisk"} => Outcome(d, p, Claimed(o, p) /\ ~boot)
  BY FirewallOutcome
<1>6. /\ p.of # "dhcpd" => L(f)
      /\ p.of = "dhcpd" => Outcome(f, p, DhcpdConf(o) = DhcpdConf(e) /\ ~boot)
  BY DhcpServerOutcome
<1>7. Alike(o, e, p) => Claimed(o, p)
  BY DEF Alike
<1>8. p.of \notin NifFields \cup {"dhcpd"} => (Alike(o, e, p) <=> Claimed(o, p))
  BY DEF Alike, NifFields, Values
<1>9. p.of = "dhcpd" => (Alike(o, e, p) <=> DhcpdConf(o) = DhcpdConf(e))
  BY DEF Alike, Claimed, Serving, NifFields, Flags, Values, Families
<1>10. /\ p.of \in SystemOps => (p.of \in Forced <=> p.of \in {"forward", "forward6"})
       /\ p.of \in NifFields \cup {"routes"} => p.of \notin Forced
       /\ p.of \in {"rules", "rulesOnDisk", "dhcpd"} => p.of \in Forced
       /\ p.of \in NifFields \cup SystemOps \cup {"routes", "rules", "rulesOnDisk", "dhcpd"}
  BY DEF SystemOps, Forced, NifFields, Flags, Values, Families, IsClaim, Fields
<1>11. /\ SystemOps \cap (NifFields \cup {"routes", "rules", "rulesOnDisk", "dhcpd"}) = {}
       /\ NifFields \cap {"routes", "rules", "rulesOnDisk", "dhcpd"} = {}
  BY DEF SystemOps, NifFields, Flags, Values, Families
<1>12. /\ \A t, u : L(t) /\ L(u) => L(t \o u)
       /\ \A t, u : S(t) /\ L(u) => S(t \o u)
       /\ \A t, u : L(t) /\ S(u) => S(t \o u)
       /\ \A t : L(t) => Fine(t)
       /\ \A t : S(t) => Fine(t)
  BY Composing
<1> HIDE DEF a, b, c, d, f, all
<1>13. /\ L(a) /\ L(b) /\ L(c) /\ L(d) /\ L(f) => L(all)
       /\ S(a) /\ L(b) /\ L(c) /\ L(d) /\ L(f) => S(all)
       /\ L(a) /\ S(b) /\ L(c) /\ L(d) /\ L(f) => S(all)
       /\ L(a) /\ L(b) /\ S(c) /\ L(d) /\ L(f) => S(all)
       /\ L(a) /\ L(b) /\ L(c) /\ S(d) /\ L(f) => S(all)
       /\ L(a) /\ L(b) /\ L(c) /\ L(d) /\ S(f) => S(all)
  <2> HIDE DEF L, S
  <2> QED
    BY <1>1, <1>12
<1>14. ASSUME p.of \in SystemOps
       PROVE  (same => L(all)) /\ (~same => S(all))
  <2>1. (same => L(a)) /\ (~same => S(a))
    BY <1>2, <1>8, <1>10, <1>11, <1>14 DEF Outcome
  <2>2. L(b) /\ L(c) /\ L(d) /\ L(f)
    BY <1>3, <1>4, <1>5, <1>6, <1>11, <1>14
  <2> HIDE DEF same, L, S
  <2> QED
    BY <1>13, <2>1, <2>2
<1>15. ASSUME p.of \in NifFields
       PROVE  (same => L(all)) /\ (~same => S(all))
  <2>1. (same => L(b)) /\ (~same => S(b))
    BY <1>3, <1>10, <1>15 DEF Outcome
  <2>2. L(a) /\ L(c) /\ L(d) /\ L(f)
    BY <1>2, <1>4, <1>5, <1>6, <1>11, <1>15
  <2> HIDE DEF same, L, S
  <2> QED
    BY <1>13, <2>1, <2>2
<1>16. ASSUME p.of = "routes"
       PROVE  (same => L(all)) /\ (~same => S(all))
  <2>1. (same => L(c)) /\ (~same => S(c))
    BY <1>4, <1>8, <1>10, <1>11, <1>16 DEF Outcome
  <2>2. L(a) /\ L(b) /\ L(d) /\ L(f)
    BY <1>2, <1>3, <1>5, <1>6, <1>11, <1>16
  <2> HIDE DEF same, L, S
  <2> QED
    BY <1>13, <2>1, <2>2
<1>17. ASSUME p.of \in {"rules", "rulesOnDisk"}
       PROVE  (same => L(all)) /\ (~same => S(all))
  <2>1. (same => L(d)) /\ (~same => S(d))
    BY <1>5, <1>8, <1>10, <1>11, <1>17 DEF Outcome
  <2>2. L(a) /\ L(b) /\ L(c) /\ L(f)
    BY <1>2, <1>3, <1>4, <1>6, <1>11, <1>17
  <2> HIDE DEF same, L, S
  <2> QED
    BY <1>13, <2>1, <2>2
<1>18. ASSUME p.of = "dhcpd"
       PROVE  (same => L(all)) /\ (~same => S(all))
  <2>1. (same => L(f)) /\ (~same => S(f))
    BY <1>6, <1>9, <1>10, <1>18 DEF Outcome
  <2>2. L(a) /\ L(b) /\ L(c) /\ L(d)
    BY <1>2, <1>3, <1>4, <1>5, <1>11, <1>18
  <2> HIDE DEF same, L, S
  <2> QED
    BY <1>13, <2>1, <2>2
<1>19. (same => L(all)) /\ (~same => S(all))
  <2> HIDE DEF same, L, S
  <2> QED
    BY <1>10, <1>14, <1>15, <1>16, <1>17, <1>18
<1>20. Fine(all)
  BY <1>12, <1>19
<1> QED
  BY <1>19, <1>20 DEF all, Outcome

LEMMA ApplyIsFine ==
  ASSUME NEW o, Sound(o), NEW e, Sound(e), NEW boot
  PROVE  Fine(Apply(o, e, boot))
<1> DEFINE p == [of |-> "forward", n |-> None, is |-> e.routing, yes |-> TRUE]
<1>1. IsClaim(p) /\ Claimed(e, p)
  BY DEF IsClaim, Claimed, NifFields, Flags, Values, Families, Fields
<1> HIDE DEF p
<1> QED
  BY <1>1, ApplyOutcome DEF Outcome

-----------------------------------------------------------------------------
(* The claims of the recorded document hold                                *)

(* What a document claims holds now, or will hold, if nothing goes wrong,  *)
(* when these commands have been run.                                      *)
Upheld(c, k) == \A p : IsClaim(p) /\ Claimed(c, p) => Holds(k, p)

Reached(p, k, s) == Settles(s, p) \/ (Leaves(s, p) /\ Holds(k, p))

Coming(c, k, s, failed) ==
  failed = {} => \A p : IsClaim(p) /\ Claimed(c, p) => Reached(p, k, s)

(* What the change does not concern holds throughout.                      *)
Keeping(o, e, k, s) == \A p : IsClaim(p) /\ Alike(o, e, p) => Leaves(s, p) /\ Holds(k, p)

(* As far as a boot does not force it.                                     *)
Bare(k) == \A p : IsClaim(p) /\ Claimed(Blank, p) /\ p.of \notin Forced => Holds(k, p)

RecordInv ==
  /\ Sane(kernel) /\ Fine(todo)
  /\ ~lost /\ ~overlaid =>
       LET r == Effective(running)
           e == Effective(next)
       IN  /\ phase = "off" => todo = <<>> /\ Bare(kernel)
           /\ phase = "boot" => Coming(e, kernel, todo, errs)
           /\ phase = "idle" => todo = <<>> /\ Upheld(r, kernel)
           /\ phase = "apply" => Coming(e, kernel, todo, errs) /\ Keeping(r, e, kernel, todo)
           /\ phase = "rollback" => Coming(r, kernel, todo, errs)

(* A command that is run or fails, for one claim and for all of a          *)
(* document.                                                               *)
LEMMA OneClaimOn ==
  ASSUME NEW k, Sane(k), NEW s, Fine(s), s # <<>>, NEW p, IsClaim(p)
  PROVE  /\ Leaves(s, p) /\ Holds(k, p) =>
              /\ Leaves(Tail(s), p) /\ Holds(Run(k, Head(s)), p)
              /\ \A l \in FailedEffects(k, Head(s)) : Holds(l, p)
         /\ Tolerated(k, Head(s)) /\ Reached(p, k, s) => Reached(p, Run(k, Head(s)), Tail(s))
<1>1. /\ Proper(Head(s))
      /\ Leaves(s, p) => ~Spoils(Head(s), p) /\ Leaves(Tail(s), p)
      /\ Settles(s, p) => \/ Makes(Head(s), p) /\ Leaves(Tail(s), p)
                          \/ Settles(Tail(s), p)
  BY FirstCommand
<1>2. Holds(k, p) /\ ~Spoils(Head(s), p) =>
        Holds(Run(k, Head(s)), p) /\ \A l \in FailedEffects(k, Head(s)) : Holds(l, p)
  BY <1>1, SparedStays
<1>3. Makes(Head(s), p) /\ Tolerated(k, Head(s)) => Holds(Run(k, Head(s)), p)
  BY <1>1, MadeHolds
<1> QED
  BY <1>1, <1>2, <1>3 DEF Reached

LEMMA ClaimsGoOn ==
  ASSUME NEW k, Sane(k), NEW s, Fine(s), s # <<>>
  PROVE  LET l == Run(k, Head(s))
             t == Tail(s)
         IN  /\ Sane(l) /\ Fine(t) /\ \A f \in FailedEffects(k, Head(s)) : Sane(f)
             /\ \A c, failed, more :
                  /\ Coming(c, k, s, failed)
                  /\ more = {} => failed = {} /\ Tolerated(k, Head(s))
                  => Coming(c, l, t, more)
             /\ \A o, e : Keeping(o, e, k, s) =>
                  /\ Keeping(o, e, l, t)
                  /\ \A f \in FailedEffects(k, Head(s)) : Keeping(o, e, f, t)
<1>1. Sane(Run(k, Head(s))) /\ Fine(Tail(s)) /\ \A f \in FailedEffects(k, Head(s)) : Sane(f)
  BY FirstCommand, RunStaysSane
<1>2. ASSUME NEW c, NEW failed, NEW more, Coming(c, k, s, failed),
             more = {} => failed = {} /\ Tolerated(k, Head(s))
      PROVE  Coming(c, Run(k, Head(s)), Tail(s), more)
  <2> SUFFICES ASSUME more = {}, NEW p, IsClaim(p), Claimed(c, p)
               PROVE  Reached(p, Run(k, Head(s)), Tail(s))
    BY DEF Coming
  <2>1. Reached(p, k, s) /\ Tolerated(k, Head(s))
    BY <1>2 DEF Coming
  <2> QED
    BY <2>1, OneClaimOn
<1>3. ASSUME NEW o, NEW e, Keeping(o, e, k, s)
      PROVE  /\ Keeping(o, e, Run(k, Head(s)), Tail(s))
             /\ \A f \in FailedEffects(k, Head(s)) : Keeping(o, e, f, Tail(s))
  <2>1. ASSUME NEW p, IsClaim(p), Alike(o, e, p)
        PROVE  /\ Leaves(Tail(s), p) /\ Holds(Run(k, Head(s)), p)
               /\ \A f \in FailedEffects(k, Head(s)) : Holds(f, p)
    <3>1. Leaves(s, p) /\ Holds(k, p)
      BY <1>3, <2>1 DEF Keeping
    <3> QED
      BY <2>1, <3>1, OneClaimOn
  <2> QED
    BY <2>1 DEF Keeping
<1> QED
  BY <1>1, <1>2, <1>3

LEMMA AlikeBothWays ==
  ASSUME NEW o, NEW e, NEW p, Alike(o, e, p)
  PROVE  Alike(e, o, p)
BY DEF Alike, Again, Recreated

(* The commands from one document to another, at a boot and without one.   *)
LEMMA ClaimsAreComing ==
  ASSUME NEW o, Sound(o), NEW e, Sound(e), NEW k, Sane(k)
  PROVE  /\ Fine(Apply(o, e, TRUE)) /\ Fine(Apply(o, e, FALSE))
         /\ (\A p : IsClaim(p) /\ Alike(o, e, p) /\ p.of \notin Forced => Holds(k, p))
            => Coming(e, k, Apply(o, e, TRUE), {})
         /\ (\A p : IsClaim(p) /\ Alike(o, e, p) => Holds(k, p))
            => Coming(e, k, Apply(o, e, FALSE), {}) /\ Keeping(o, e, k, Apply(o, e, FALSE))
<1>1. Fine(Apply(o, e, TRUE)) /\ Fine(Apply(o, e, FALSE))
  BY ApplyIsFine
<1>2. ASSUME NEW p, IsClaim(p), Claimed(e, p)
      PROVE  /\ IF Alike(o, e, p) /\ p.of \notin Forced THEN Leaves(Apply(o, e, TRUE), p)
                                                        ELSE Settles(Apply(o, e, TRUE), p)
             /\ IF Alike(o, e, p) THEN Leaves(Apply(o, e, FALSE), p)
                                  ELSE Settles(Apply(o, e, FALSE), p)
  <2>1. Outcome(Apply(o, e, TRUE), p, Alike(o, e, p) /\ ~(TRUE /\ p.of \in Forced))
    BY <1>2, ApplyOutcome
  <2>2. Outcome(Apply(o, e, FALSE), p, Alike(o, e, p) /\ ~(FALSE /\ p.of \in Forced))
    BY <1>2, ApplyOutcome
  <2> QED
    BY <2>1, <2>2 DEF Outcome
<1>3. ASSUME \A p : IsClaim(p) /\ Alike(o, e, p) /\ p.of \notin Forced => Holds(k, p)
      PROVE  Coming(e, k, Apply(o, e, TRUE), {})
  BY <1>2, <1>3 DEF Coming, Reached
<1>4. ASSUME \A p : IsClaim(p) /\ Alike(o, e, p) => Holds(k, p)
      PROVE  Coming(e, k, Apply(o, e, FALSE), {}) /\ Keeping(o, e, k, Apply(o, e, FALSE))
  <2>1. Coming(e, k, Apply(o, e, FALSE), {})
    BY <1>2, <1>4 DEF Coming, Reached
  <2>2. \A p : Alike(o, e, p) => Claimed(e, p)
    BY DEF Alike
  <2>3. Keeping(o, e, k, Apply(o, e, FALSE))
    BY <1>2, <1>4, <2>2 DEF Keeping
  <2> QED
    BY <2>1, <2>3
<1> QED
  BY <1>1, <1>3, <1>4

(* When no command is left and none has failed, all has come to pass.      *)
LEMMA ClaimsHaveCome ==
  ASSUME NEW c, NEW k, Coming(c, k, <<>>, {})
  PROVE  Upheld(c, k)
BY NoCommands DEF Coming, Reached, Upheld

LEMMA PowerOnIsSane == Sane(PowerOn)
<1>1. ASSUME NEW n \in Names PROVE SaneNif(PowerOn.nif[n], n)
  <2> DEFINE nif == [Unconfigured(n) EXCEPT !.exists = ~IsCloned(n)]
  <2>1. PowerOn.nif[n] = nif
    BY DEF PowerOn
  <2>2. \A f \in DOMAIN Unconfigured(n) \ {"exists"} : nif[f] = Unconfigured(n)[f]
    OBVIOUS
  <2>3. nif.exists = ~IsCloned(n) /\ nif.exists \in BOOLEAN
    BY DEF Unconfigured
  <2>4. /\ DOMAIN Unconfigured(n) = {"exists", "up", "mtu", "media", "hostap", "v4", "v6", "vlan",
                                     "identity", "members", "client", "supplicant"}
        /\ Unconfigured(n).exists = FALSE /\ Unconfigured(n).up = FALSE
        /\ Unconfigured(n).client = FALSE /\ Unconfigured(n).hostap = FALSE
        /\ Unconfigured(n).v4 = <<>> /\ Unconfigured(n).v6 = <<>>
    BY DEF Unconfigured
  <2>5. /\ nif.up = FALSE /\ nif.client = FALSE /\ nif.hostap = FALSE
        /\ nif.v4 = <<>> /\ nif.v6 = <<>>
    BY DEF Unconfigured
  <2> HIDE DEF nif
  <2>6. \A f \in Flags : nif[f] \in BOOLEAN
    BY <2>3, <2>5 DEF Flags
  <2>7. \A f \in Families : IsList(nif[f])
    BY <2>5, NoList DEF Families
  <2>8. ASSUME ~nif.exists, NEW f \in DOMAIN Unconfigured(n) \ Lasting
        PROVE  nif[f] = Unconfigured(n)[f]
    <3>1. CASE f = "exists"
      <4>1. nif["exists"] = FALSE /\ Unconfigured(n)["exists"] = FALSE
        BY <2>3, <2>4, <2>8
      <4> QED
        BY <3>1, <4>1
    <3>2. CASE f # "exists"
      BY <2>2, <2>8, <3>2
    <3> QED
      BY <3>1, <3>2
  <2> QED
    BY <2>1, <2>6, <2>7, <2>8 DEF SaneNif
<1> QED
  BY <1>1, KernelStarts DEF Sane

(* A system that has been switched on, whatever its files say.             *)
LEMMA PowerOnIsBare ==
  ASSUME NEW k, k.nif = PowerOn.nif, k.routes = PowerOn.routes
  PROVE  Bare(k)
<1> SUFFICES ASSUME NEW p, IsClaim(p), Claimed(Blank, p), p.of \notin Forced PROVE Holds(k, p)
  BY DEF Bare
<1>1. /\ Blank.hostname = None /\ Blank.servers = <<>> /\ Configured(Blank) = {}
  BY BlankIsSettled DEF Blank, NewDocument
<1>2. p.of # "hostname" /\ p.of # "resolv"
  BY <1>1 DEF Claimed, NifFields, Flags, Values, Families
<1>3. p.of \in NifFields \cup {"routes"}
  BY <1>2 DEF IsClaim, Fields, Forced
<1>4. CASE p.of = "routes"
  <2>1. k.routes = <<>> /\ DOMAIN <<>> = {}
    BY DEF PowerOn, Empty
  <2>2. ~Found(k, p) /\ ~p.yes
    BY <1>4, <2>1 DEF Found, IsClaim, NifFields, Flags, Values, Families
  <2> QED
    BY <2>2 DEF Holds
<1>5. CASE p.of \in NifFields
  <2> DEFINE n == p.n
             nif == k.nif[n]
             ifc == InterfaceOf(Blank, n)
  <2>1. n \in Names
    BY <1>5 DEF IsClaim
  <2>2. nif = [Unconfigured(n) EXCEPT !.exists = ~IsCloned(n)]
    BY <2>1 DEF PowerOn
  <2>3. /\ nif.exists = ~IsCloned(n) /\ nif.up = FALSE /\ nif.client = FALSE /\ nif.hostap = FALSE
        /\ nif.vlan = NoVLAN /\ nif.v4 = <<>> /\ nif.v6 = <<>> /\ nif.members = {}
    BY <2>2 DEF Unconfigured
  <2>4. ifc = NewInterface /\ n \notin Configured(Blank)
    BY <1>1 DEF InterfaceOf
  <2>5. /\ ~ifc.dhcp /\ ~IsAP(ifc) /\ ifc.vlan = NoVLAN /\ ifc.mtu = 0 /\ ifc.media = None
        /\ ifc.ipv4 = <<>> /\ ifc.ipv6 = <<>>
    BY <2>4 DEF NewInterface, NoWireless, IsAP
  <2>6. Says(n, n \in Configured(Blank), ifc, BridgeOf(Blank, n), p)
    BY <1>5 DEF Claimed
  <2>7. Holds(k, p) <=> (p.yes <=> FoundIn(nif, p))
    BY <1>5 DEF Holds, Found
  <2> HIDE DEF nif, ifc, n
  <2>8. CASE p.of \in Flags
    <3>1. p.is = TRUE /\ (FoundIn(nif, p) <=> nif[p.of] = TRUE)
      BY <2>8 DEF IsClaim, FoundIn
    <3> QED
      BY <2>3, <2>4, <2>5, <2>6, <2>7, <2>8, <3>1 DEF Says, Flags
  <2>9. CASE p.of \in Values
    <3>1. p.yes /\ (FoundIn(nif, p) <=> nif[p.of] = p.is)
      BY <2>9 DEF IsClaim, FoundIn
    <3> QED
      BY <2>3, <2>4, <2>5, <2>6, <2>7, <2>9, <3>1 DEF Says, Values
  <2>10. CASE p.of \in Families
    <3>1. FoundIn(nif, p) <=> p.is \in ToSet(nif[p.of])
      BY <2>10 DEF FoundIn, Families, Flags, Values
    <3>2. p.yes <=> p.is \in ToSet(ListOf(ifc, p.of))
      BY <2>6, <2>10 DEF Says, Families
    <3> QED
      BY <2>3, <2>5, <2>7, <2>10, <3>1, <3>2, NoList DEF ListOf, Families
  <2>11. CASE p.of = "members"
    <3>1. ~p.yes /\ (FoundIn(nif, p) <=> p.is \in nif.members)
      BY <2>11 DEF IsClaim, FoundIn, Families, Flags, Values
    <3> QED
      BY <2>3, <2>7, <3>1
  <2> QED
    BY <1>5, <2>8, <2>9, <2>10, <2>11 DEF NifFields
<1> QED
  BY <1>3, <1>4, <1>5

LEMMA RecordStarts == Init => RecordInv
BY PowerOnIsSane, PowerOnIsBare, NoCommands DEF Init, RecordInv

(* Every step keeps the invariant.                                         *)
LEMMA RecordStep == ApplierInv /\ RecordInv /\ [Next]_vars => RecordInv'
<1> SUFFICES ASSUME ApplierInv, RecordInv, [Next]_vars PROVE RecordInv'
  OBVIOUS
<1> DEFINE r == Effective(running)
           e == Effective(next)
<1>1. KernelOK(kernel) /\ Sane(kernel) /\ Fine(todo) /\ Sound(r) /\ Sound(e) /\ Sound(Blank)
  BY EffectiveIsSound, BlankIsSound DEF ApplierInv, RecordInv
<1>2. ~lost /\ ~overlaid =>
        /\ phase = "off" => todo = <<>> /\ Bare(kernel)
        /\ phase = "boot" => Coming(e, kernel, todo, errs)
        /\ phase = "idle" => todo = <<>> /\ Upheld(r, kernel)
        /\ phase = "apply" => Coming(e, kernel, todo, errs) /\ Keeping(r, e, kernel, todo)
        /\ phase = "rollback" => Coming(r, kernel, todo, errs)
  BY DEF RecordInv
<1>3. Fine(<<>>) /\ \A c, k : Coming(c, k, <<>>, {}) => Upheld(c, k)
  BY NoCommands, ClaimsHaveCome
<1>4. \A c, d, p : Alike(c, d, p) => Claimed(c, p) /\ Claimed(d, p) /\ Alike(d, c, p)
  BY AlikeBothWays DEF Alike
<1>5. ASSUME NEW d \in Startups, Boot(d) PROVE RecordInv'
  <2> DEFINE new == Effective(d)
  <2>1. Sound(new)
    BY EffectiveIsSound, ApplierAssumption
  <2>2. ~lost /\ ~overlaid /\ ~overlaid' =>
          \A p : IsClaim(p) /\ Alike(Blank, new, p) /\ p.of \notin Forced => Holds(kernel, p)
    <3>1. CASE phase = "off"
      BY <1>2, <1>4, <3>1 DEF Bare
    <3>2. CASE phase = "idle"
      <4>1. ~overlaid' => d = running
        BY <1>5, <3>2 DEF Boot
      <4> QED
        BY <1>2, <1>4, <3>2, <4>1 DEF Upheld
    <3> QED
      BY <1>5, <3>1, <3>2 DEF Boot
  <2>3. /\ Fine(BootCommands(d))
        /\ ~lost /\ ~overlaid /\ ~overlaid' => Coming(new, kernel, BootCommands(d), {})
    BY <1>1, <2>1, <2>2, ClaimsAreComing DEF BootCommands
  <2>4. ~overlaid' => ~overlaid
    BY <1>5 DEF Boot
  <2> QED
    BY <1>1, <1>5, <2>3, <2>4 DEF Boot, RecordInv
<1>6. ASSUME NEW d \in Documents, Commit(d) PROVE RecordInv'
  <2> DEFINE new == Effective(d)
  <2>1. Sound(new)
    BY EffectiveIsSound
  <2>2. ~lost /\ ~overlaid => \A p : IsClaim(p) /\ Alike(r, new, p) => Holds(kernel, p)
    BY <1>2, <1>4, <1>6 DEF Commit, Upheld
  <2>3. /\ Fine(Commands(running, d))
        /\ ~lost /\ ~overlaid =>
             /\ Coming(new, kernel, Commands(running, d), {})
             /\ Keeping(r, new, kernel, Commands(running, d))
    BY <1>1, <2>1, <2>2, ClaimsAreComing DEF Commands
  <2> QED
    BY <1>1, <1>6, <2>3 DEF Commit, RecordInv, ghosts
<1>7. CASE RunCommand
  <2> DEFINE c == Head(todo)
  <2>1. /\ Sane(Run(kernel, c)) /\ Fine(Tail(todo))
        /\ \A d, failed, more :
             Coming(d, kernel, todo, failed) /\ (more = {} => failed = {} /\ Tolerated(kernel, c))
             => Coming(d, Run(kernel, c), Tail(todo), more)
        /\ \A x, y : Keeping(x, y, kernel, todo) => Keeping(x, y, Run(kernel, c), Tail(todo))
    BY <1>1, <1>7, ClaimsGoOn DEF RunCommand
  <2>2. /\ kernel' = Run(kernel, c) /\ todo' = Tail(todo) /\ todo # <<>>
        /\ phase' = phase /\ running' = running /\ next' = next /\ lost' = lost /\ overlaid' = overlaid
        /\ errs' = {} => errs = {} /\ Tolerated(kernel, c)
    BY <1>7 DEF RunCommand, ghosts
  <2> HIDE DEF c
  <2>3. \A d : Coming(d, kernel, todo, errs) => Coming(d, kernel', todo', errs')
    BY <2>1, <2>2
  <2>4. \A x, y : Keeping(x, y, kernel, todo) => Keeping(x, y, kernel', todo')
    BY <2>1, <2>2
  <2> QED
    BY <1>2, <2>1, <2>2, <2>3, <2>4 DEF RecordInv
<1>8. CASE CommandFails
  <2> DEFINE c == Head(todo)
  <2>1. /\ Fine(Tail(todo)) /\ \A f \in FailedEffects(kernel, c) : Sane(f)
        /\ \A x, y : Keeping(x, y, kernel, todo) =>
             \A f \in FailedEffects(kernel, c) : Keeping(x, y, f, Tail(todo))
    BY <1>1, <1>8, ClaimsGoOn DEF CommandFails
  <2>2. /\ kernel' \in FailedEffects(kernel, c) /\ todo' = Tail(todo) /\ todo # <<>>
        /\ phase' = phase /\ running' = running /\ next' = next /\ lost' = lost /\ overlaid' = overlaid
        /\ errs' # {}
    BY <1>8 DEF CommandFails, ghosts
  <2> HIDE DEF c
  <2>3. \A d : Coming(d, kernel', todo', errs')
    BY <2>2 DEF Coming
  <2>4. \A x, y : Keeping(x, y, kernel, todo) => Keeping(x, y, kernel', todo')
    BY <2>1, <2>2
  <2> QED
    BY <1>2, <2>1, <2>2, <2>3, <2>4 DEF RecordInv
<1>9. CASE BootDone
  <2>1. ~lost' => ~lost /\ errs = {} /\ todo = <<>> /\ phase = "boot"
    BY <1>9 DEF BootDone
  <2>2. ~lost' /\ ~overlaid => Upheld(e, kernel)
    BY <1>2, <1>3, <2>1
  <2> QED
    BY <1>1, <1>9, <2>1, <2>2 DEF BootDone, Idle, RecordInv
<1>10. CASE ApplyDone
  <2>1. ~lost /\ ~overlaid => Upheld(e, kernel)
    BY <1>2, <1>3, <1>10 DEF ApplyDone
  <2> QED
    BY <1>1, <1>10, <2>1 DEF ApplyDone, Idle, RecordInv
<1>11. CASE StartRollback
  <2>1. ~lost /\ ~overlaid => \A p : IsClaim(p) /\ Alike(e, r, p) => Holds(kernel, p)
    BY <1>2, <1>4, <1>11 DEF StartRollback, Keeping
  <2>2. /\ Fine(Commands(next, running))
        /\ ~lost /\ ~overlaid => Coming(r, kernel, Commands(next, running), {})
    BY <1>1, <2>1, ClaimsAreComing DEF Commands
  <2> QED
    BY <1>1, <1>11, <2>2 DEF StartRollback, RecordInv, ghosts
<1>12. CASE RollbackDone
  <2>1. ~lost /\ ~overlaid => Upheld(r, kernel)
    BY <1>2, <1>3, <1>12 DEF RollbackDone
  <2> QED
    BY <1>1, <1>12, <2>1 DEF RollbackDone, Idle, RecordInv
<1>13. CASE RollbackFails
  BY <1>1, <1>13 DEF RollbackFails, Idle, RecordInv
<1>14. CASE PowerCycle
  <2> DEFINE mid == WithField(PowerOn, "resolv", kernel.resolv)
  <2>1. KernelOK(mid) /\ mid.nif = PowerOn.nif /\ mid.routes = PowerOn.routes
    BY KernelStarts, KernelFields, FieldTouches
  <2>2. kernel' = WithField(mid, "rulesOnDisk", kernel.rulesOnDisk)
    BY <1>14 DEF PowerCycle, WithField
  <2> HIDE DEF mid
  <2>3. KernelOK(kernel') /\ kernel'.nif = PowerOn.nif /\ kernel'.routes = PowerOn.routes
    BY <2>1, <2>2, KernelFields, FieldTouches
  <2>4. Sane(kernel') /\ Bare(kernel')
    BY <2>3, PowerOnIsSane, PowerOnIsBare DEF Sane
  <2> QED
    BY <1>3, <1>14, <2>4 DEF PowerCycle, RecordInv
<1>15. CASE UNCHANGED vars
  BY <1>1, <1>2, <1>15 DEF vars, ghosts, RecordInv
<1> QED
  BY <1>5, <1>6, <1>7, <1>8, <1>9, <1>10, <1>11, <1>12, <1>13, <1>14, <1>15 DEF Next

(* What a document claims of an interface, and of the rest of the system.  *)
LEMMA InterfaceInForce ==
  ASSUME NEW c, NEW k, Sane(k), Upheld(c, k), NEW n \in Names
  PROVE  LET nif == k.nif[n]
             ifc == InterfaceOf(c, n)
             open == n \in Configured(c) /\ ~ifc.shutdown
         IN  /\ nif.exists <=> n \in Configured(c) \/ ~IsCloned(n)
             /\ nif.up <=> open
             /\ nif.client <=> ifc.dhcp /\ open
             /\ nif.hostap <=> Kind[n] = "physical" /\ IsAP(ifc)
             /\ nif.vlan = ifc.vlan
             /\ TwinFree(n) => ToSet(nif.v4) = ToSet(ifc.ipv4) /\ ToSet(nif.v6) = ToSet(ifc.ipv6)
             /\ nif.members \subseteq ToSet(ifc.members)
             /\ ifc.mtu # 0 => nif.mtu = ifc.mtu
             /\ ifc.media # None => nif.media = ifc.media
             /\ HasWireless(ifc) /\ open => nif.supplicant = Supplicant(ifc.wireless, BridgeOf(c, n))
<1> DEFINE nif == k.nif[n]
           ifc == InterfaceOf(c, n)
           there == n \in Configured(c)
           bridge == BridgeOf(c, n)
           P(of, is, yes) == [of |-> of, n |-> n, is |-> is, yes |-> yes]
<1>1. ASSUME NEW p, IsClaim(p), p.n = n, p.of \in NifFields, Says(n, there, ifc, bridge, p)
      PROVE  p.yes <=> FoundIn(nif, p)
  <2>1. Claimed(c, p)
    BY <1>1 DEF Claimed
  <2>2. Holds(k, p)
    BY <1>1, <2>1 DEF Upheld
  <2> QED
    BY <1>1, <2>2 DEF Holds, Found
<1>2. ASSUME NEW of \in Flags, NEW yes \in BOOLEAN, Says(n, there, ifc, bridge, P(of, TRUE, yes))
      PROVE  yes <=> nif[of]
  <2> DEFINE p == P(of, TRUE, yes)
  <2>1. p.of = of /\ p.n = n /\ p.is = TRUE /\ p.yes = yes
    OBVIOUS
  <2>2. Says(n, there, ifc, bridge, p)
    BY <1>2
  <2> HIDE DEF p, nif, ifc, there, bridge
  <2>3. of \in NifFields \ (Values \cup Families \cup Fields \cup {"members", "routes"})
    BY DEF Flags, NifFields, Values, Families, Fields
  <2>4. IsClaim(p) /\ (FoundIn(nif, p) <=> nif[of] = TRUE)
    BY <2>1, <2>3 DEF IsClaim, FoundIn
  <2>5. yes <=> nif[of] = TRUE
    BY <1>1, <2>1, <2>2, <2>3, <2>4
  <2>6. nif[of] \in BOOLEAN
    BY DEF Sane, SaneNif, nif
  <2> QED
    BY <2>5, <2>6
<1>3. ASSUME NEW of \in Values, NEW is, Says(n, there, ifc, bridge, P(of, is, TRUE))
      PROVE  nif[of] = is
  <2> DEFINE p == P(of, is, TRUE)
  <2>1. p.of = of /\ p.n = n /\ p.is = is /\ p.yes = TRUE
    OBVIOUS
  <2>2. Says(n, there, ifc, bridge, p)
    BY <1>3
  <2> HIDE DEF p, nif, ifc, there, bridge
  <2>3. of \in NifFields \ (Flags \cup Families \cup Fields \cup {"members", "routes"})
    BY DEF Flags, NifFields, Values, Families, Fields
  <2>4. IsClaim(p) /\ (FoundIn(nif, p) <=> nif[of] = is)
    BY <2>1, <2>3 DEF IsClaim, FoundIn
  <2> QED
    BY <1>1, <2>1, <2>2, <2>3, <2>4
<1>4. ASSUME TwinFree(n), NEW of \in Families PROVE ToSet(nif[of]) = ToSet(ListOf(ifc, of))
  <2>1. ASSUME NEW is, NEW yes \in BOOLEAN, yes <=> is \in ToSet(ListOf(ifc, of))
        PROVE  yes <=> is \in ToSet(nif[of])
    <3> DEFINE p == P(of, is, yes)
    <3>1. p.of = of /\ p.n = n /\ p.is = is /\ p.yes = yes
      OBVIOUS
    <3> HIDE DEF p, nif, ifc, there, bridge
    <3>2. of \in NifFields \ (Flags \cup Values \cup Fields \cup {"members", "routes"})
      BY DEF Flags, NifFields, Values, Fields, Families
    <3>3. IsClaim(p) /\ (FoundIn(nif, p) <=> is \in ToSet(nif[of]))
      BY <1>4, <3>1, <3>2 DEF IsClaim, FoundIn
    <3>4. Says(n, there, ifc, bridge, p)
      BY <2>1, <3>1, <3>2 DEF Says, Flags, Values
    <3> QED
      BY <1>1, <3>1, <3>2, <3>3, <3>4
  <2>2. ASSUME NEW is PROVE is \in ToSet(ListOf(ifc, of)) <=> is \in ToSet(nif[of])
    <3>1. CASE is \in ToSet(ListOf(ifc, of))
      <4>1. TRUE \in BOOLEAN /\ (TRUE <=> is \in ToSet(ListOf(ifc, of)))
        BY <3>1
      <4> QED
        BY <2>1, <3>1, <4>1
    <3>2. CASE is \notin ToSet(ListOf(ifc, of))
      <4>1. FALSE \in BOOLEAN /\ (FALSE <=> is \in ToSet(ListOf(ifc, of)))
        BY <3>2
      <4> QED
        BY <2>1, <3>2, <4>1
    <3> QED
      BY <3>1, <3>2
  <2> HIDE DEF nif, ifc
  <2> QED
    BY <2>2
<1>5. ASSUME NEW is \in nif.members PROVE is \in ToSet(ifc.members)
  <2> DEFINE p == P("members", is, FALSE)
  <2>1. p.of = "members" /\ p.n = n /\ p.is = is /\ p.yes = FALSE
    OBVIOUS
  <2> HIDE DEF p, nif, ifc, there, bridge
  <2>2. "members" \in NifFields \ (Flags \cup Values \cup Fields \cup Families)
    BY DEF Flags, NifFields, Values, Fields, Families
  <2>3. IsClaim(p) /\ (FoundIn(nif, p) <=> is \in nif.members)
    BY <2>1, <2>2 DEF IsClaim, FoundIn
  <2>4. is \notin ToSet(ifc.members) => Says(n, there, ifc, bridge, p)
    BY <2>1, <2>2 DEF Says, Flags, Values
  <2> QED
    BY <1>1, <1>5, <2>1, <2>2, <2>3, <2>4
<1>6. /\ \A yes \in BOOLEAN : Says(n, there, ifc, bridge, P("exists", TRUE, yes))
                                <=> (yes <=> there \/ ~IsCloned(n))
      /\ \A yes \in BOOLEAN : Says(n, there, ifc, bridge, P("up", TRUE, yes))
                                <=> (yes <=> there /\ ~ifc.shutdown)
      /\ \A yes \in BOOLEAN : Says(n, there, ifc, bridge, P("client", TRUE, yes))
                                <=> (yes <=> ifc.dhcp /\ there /\ ~ifc.shutdown)
      /\ \A yes \in BOOLEAN : Says(n, there, ifc, bridge, P("hostap", TRUE, yes))
                                <=> (yes <=> Kind[n] = "physical" /\ IsAP(ifc))
  BY DEF Says
<1>7. /\ Says(n, there, ifc, bridge, P("vlan", ifc.vlan, TRUE))
      /\ ifc.mtu # 0 => Says(n, there, ifc, bridge, P("mtu", ifc.mtu, TRUE))
      /\ ifc.media # None => Says(n, there, ifc, bridge, P("media", ifc.media, TRUE))
      /\ HasWireless(ifc) /\ there /\ ~ifc.shutdown =>
           Says(n, there, ifc, bridge, P("supplicant", Supplicant(ifc.wireless, bridge), TRUE))
  BY DEF Says
<1> HIDE DEF P, nif, ifc, there, bridge
<1>8. {"exists", "up", "client", "hostap"} = Flags
  BY DEF Flags
<1>9. /\ nif["exists"] <=> there \/ ~IsCloned(n)
      /\ nif["up"] <=> there /\ ~ifc.shutdown
      /\ nif["client"] <=> ifc.dhcp /\ there /\ ~ifc.shutdown
      /\ nif["hostap"] <=> Kind[n] = "physical" /\ IsAP(ifc)
  BY <1>2, <1>6, <1>8
<1>10. {"vlan", "mtu", "media", "supplicant"} = Values
  BY DEF Values
<1>11. /\ nif["vlan"] = ifc.vlan
       /\ ifc.mtu # 0 => nif["mtu"] = ifc.mtu
       /\ ifc.media # None => nif["media"] = ifc.media
       /\ HasWireless(ifc) /\ there /\ ~ifc.shutdown =>
            nif["supplicant"] = Supplicant(ifc.wireless, bridge)
  BY <1>3, <1>7, <1>10
<1>12. TwinFree(n) => ToSet(nif["v4"]) = ToSet(ifc.ipv4) /\ ToSet(nif["v6"]) = ToSet(ifc.ipv6)
  BY <1>4 DEF Families, ListOf
<1> QED
  BY <1>5, <1>9, <1>11, <1>12 DEF nif, ifc, there, bridge

LEMMA RestInForce ==
  ASSUME NEW c, NEW k, Sane(k), Upheld(c, k)
  PROVE  /\ \A p \in DOMAIN k.routes :
              \E r \in ToSet(c.routes) : r.prefix = p /\ r.nexthop = k.routes[p]
         /\ c.hostname # None => k.hostname = c.hostname
         /\ c.servers # <<>> => k.resolv = [domain |-> c.domain, servers |-> c.servers]
         /\ k.forward = c.routing /\ k.forward6 = c.routing6
         /\ k.rules = RuleSet(c) /\ k.rulesOnDisk = RuleSet(c)
         /\ k.dhcpd = Serving(c)
<1> DEFINE P(of, n, is, yes) == [of |-> of, n |-> n, is |-> is, yes |-> yes]
<1>1. ASSUME NEW n \in DOMAIN k.routes
      PROVE  \E r \in ToSet(c.routes) : r.prefix = n /\ r.nexthop = k.routes[n]
  <2> DEFINE p == P("routes", n, k.routes[n], FALSE)
  <2>1. p.of = "routes" /\ p.n = n /\ p.is = k.routes[n] /\ p.yes = FALSE
    OBVIOUS
  <2> HIDE DEF p
  <2>2. "routes" \notin NifFields \cup Values \cup Fields \cup Flags \cup Families
    BY DEF Flags, NifFields, Values, Fields, Families
  <2>3. IsClaim(p) /\ Found(k, p)
    BY <2>1, <2>2 DEF IsClaim, Found
  <2>4. ~Holds(k, p)
    BY <2>1, <2>3 DEF Holds
  <2>5. ~Claimed(c, p)
    BY <2>3, <2>4 DEF Upheld
  <2> QED
    BY <2>1, <2>2, <2>5 DEF Claimed
<1>2. ASSUME NEW of \in Fields, NEW is, Claimed(c, P(of, None, is, TRUE)) PROVE k[of] = is
  <2> DEFINE p == P(of, None, is, TRUE)
  <2>1. p.of = of /\ p.is = is /\ p.yes = TRUE
    OBVIOUS
  <2>2. Claimed(c, p)
    BY <1>2
  <2> HIDE DEF p
  <2>3. of \notin NifFields \cup {"routes", "members"}
    BY DEF Flags, NifFields, Values, Fields, Families
  <2>4. IsClaim(p) /\ (Found(k, p) <=> k[of] = is)
    BY <2>1, <2>3 DEF IsClaim, Found, NifFields
  <2> QED
    BY <2>1, <2>2, <2>4 DEF Upheld, Holds
<1>3. /\ c.hostname # None => Claimed(c, P("hostname", None, c.hostname, TRUE))
      /\ c.servers # <<>> =>
           Claimed(c, P("resolv", None, [domain |-> c.domain, servers |-> c.servers], TRUE))
      /\ Claimed(c, P("forward", None, c.routing, TRUE))
      /\ Claimed(c, P("forward6", None, c.routing6, TRUE))
      /\ Claimed(c, P("rules", None, RuleSet(c), TRUE))
      /\ Claimed(c, P("rulesOnDisk", None, RuleSet(c), TRUE))
      /\ Claimed(c, P("dhcpd", None, Serving(c), TRUE))
  BY DEF Claimed, NifFields, Flags, Values, Families
<1> HIDE DEF P
<1>4. Fields = {"hostname", "resolv", "forward", "forward6", "rules", "rulesOnDisk", "dhcpd"}
  BY DEF Fields
<1>5. /\ c.hostname # None => k["hostname"] = c.hostname
      /\ c.servers # <<>> => k["resolv"] = [domain |-> c.domain, servers |-> c.servers]
      /\ k["forward"] = c.routing /\ k["forward6"] = c.routing6
      /\ k["rules"] = RuleSet(c) /\ k["rulesOnDisk"] = RuleSet(c)
      /\ k["dhcpd"] = Serving(c)
  BY <1>2, <1>3, <1>4
<1> QED
  BY <1>1, <1>5

(* Whatever changes have been made, have failed and have been rolled back, *)
(* whichever document the system was booted with, and if this one is       *)
(* booted again while in force: when the applier is idle, what the         *)
(* recorded document says is in force, unless a command of a boot or a     *)
(* rollback has failed, or another document was booted while one was in    *)
(* force, which leaves what that one had; and but for the addresses of an  *)
(* interface to which some document gives one twice.                       *)
THEOREM RecordIsInForce == Spec => []AsRecorded
<1>1. RecordInv => AsRecorded
  <2> SUFFICES ASSUME RecordInv, phase = "idle", ~lost, ~overlaid PROVE AsRecorded
    BY DEF AsRecorded
  <2>1. Sane(kernel) /\ Upheld(Effective(running), kernel)
    BY DEF RecordInv
  <2> DEFINE e == Effective(running)
  <2> HIDE DEF e
  <2>3. Upheld(e, kernel)
    BY <2>1 DEF e
  <2> QED
    BY <2>1, <2>3, InterfaceInForce, RestInForce DEF AsRecorded, e
<1> QED
  BY <1>1, RecordStarts, RecordStep, ApplierInvariant, PTL DEF Spec

=============================================================================
