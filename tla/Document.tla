------------------------------ MODULE Document ------------------------------
(***************************************************************************)
(* The document behind a configuration: config.Config and its rules.       *)
(* Module Configuration sees it as a bag of independent pieces; here the   *)
(* pieces refer to each other.                                             *)
(*                                                                         *)
(* Names, addresses and rules are values.  An address is a network and a   *)
(* host in it, host 0 being the address of the network itself.  Patterns,  *)
(* lengths and number ranges of single fields (a hostname, a channel, a    *)
(* port) are left out: they concern no other field.                        *)
(***************************************************************************)
EXTENDS Lists, FiniteSets, SequencesExt

CONSTANTS
  Names,      \* interface names (strings)
  Kind,       \* InterfaceKind of each
  Rank,       \* place of each among those of its kind: driver, then unit
  MaxSeq      \* largest access-list sequence number, 2147483647 in the code

None == ""

KindOrder == [loopback |-> 0, physical |-> 1, vlan |-> 2, wlan |-> 3, bridge |-> 4]

ASSUME DocumentAssumption ==
  /\ None \notin Names
  /\ \A n \in Names : Kind[n] \in DOMAIN KindOrder /\ Rank[n] \in Nat
  /\ \A m, n \in Names : Kind[m] = Kind[n] /\ Rank[m] = Rank[n] => m = n
  /\ MaxSeq \in Nat \ {0}

When(condition, s) == IF condition THEN s ELSE <<>>
Each(s, Op(_)) == FlattenSeq([i \in DOMAIN s |-> Op(s[i])])
Minus(a, b) == Only(a, ToSet(a) \ ToSet(b))

(* IsCloned: the interface exists only once it has been created.           *)
IsCloned(n) == Kind[n] \in {"vlan", "bridge", "wlan"}

(* SortInterfaceNames                                                      *)
Precedes(m, n) ==
  \/ KindOrder[Kind[m]] < KindOrder[Kind[n]]
  \/ Kind[m] = Kind[n] /\ Rank[m] < Rank[n]

-----------------------------------------------------------------------------
(* Parts of a document                                                     *)

Empty == <<>>                       \* the map with no key

NoVLAN == [id |-> 0, parent |-> None]

(* mode "none": no wireless settings at all; mode "": settings without a   *)
(* mode yet.  network stands for SSID, security and key together.          *)
NoWireless == [mode |-> "none", device |-> None, network |-> None]

NewInterface ==
  [description |-> None, shutdown |-> FALSE, mtu |-> 0, media |-> None, dhcp |-> FALSE,
   ipv4 |-> <<>>, ipv6 |-> <<>>, aclIn |-> None, aclOut |-> None,
   vlan |-> NoVLAN, members |-> <<>>, wireless |-> NoWireless]

NoAddress == [net |-> None, host |-> 0]

NewPool ==
  [network |-> None, start |-> NoAddress, end |-> NoAddress, routers |-> <<>>, hosts |-> <<>>]

(* config.New                                                              *)
NewDocument ==
  [hostname |-> "router", domain |-> None, servers |-> <<>>,
   routing |-> FALSE, routing6 |-> FALSE, secret |-> None, users |-> Empty,
   interfaces |-> Empty, routes |-> <<>>, acls |-> Empty, nat |-> <<>>,
   pools |-> Empty, web |-> [enabled |-> FALSE, tls |-> FALSE]]

(* The types Config, Interface and ACE, as far as the fields refer to each *)
(* other or are lists: what every decoded or edited document has.          *)
IsMap(m) == m = [k \in DOMAIN m |-> m[k]]

IsInterface(ifc) ==
  /\ IsMap(ifc) /\ DOMAIN ifc = DOMAIN NewInterface
  /\ IsList(ifc.members) /\ IsList(ifc.ipv4) /\ IsList(ifc.ipv6)

IsEntries(entries) ==
  /\ IsList(entries)
  /\ \A i \in DOMAIN entries :
       DOMAIN entries[i] = {"seq", "action", "rule"} /\ entries[i].seq \in Nat

IsDocument(c) ==
  /\ IsMap(c) /\ DOMAIN c = DOMAIN NewDocument
  /\ IsMap(c.interfaces) /\ IsFiniteSet(DOMAIN c.interfaces)
  /\ \A n \in DOMAIN c.interfaces : IsInterface(c.interfaces[n])
  /\ IsMap(c.acls) /\ \A a \in DOMAIN c.acls : IsEntries(c.acls[a])
  /\ IsList(c.nat) /\ IsList(c.routes)

Configured(c) == DOMAIN c.interfaces

(* Config.InterfaceNames                                                   *)
InterfaceNames(c) ==
  [i \in 1 .. Cardinality(Configured(c)) |->
     CHOOSE n \in Configured(c) : Cardinality({m \in Configured(c) : Precedes(m, n)}) = i - 1]

Updated(map, key, value) ==
  [k \in DOMAIN map \cup {key} |-> IF k = key THEN value ELSE map[k]]

Without(map, key) == [k \in DOMAIN map \ {key} |-> map[k]]

(* Config.Interface: the entry, made if it is missing.                     *)
InterfaceOf(c, n) ==
  IF n \in Configured(c) THEN c.interfaces[n] ELSE NewInterface

WithInterface(c, n, ifc) == [c EXCEPT !.interfaces = Updated(@, n, ifc)]

(* Config.Normalize: entries in the order of their sequence numbers, equal *)
(* ones in the order in which they came.                                   *)
Earlier(entries, i, j) ==
  \/ entries[i].seq < entries[j].seq
  \/ entries[i].seq = entries[j].seq /\ i < j

Place(entries, i) == Cardinality({j \in DOMAIN entries : Earlier(entries, j, i)}) + 1

SortedEntries(entries) ==
  [i \in DOMAIN entries |-> entries[CHOOSE j \in DOMAIN entries : Place(entries, j) = i]]

Normalize(c) ==
  [c EXCEPT !.acls = [a \in DOMAIN @ |-> SortedEntries(@[a])]]

-----------------------------------------------------------------------------
(* Config.Validate                                                         *)

(* Mutant: the list of outgoing packets is not looked up.                  *)
ListsExistInbound(c, ifc) == ifc.aclIn \in DOMAIN c.acls \cup {None}

ListsExist(c, ifc) == {ifc.aclIn, ifc.aclOut} \subseteq DOMAIN c.acls \cup {None}

ValidInterface(c, n) ==
  LET ifc == c.interfaces[n]
      kind == Kind[n]
  IN
  /\ ifc.dhcp => ifc.ipv4 = <<>>
  /\ ListsExist(c, ifc)
  /\ IF kind = "vlan" THEN ifc.vlan # NoVLAN /\ ifc.vlan.parent \in Configured(c)
                      ELSE ifc.vlan = NoVLAN
  /\ IF kind = "bridge" THEN ToSet(ifc.members) \subseteq Configured(c) \ {n}
                        ELSE ifc.members = <<>>
  /\ ifc.wireless # NoWireless =>
       /\ kind \in {"physical", "wlan"}
       /\ kind = "physical" => ifc.wireless.device = None

ValidEntries(entries) ==
  /\ \A e \in ToSet(entries) : e.seq \in 1 .. MaxSeq
  /\ \A i, j \in DOMAIN entries : entries[i].seq = entries[j].seq => i = j

ValidPool(p) ==
  LET inNet(a) == a.net = p.network IN
  /\ p.network # None
  /\ p.start = NoAddress <=> p.end = NoAddress
  /\ p.start # NoAddress => inNet(p.start) /\ inNet(p.end) /\ p.start.host <= p.end.host
  /\ \A a \in ToSet(p.routers) : inNet(a)
  /\ \A h \in ToSet(p.hosts) : inNet(h.address)

Validate(c) ==
  /\ \A n \in Configured(c) : ValidInterface(c, n)
  /\ \A a \in DOMAIN c.acls : ValidEntries(c.acls[a])
  /\ \A r \in ToSet(c.nat) : r.interface \in Configured(c)
  /\ \A p \in DOMAIN c.pools : ValidPool(c.pools[p])

(* Every interface comes after those it is built on.                       *)
Orderly(c) ==
  \A n \in Configured(c) :
    /\ Kind[n] = "vlan" => Precedes(c.interfaces[n].vlan.parent, n)
    /\ \A m \in ToSet(c.interfaces[n].members) : Precedes(m, n)

-----------------------------------------------------------------------------
(* What of a document is applied                                           *)

(* Wireless.Ready                                                          *)
Ready(w, kind) ==
  /\ w.mode \in {"station", "hostap"}
  /\ w.network # None
  /\ kind = "wlan" => w.device # None

Remaining(c) ==
  {n \in Configured(c) : Kind[n] = "wlan" => Ready(c.interfaces[n].wireless, Kind[n])}

(* Mutant: a bridge keeps members that are left out.                       *)
TrimMembersKept(ifc, kind, kept) ==
  [ifc EXCEPT !.wireless = IF Ready(@, kind) THEN @ ELSE NoWireless]

Trim(ifc, kind, kept) ==
  [ifc EXCEPT !.wireless = IF Ready(@, kind) THEN @ ELSE NoWireless,
              !.members = Only(@, kept)]

(* Effective: wireless settings that are not complete are left out, and    *)
(* with them the wlanN interfaces and their places in bridges.             *)
Effective(c) ==
  LET kept == Remaining(c) IN
  [c EXCEPT !.interfaces = [n \in kept |-> Trim(c.interfaces[n], Kind[n], kept)]]

(* bridgeOf: in a valid document edited by the CLI there is at most one.   *)
BridgeOf(c, n) ==
  LET bridges == {b \in Configured(c) : Contains(c.interfaces[b].members, n)}
  IN  IF bridges = {} THEN None ELSE CHOOSE b \in bridges : TRUE

(* render.NPF: the rule set, which must be a function of the document.  A  *)
(* list ends in the implicit deny, no list permits all.  infra: the rules  *)
(* for neighbour discovery and DHCP replies that come before the list.     *)
RulesOf(c, a) ==
  IF a \in DOMAIN c.acls
  THEN [i \in DOMAIN c.acls[a] |-> [action |-> c.acls[a][i].action, rule |-> c.acls[a][i].rule]]
       \o <<[action |-> "deny", rule |-> "implicit"]>>
  ELSE <<[action |-> "permit", rule |-> "all"]>>

Filtered(c) ==
  {n \in Configured(c) : {c.interfaces[n].aclIn, c.interfaces[n].aclOut} \cap DOMAIN c.acls # {}}

Group(c, n) ==
  LET ifc == c.interfaces[n] IN
  [in |-> RulesOf(c, ifc.aclIn), out |-> RulesOf(c, ifc.aclOut),
   infra |-> IF ifc.aclIn \in DOMAIN c.acls THEN <<ifc.ipv6 # <<>>, ifc.dhcp>>
                                             ELSE <<FALSE, FALSE>>]

RuleSet(c) == [nat |-> c.nat, groups |-> [n \in Filtered(c) |-> Group(c, n)]]

(* render.Dhcpd: the pools, and the interfaces with an address in one.     *)
DhcpdConf(c) ==
  LET nets == {c.pools[p].network : p \in DOMAIN c.pools} IN
  [pools |-> c.pools,
   serves |-> {n \in Configured(c) : \E a \in ToSet(c.interfaces[n].ipv4) : a.net \in nets}]
=============================================================================
