------------------------------- MODULE Editor -------------------------------
(***************************************************************************)
(* The configuration commands of the CLI (cmd_config.go), the modes of a   *)
(* session (session.go) and the text that shows a configuration            *)
(* (text.go), over the documents of module Document.                       *)
(*                                                                         *)
(* Every command is one call of Manager.Change, which module Manager       *)
(* shows to be atomic; here it succeeds whenever Validate does.  A command *)
(* is a record: op names it, no marks its "no" form, arg is its argument.  *)
(* Values whose form alone is checked (an MTU, a description) are opaque;  *)
(* ssid stands for the network's name, security and key.                   *)
(***************************************************************************)
EXTENDS Document, AccessRule

CONSTANTS
  Sessions,
  Commands,     \* the commands that each session may enter
  Documents,    \* configurations that may be found or put in place as a whole
  MaxServers,   \* 6 in the code
  MaxChanges    \* bound: changes of the document in a behaviour

VARIABLES
  document,     \* the running configuration
  session,      \* mode of each session and the object it edits
  changes       \* how often the document has changed

editorVars == <<document, session, changes>>

Command(no, op, argument) == [no |-> no, op |-> op, arg |-> argument]
Line(op, argument) == Command(FALSE, op, argument)

(* An edit gives the set of documents it may lead to: none if it is        *)
(* refused, the document itself if there is nothing to do.                 *)
Allowed(condition, c) == IF condition THEN {c} ELSE {}

Added(s, x) == IF Contains(s, x) THEN s ELSE Append(s, x)

-----------------------------------------------------------------------------
(* Global configuration                                                    *)

Globals == {"hostname", "domain", "name-server", "routing", "routing6", "secret", "username"}

EditGlobal(c, k) ==
  LET set == ~k.no
      servers == IF set THEN FoldLeft(Added, c.servers, k.arg)
                 ELSE IF k.arg = <<>> THEN <<>> ELSE Minus(c.servers, k.arg)
  IN
  CASE k.op = "hostname" -> {[c EXCEPT !.hostname = IF set THEN k.arg ELSE "router"]}
    [] k.op = "domain"   -> {[c EXCEPT !.domain = IF set THEN k.arg ELSE None]}
    [] k.op = "routing"  -> {[c EXCEPT !.routing = set]}
    [] k.op = "routing6" -> {[c EXCEPT !.routing6 = set]}
    [] k.op = "secret"   -> {[c EXCEPT !.secret = IF set THEN k.arg ELSE None]}
    [] k.op = "name-server" ->
         Allowed(k.no \/ Len(servers) <= MaxServers, [c EXCEPT !.servers = servers])
    [] k.op = "username" ->
         {[c EXCEPT !.users = IF set THEN Updated(@, k.arg.name, k.arg.secret)
                                     ELSE Without(@, k.arg.name)]}

(* routeNode: a route may be deleted by its prefix alone.                  *)
EditRoute(c, k) ==
  LET named(r) == r.prefix = k.arg.prefix /\ k.arg.nexthop \in {r.nexthop, None}
      left == Only(c.routes, {r \in ToSet(c.routes) : ~named(r)})
  IN
  IF k.no THEN Allowed(left # c.routes, [c EXCEPT !.routes = left])
          ELSE {[c EXCEPT !.routes = Added(@, k.arg)]}

(* natNode: an overload rule is entered once; a port of an interface is    *)
(* forwarded once, whether or not to the same place.                       *)
Forwards(r, q) ==
  /\ r.type = "static" /\ q.type = "static"
  /\ r.interface = q.interface /\ r.protocol = q.protocol /\ r.port = q.port

EditNAT(c, k) ==
  LET left == Minus(c.nat, <<k.arg>>)
      taken == \E r \in ToSet(c.nat) : Forwards(r, k.arg)
  IN
  IF k.no THEN Allowed(left # c.nat, [c EXCEPT !.nat = left])
          ELSE Allowed(~taken, [c EXCEPT !.nat = Added(@, k.arg)])

(* httpNode: "no ip http server" leaves a secure server alone, and the     *)
(* other way round.                                                        *)
EditHTTP(c, k) ==
  LET tls == k.op = "secure-server" IN
  {[c EXCEPT !.web = IF k.no THEN [@ EXCEPT !.enabled = @ /\ c.web.tls # tls]
                     ELSE [enabled |-> TRUE, tls |-> tls]]}

(* The commands that open a part of the document.  A physical interface    *)
(* gets an entry at once, an access list too; a cloned interface and a     *)
(* pool only with the first setting that is valid.                         *)
EditInterfaces(c, k) ==
  IF k.no THEN {[c EXCEPT !.interfaces = Without(@, k.arg)]}
  ELSE IF Kind[k.arg] = "loopback" THEN {}
  ELSE IF IsCloned(k.arg) THEN {c}
  ELSE {WithInterface(c, k.arg, InterfaceOf(c, k.arg))}

ListOf(c, a) == IF a \in DOMAIN c.acls THEN c.acls[a] ELSE <<>>

EditLists(c, k) ==
  {[c EXCEPT !.acls = IF k.no THEN Without(@, k.arg)
                              ELSE Updated(@, k.arg, ListOf(c, k.arg))]}

EditPools(c, k) ==
  {IF k.no THEN [c EXCEPT !.pools = Without(@, k.arg)] ELSE c}

-----------------------------------------------------------------------------
(* Interface configuration: changeIf, which makes the entry if another     *)
(* session has removed it.                                                 *)

(* A primary address replaces the first one, after it has been taken from  *)
(* the others.                                                             *)
EditAddress(c, n, k) ==
  LET ifc == InterfaceOf(c, n)
      others == Minus(ifc.ipv4, <<k.arg>>)
      primary == <<k.arg>> \o (IF others = <<>> THEN <<>> ELSE Tail(others))
  IN
  {WithInterface(c, n, new) : new \in
     IF k.no THEN Allowed(others # ifc.ipv4, [ifc EXCEPT !.ipv4 = others])
     ELSE IF k.arg.host = 0 THEN {}
     ELSE IF k.op = "secondary"
       THEN Allowed(ifc.ipv4 # <<>>, [ifc EXCEPT !.dhcp = FALSE, !.ipv4 = Added(@, k.arg)])
     ELSE {[ifc EXCEPT !.dhcp = FALSE, !.ipv4 = primary]}}

(* Mutant: an address that is there is entered again.                      *)
EditAddress6Again(c, n, k) ==
  LET ifc == InterfaceOf(c, n)
      others == Minus(ifc.ipv6, <<k.arg>>)
  IN
  IF k.no THEN Allowed(others # ifc.ipv6, WithInterface(c, n, [ifc EXCEPT !.ipv6 = others]))
  ELSE {WithInterface(c, n, [ifc EXCEPT !.ipv6 = Append(@, k.arg)])}

EditAddress6(c, n, k) ==
  LET ifc == InterfaceOf(c, n)
      others == Minus(ifc.ipv6, <<k.arg>>)
  IN
  IF k.no THEN Allowed(others # ifc.ipv6, WithInterface(c, n, [ifc EXCEPT !.ipv6 = others]))
  ELSE IF Contains(ifc.ipv6, k.arg) THEN {c}
  ELSE {WithInterface(c, n, [ifc EXCEPT !.ipv6 = Append(@, k.arg)])}

(* The commands that only set a field.                                     *)
EditField(c, n, k) ==
  LET ifc == InterfaceOf(c, n)
      set(default) == IF k.no THEN default ELSE k.arg
  IN
  {WithInterface(c, n,
     CASE k.op = "description" -> [ifc EXCEPT !.description = set(None)]
       [] k.op = "shutdown"    -> [ifc EXCEPT !.shutdown = ~k.no]
       [] k.op = "mtu"         -> [ifc EXCEPT !.mtu = set(0)]
       [] k.op = "media"       -> [ifc EXCEPT !.media = set(None)]
       [] k.op = "dhcp"        -> [ifc EXCEPT !.dhcp = ~k.no, !.ipv4 = IF k.no THEN @ ELSE <<>>]
       [] k.op = "addresses"   -> [ifc EXCEPT !.dhcp = FALSE, !.ipv4 = <<>>]
       [] k.op = "addresses6"  -> [ifc EXCEPT !.ipv6 = <<>>])}

(* ip access-group list in|out, no ip access-group [list] in|out: a list   *)
(* that is named must be the one.  The parser prefers a keyword, whole or  *)
(* begun, to an argument: a list with such a name cannot be named here.    *)
Directions == {"i", "in", "o", "ou", "out"}

EditGroup(c, n, k) ==
  LET ifc == InterfaceOf(c, n)
      field == IF k.op = "group-in" THEN "aclIn" ELSE "aclOut"
  IN
  Allowed(k.arg \notin Directions /\ (k.no => k.arg \in {None, ifc[field]}),
          WithInterface(c, n, [ifc EXCEPT ![field] = IF k.no THEN None ELSE k.arg]))

EditVLAN(c, n, k) ==
  LET ifc == InterfaceOf(c, n) IN
  Allowed(k.no \/ Kind[n] = "vlan",
          WithInterface(c, n, [ifc EXCEPT !.vlan = IF k.no THEN NoVLAN ELSE k.arg]))

(* Mutant: only this bridge is searched.                                   *)
ElsewhereHere(c, n, m) == Contains(InterfaceOf(c, n).members, m)

Elsewhere(c, n, m) ==
  \E b \in Configured(c) \ {n} : Contains(c.interfaces[b].members, m)

EditMember(c, n, k) ==
  LET ifc == InterfaceOf(c, n)
      isMember == Contains(ifc.members, k.arg)
  IN
  IF k.no THEN Allowed(isMember, WithInterface(c, n, [ifc EXCEPT !.members = Minus(@, <<k.arg>>)]))
  ELSE IF Kind[n] # "bridge" \/ Elsewhere(c, n, k.arg) THEN {}
  ELSE IF isMember THEN {c}
  ELSE {WithInterface(c, n, [ifc EXCEPT !.members = Append(@, k.arg)])}

(* wirelessNode: the first setting makes a station.                        *)
EditWireless(c, n, k) ==
  LET ifc == InterfaceOf(c, n)
      w == IF ifc.wireless = NoWireless THEN [NoWireless EXCEPT !.mode = "station"]
                                        ELSE ifc.wireless
      field == IF k.op = "ssid" THEN "network" ELSE k.op
      With(new) == {WithInterface(c, n, [ifc EXCEPT !.wireless = new])}
  IN
  IF k.op = "wireless" THEN With(NoWireless)
  ELSE IF k.no THEN IF ifc.wireless = NoWireless THEN {c} ELSE With([w EXCEPT ![field] = None])
  ELSE IF Kind[n] \notin {"physical", "wlan"} THEN {}
  ELSE With([w EXCEPT ![field] = k.arg])

-----------------------------------------------------------------------------
(* Access list configuration                                               *)

(* sameRule: entries that are written alike, whatever their numbers.       *)
SameRule(e, f) == e.action = f.action /\ FormatRule(e.rule) = FormatRule(f.rule)

LastNumber(entries) == Max({0} \cup {e.seq : e \in ToSet(entries)})

(* Mutant: the next number counts the entries.                             *)
NextNumberByLength(entries) == (Len(entries) + 1) * 10

NextNumber(entries) == (LastNumber(entries) \div 10 + 1) * 10

(* "no" with a rule ignores a number that precedes it; without a number an *)
(* entry that is there already is not entered again.                       *)
EditEntry(c, a, k) ==
  LET parsed == ParseRule(k.arg.action, k.arg.words)
      entries == ListOf(c, a)
      numbered == k.arg.seq # 0
      entry == [seq |-> IF numbered THEN k.arg.seq ELSE NextNumber(entries),
                action |-> k.arg.action, rule |-> parsed.value]
      present == \E e \in ToSet(entries) : SameRule(e, entry)
      taken == \E e \in ToSet(entries) : e.seq = k.arg.seq
      others == {e \in ToSet(entries) : ~SameRule(e, entry)}
  IN
  IF ~parsed.ok THEN {}
  ELSE IF k.no THEN Allowed(present, [c EXCEPT !.acls = Updated(@, a, Only(entries, others))])
  ELSE IF numbered /\ taken THEN {}
  ELSE IF ~numbered /\ present THEN {c}
  ELSE {[c EXCEPT !.acls = Updated(@, a, Append(entries, entry))]}

(* no N: the entry with this number.                                       *)
EditNumber(c, a, k) ==
  LET left == Only(ListOf(c, a), {e \in ToSet(ListOf(c, a)) : e.seq # k.arg})
  IN  Allowed(left # ListOf(c, a), [c EXCEPT !.acls = Updated(@, a, left)])

Resequence(c, a) ==
  {IF a \notin DOMAIN c.acls THEN c
   ELSE [c EXCEPT !.acls[a] = [i \in DOMAIN @ |-> [@[i] EXCEPT !.seq = 10 * i]]]}

-----------------------------------------------------------------------------
(* DHCP pool configuration: changePool, which makes the pool.  A           *)
(* reservation replaces the one of its name and conflicts with another of  *)
(* its address or MAC.                                                     *)
EditPool(c, p, k) ==
  LET pool == IF p \in DOMAIN c.pools THEN c.pools[p] ELSE NewPool
      differs(h) == h.name # k.arg.name
      others == SelectSeq(pool.hosts, differs)
      conflict == \E h \in ToSet(others) : h.mac = k.arg.mac \/ h.address = k.arg.address
      range == IF k.no THEN [start |-> NoAddress, end |-> NoAddress] ELSE k.arg
  IN
  {[c EXCEPT !.pools = Updated(@, p, new)] : new \in
     CASE k.op = "network" -> {[pool EXCEPT !.network = k.arg]}
       [] k.op = "range"   -> {[pool EXCEPT !.start = range.start, !.end = range.end]}
       [] k.op = "routers" -> {[pool EXCEPT !.routers = IF k.no THEN <<>> ELSE k.arg]}
       [] k.op = "host" /\ k.no -> Allowed(others # pool.hosts, [pool EXCEPT !.hosts = others])
       [] OTHER -> Allowed(~conflict, [pool EXCEPT !.hosts = Append(others, k.arg)])}

-----------------------------------------------------------------------------
(* Sessions                                                                *)

Everywhere == {"exit", "end", "do"}
UserOps == {"exit", "enable"}
ExecOps == {"exit", "enable", "disable", "configure"}
ConfigOps == Everywhere \cup Globals \cup
  {"route", "nat", "server", "secure-server", "interface", "access-list", "pool"}
FieldOps == {"description", "shutdown", "mtu", "media", "dhcp", "addresses", "addresses6"}
WirelessOps == {"wireless", "mode", "device", "ssid"}
InterfaceOps == Everywhere \cup FieldOps \cup WirelessOps \cup
  {"address", "secondary", "address6", "group-in", "group-out", "encapsulation", "member"}
ListOps == Everywhere \cup {"entry", "number", "resequence"}
PoolOps == Everywhere \cup {"network", "range", "routers", "host"}

Submodes == {"interface", "acl", "pool"}
ConfigModes == {"config"} \cup Submodes

Ops == ExecOps \cup ConfigOps \cup InterfaceOps \cup ListOps \cup PoolOps

(* What the parser makes of a line.                                        *)
IsCommand(k) ==
  /\ k.op \in Ops /\ k.no \in BOOLEAN
  /\ k.op = "entry" => k.arg.seq \in Nat

ASSUME EditorAssumption ==
  /\ DOMAIN Commands = Sessions
  /\ MaxServers \in Nat /\ MaxChanges \in Nat
  /\ \A d \in Documents : IsDocument(d) /\ Validate(d) /\ Normalize(d) = d
  /\ \A s \in Sessions : \A k \in Commands[s] : IsCommand(k)

(* Session.tree                                                            *)
Tree(mode) ==
  CASE mode = "user" -> UserOps [] mode = "exec" -> ExecOps [] mode = "config" -> ConfigOps
    [] mode = "interface" -> InterfaceOps [] mode = "acl" -> ListOps [] mode = "pool" -> PoolOps

(* runnable: the forms a command has.                                      *)
HasForm(k) ==
  IF k.no THEN k.op \notin Everywhere \cup {"mode", "network", "resequence"}
          ELSE k.op \notin {"addresses", "addresses6", "wireless", "number"}

(* object: the interface, list or pool that the mode is about.             *)
NewSession(mode) == [mode |-> mode, object |-> None, quit |-> FALSE]

(* The EXEC commands: exit, enable with its password, disable, configure.  *)
ExecMove(s, c, k) ==
  CASE k.op = "exit" -> [s EXCEPT !.quit = TRUE]
    [] k.op = "enable" ->
         IF s.mode = "user" /\ c.secret \notin {None, k.arg} THEN s ELSE NewSession("exec")
    [] k.op = "disable" -> NewSession("user")
    [] k.op = "configure" -> NewSession("config")
    [] OTHER -> s

(* doExec: an EXEC command in EXEC mode, and back, unless it led elsewhere.*)
DoExec(s, c, k) ==
  LET t == IF k.op \in ExecOps \ {"configure"}
           THEN ExecMove(NewSession("exec"), c, k) ELSE NewSession("exec")
  IN  IF t.mode = "exec" THEN [s EXCEPT !.quit = t.quit] ELSE t

(* exitMode, End, and the rest                                             *)
Move(s, c, k) ==
  IF k.op = "do" THEN DoExec(s, c, k.arg)
  ELSE IF s.mode \notin ConfigModes THEN ExecMove(s, c, k)
  ELSE NewSession(IF k.op = "end" \/ s.mode = "config" THEN "exec" ELSE "config")

Edit(s, c, k) ==
  CASE k.op \in Globals -> EditGlobal(c, k)
    [] k.op = "route" -> EditRoute(c, k)
    [] k.op = "nat" -> EditNAT(c, k)
    [] k.op \in {"server", "secure-server"} -> EditHTTP(c, k)
    [] k.op = "interface" -> EditInterfaces(c, k)
    [] k.op = "access-list" -> EditLists(c, k)
    [] k.op = "pool" -> EditPools(c, k)
    [] k.op \in {"address", "secondary"} -> EditAddress(c, s.object, k)
    [] k.op = "address6" -> EditAddress6(c, s.object, k)
    [] k.op \in FieldOps -> EditField(c, s.object, k)
    [] k.op \in WirelessOps -> EditWireless(c, s.object, k)
    [] k.op \in {"group-in", "group-out"} -> EditGroup(c, s.object, k)
    [] k.op = "encapsulation" -> EditVLAN(c, s.object, k)
    [] k.op = "member" -> EditMember(c, s.object, k)
    [] k.op = "entry" -> EditEntry(c, s.object, k)
    [] k.op = "number" -> EditNumber(c, s.object, k)
    [] k.op = "resequence" -> Resequence(c, s.object)
    [] k.op \in PoolOps -> EditPool(c, s.object, k)

(* The mode that a command of the global tree opens.                       *)
Opened(s, k) ==
  IF k.no THEN s ELSE
  CASE k.op = "interface" -> [s EXCEPT !.mode = "interface", !.object = k.arg]
    [] k.op = "access-list" -> [s EXCEPT !.mode = "acl", !.object = k.arg]
    [] k.op = "pool" -> [s EXCEPT !.mode = "pool", !.object = k.arg]
    [] OTHER -> s

(* Session.Execute, dispatch and Manager.Change.  A global command entered *)
(* in a submode leaves it, also if the command then fails.                 *)
Execute(s, c, k) ==
  LET known == k.op \in Tree(s.mode)
      leaves == ~known /\ s.mode \in Submodes /\ k.op \in ConfigOps
      runs == (known \/ leaves) /\ HasForm(k) /\ (k.no => s.mode \in ConfigModes)
      t == IF leaves THEN NewSession("config") ELSE s
      edited == {d \in {Normalize(e) : e \in Edit(t, c, k)} : Validate(d)}
  IN
  IF ~runs THEN [session |-> s, document |-> c]
  ELSE IF k.op \in Everywhere \cup ExecOps THEN [session |-> Move(t, c, k), document |-> c]
  ELSE IF edited = {} THEN [session |-> t, document |-> c]
  ELSE [session |-> Opened(t, k), document |-> CHOOSE d \in edited : TRUE]

-----------------------------------------------------------------------------
(* ConfigText: the commands that show a document.  Lists, users and pools  *)
(* come in some fixed order.                                               *)

InterfaceText(c, n) ==
  LET ifc == c.interfaces[n]
      w == ifc.wireless
      given(op, value) == When(value # None, <<Line(op, value)>>)
  IN
  <<Line("interface", n)>>
  \o given("description", ifc.description)
  \o When(ifc.vlan # NoVLAN, <<Line("encapsulation", ifc.vlan)>>)
  \o Each(ifc.members, LAMBDA m : <<Line("member", m)>>)
  \o given("device", w.device)
  \o When(w.mode # "none", given("mode", w.mode))
  \o given("ssid", w.network)
  \o When(ifc.mtu # 0, <<Line("mtu", ifc.mtu)>>)
  \o given("media", ifc.media)
  \o When(ifc.dhcp, <<Line("dhcp", None)>>)
  \o [i \in DOMAIN ifc.ipv4 |-> Line(IF i = 1 THEN "address" ELSE "secondary", ifc.ipv4[i])]
  \o Each(ifc.ipv6, LAMBDA a : <<Line("address6", a)>>)
  \o given("group-in", ifc.aclIn)
  \o given("group-out", ifc.aclOut)
  \o When(ifc.shutdown, <<Line("shutdown", None)>>)

ListText(entries) ==
  Each(entries, LAMBDA e : <<Line("entry", [seq |-> e.seq, action |-> e.action,
                                            words |-> FormatRule(e.rule)])>>)

(* Mutant: the range is shown before the network it lies in.               *)
PoolTextRangeFirst(p) ==
     When(p.start # NoAddress, <<Line("range", [start |-> p.start, end |-> p.end])>>)
  \o When(p.network # None, <<Line("network", p.network)>>)
  \o When(p.routers # <<>>, <<Line("routers", p.routers)>>)
  \o Each(p.hosts, LAMBDA h : <<Line("host", h)>>)

PoolText(p) ==
     When(p.network # None, <<Line("network", p.network)>>)
  \o When(p.start # NoAddress, <<Line("range", [start |-> p.start, end |-> p.end])>>)
  \o When(p.routers # <<>>, <<Line("routers", p.routers)>>)
  \o Each(p.hosts, LAMBDA h : <<Line("host", h)>>)

ConfigText(c) ==
     <<Line("hostname", c.hostname)>>
  \o When(c.domain # None, <<Line("domain", c.domain)>>)
  \o When(c.servers # <<>>, <<Line("name-server", c.servers)>>)
  \o When(c.routing, <<Line("routing", None)>>)
  \o When(c.routing6, <<Line("routing6", None)>>)
  \o When(c.secret # None, <<Line("secret", c.secret)>>)
  \o Each(SetToSeq(DOMAIN c.users),
          LAMBDA u : <<Line("username", [name |-> u, secret |-> c.users[u]])>>)
  \o Each(SetToSeq(DOMAIN c.acls),
          LAMBDA a : <<Line("access-list", a)>> \o ListText(c.acls[a]))
  \o Each(InterfaceNames(c), LAMBDA n : InterfaceText(c, n))
  \o Each(c.routes, LAMBDA r : <<Line("route", r)>>)
  \o Each(c.nat, LAMBDA r : <<Line("nat", r)>>)
  \o Each(SetToSeq(DOMAIN c.pools), LAMBDA p : <<Line("pool", p)>> \o PoolText(c.pools[p]))
  \o When(c.web.enabled, <<Line(IF c.web.tls THEN "secure-server" ELSE "server", None)>>)
  \o <<Line("end", None)>>

(* The text entered line by line in configuration mode.  (The singleton    *)
(* has TLC evaluate a line before the next one.)                           *)
Feed(text, c) ==
  LET entered(state, k) ==
        LET next == Execute(state.session, state.document, k) IN
        [session |-> next.session, document |-> next.document,
         touched |-> state.touched \/ next.document # state.document]
      after[i \in 0 .. Len(text)] ==
        IF i = 0 THEN [session |-> NewSession("config"), document |-> c, touched |-> FALSE]
        ELSE CHOOSE next \in {entered(state, text[i]) : state \in {after[i - 1]}} : TRUE
  IN  after[Len(text)]

-----------------------------------------------------------------------------
(* Sessions at work                                                        *)

EditorInit ==
  /\ document \in Documents
  /\ session = [s \in Sessions |-> NewSession(IF document.secret = None THEN "exec" ELSE "user")]
  /\ changes = 0

Changed == changes' = IF document' = document THEN changes ELSE changes + 1

(* A line is entered.                                                      *)
Enter(s, k) ==
  /\ ~session[s].quit
  /\ \E next \in {Execute(session[s], document, k)} :
       /\ next.document # document => changes < MaxChanges
       /\ document' = next.document
       /\ session' = [session EXCEPT ![s] = next.session]
  /\ Changed

(* Manager.Replace: a web page, a revert or "copy startup-config           *)
(* running-config" puts a whole configuration in place.                    *)
Replace(d) ==
  /\ changes < MaxChanges
  /\ document' = d
  /\ Changed
  /\ UNCHANGED session

EditorNext ==
  \/ \E s \in Sessions : \E k \in Commands[s] : Enter(s, k)
  \/ \E d \in Documents : Replace(d)

EditorSpec == EditorInit /\ [][EditorNext]_editorVars

-----------------------------------------------------------------------------
(* Properties                                                              *)

(* Documents whose text is a faithful account of them.  Left out: an       *)
(* interface that is built on one that sorts after it, and is entered      *)
(* first; a bridge or wlan without settings, which entering does not make; *)
(* a description of a vlan, which is entered before its encapsulation; a   *)
(* port range of one port, which is read as a port; the flag of a web      *)
(* server that is off; an applied list that has the name of a direction.   *)
Unmade(c) == {n \in Configured(c) : IsCloned(n) /\ c.interfaces[n] = NewInterface}
DescribedVLANs(c) ==
  {n \in Configured(c) : Kind[n] = "vlan" /\ c.interfaces[n].description # None}
Narrow(rule) == \E p \in {rule.sport, rule.dport} : Len(p) = 2 /\ p[1] = p[2]
NarrowRanges(c) ==
  {a \in DOMAIN c.acls : \E e \in ToSet(c.acls[a]) : Narrow(e.rule)}

Applied(c) == UNION {{c.interfaces[n].aclIn, c.interfaces[n].aclOut} : n \in Configured(c)}

Pasteable(c) ==
  /\ Orderly(c)
  /\ Applied(c) \cap Directions = {}
  /\ Unmade(c) = {} /\ NarrowRanges(c) = {}
  /\ c.web.enabled \/ ~c.web.tls

(* text.go:13: "Feeding the text back into the CLI recreates the           *)
(* configuration."  The text is the only form in which a configuration is  *)
(* shown, kept by hand and pasted.                                         *)
RoundTrip ==
  Pasteable(document) /\ DescribedVLANs(document) = {} =>
    Feed(ConfigText(document), NewDocument).document = document

(* The same without the exception for described vlans.                     *)
FullRoundTrip ==
  Pasteable(document) => Feed(ConfigText(document), NewDocument).document = document

(* Pasting the running configuration over itself touches nothing, at no    *)
(* line: no service is interrupted by it.  Left out: interfaces with       *)
(* secondary addresses, the first of which is dropped and entered again,   *)
(* and pools with several reservations, which change places.               *)
PasteChangesNothing ==
  /\ \A n \in Configured(document) : Len(document.interfaces[n].ipv4) <= 1
  /\ \A p \in DOMAIN document.pools : Len(document.pools[p].hosts) <= 1
  => ~Feed(ConfigText(document), document).touched

(* An interface to which a list is applied is filtered by that list, ends  *)
(* in the implicit deny, and never falls back to "permit all", the rules   *)
(* of a direction without a list (render.NPF looks the list up again and   *)
(* finds it or not).                                                       *)
AppliedListsFilter ==
  LET c == Effective(document)
      groups == RuleSet(c).groups
  IN
  \A n \in Configured(c) :
    \A d \in {[list |-> c.interfaces[n].aclIn, group |-> "in"],
              [list |-> c.interfaces[n].aclOut, group |-> "out"]} :
      d.list # None =>
        /\ n \in DOMAIN groups
        /\ Len(groups[n][d.group]) = Len(document.acls[d.list]) + 1
        /\ Last(groups[n][d.group]).action = "deny"

(* An interface is in one bridge and a port of an interface is forwarded   *)
(* once: only the commands see to it, Validate does not.                   *)
ConflictFree(c) ==
  /\ \A m, n \in Configured(c) :
       m # n => ToSet(c.interfaces[m].members) \cap ToSet(c.interfaces[n].members) = {}
  /\ \A i, j \in DOMAIN c.nat :
       i # j => c.nat[i] # c.nat[j] /\ ~Forwards(c.nat[i], c.nat[j])

NoConflicts == ConflictFree(document)

(* What is left of a document once incomplete wireless settings are        *)
(* dropped stands on its own feet, so that Apply meets no interface that   *)
(* is not there.  Left out: vlans and translations on a dropped wlan.      *)
EffectiveIsValid ==
  LET dropped == Configured(document) \ Configured(Effective(document)) IN
  \/ \E n \in Configured(document) : document.interfaces[n].vlan.parent \in dropped
  \/ \E r \in ToSet(document.nat) : r.interface \in dropped
  \/ Validate(Effective(document)) /\ Effective(Effective(document)) = Effective(document)

(* First match decides, so an entry that comes without a number is         *)
(* consulted after all that are there, however they were numbered and      *)
(* renumbered; it is entered once.                                         *)
Rules(c, a) == [i \in DOMAIN ListOf(c, a) |->
                  [action |-> c.acls[a][i].action, rule |-> c.acls[a][i].rule]]

AppendedEntryIsLast ==
  [][document' # document =>
       \A s \in {t \in Sessions : session[t].mode = "acl"} :
         \A k \in {l \in Commands[s] : l.op = "entry" /\ ~l.no /\ l.arg.seq = 0} :
           Enter(s, k) =>
             Front(Rules(document', session[s].object)) = Rules(document, session[s].object)]_editorVars
=============================================================================
