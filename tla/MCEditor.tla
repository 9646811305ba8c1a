------------------------------ MODULE MCEditor ------------------------------
(* A terminal that may enter nearly every command and a remote session     *)
(* that deletes what the terminal is editing.                              *)
EXTENDS Editor

MCNames == {"lo0", "wm0", "ath0", "vlan10", "wlan0", "bridge0", "bridge1"}
MCKind == [n \in MCNames |->
  CASE n = "lo0" -> "loopback" [] n \in {"wm0", "ath0"} -> "physical" [] n = "vlan10" -> "vlan"
    [] n = "wlan0" -> "wlan" [] OTHER -> "bridge"]
MCRank == [n \in MCNames |-> IF n \in {"wm0", "bridge1"} THEN 1 ELSE 0]

At(net, host) == [net |-> net, host |-> host]
With(c, n, ifc) == WithInterface(c, n, ifc)
Rule(action, words) == [action |-> action, words |-> words]
Entry(seq, rule) == [seq |-> seq, action |-> rule.action, words |-> rule.words]
Stored(seq, rule) ==
  [seq |-> seq, action |-> rule.action, rule |-> ParseRule(rule.action, rule.words).value]

All == Rule("permit", <<Word("ip"), Word("any"), Word("any")>>)
Web == Rule("permit", <<Word("tcp"), Word("host"), Dotted(1), Word("any"), Word("eq"), Num(3), Word("log")>>)
Net == Rule("deny", <<Num(17), Dotted(2), Dotted(1), Word("range"), Num(1), Num(3), Colon(0)>>)
Net4 == Rule("deny", <<Num(17), Dotted(2), Dotted(1), Word("range"), Num(1), Num(3), Word("any")>>)
Top == Rule("permit", <<Word("tcp"), Word("any"), Word("gt"), Num(3), PrefixWord("v6", 2, 1), Word("stateless")>>)
Ping == Rule("permit", <<Word("icmpv6"), Colon(3), Word("any6"), Num(8)>>)
Tunnel == Rule("permit", <<Num(47), Dotted(1), PrefixWord("v4", 0, 1)>>)

Host(name, mac, host) == [name |-> name, mac |-> mac, address |-> At("A", host)]
Static(port, inside) ==
  [type |-> "static", interface |-> "wm0", protocol |-> "tcp", port |-> port, inside |-> inside]
Overload == [type |-> "overload", interface |-> "wm0", inside |-> "A"]

Office ==
  [With(With(With(With(With(NewDocument,
     "wm0", [NewInterface EXCEPT !.ipv4 = <<At("A", 1), At("B", 1)>>, !.aclIn = "web", !.mtu = 1400]),
     "ath0", NewInterface),
     "vlan10", [NewInterface EXCEPT !.vlan = [id |-> 10, parent |-> "wm0"], !.dhcp = TRUE]),
     "wlan0", [NewInterface EXCEPT !.wireless = [mode |-> "hostap", device |-> "ath0", network |-> "home"],
                                   !.ipv6 = <<At("D", 1)>>]),
     "bridge0", [NewInterface EXCEPT !.members = <<"ath0", "wlan0">>])
   EXCEPT !.secret = "secret", !.servers = <<"ns1">>,
          !.acls = [a \in {"web", "in"} |-> IF a = "in" THEN <<>> ELSE <<Stored(10, Web), Stored(35, All)>>],
          !.routes = <<[prefix |-> "net9", nexthop |-> "gw1"], [prefix |-> "net9", nexthop |-> "gw2"]>>,
          !.nat = <<Overload, Static(1, "A1")>>,
          !.pools = [p \in {"lan"} |-> [NewPool EXCEPT !.network = "A", !.routers = <<At("A", 1)>>,
                                                       !.hosts = <<Host("tv", "m1", 3)>>]],
          !.users = [u \in {"ann"} |-> "s1"],
          !.web = [enabled |-> TRUE, tls |-> TRUE]]

Both(op, argument) == {Command(no, op, argument) : no \in BOOLEAN}
No(op, argument) == Command(TRUE, op, argument)
ToRoute(nexthop) == [prefix |-> "net9", nexthop |-> nexthop]

Moves ==
  {Line("enable", "secret"), Line("enable", "guess"), Line("configure", None),
   Line("exit", None), Line("end", None), Line("do", Line("disable", None)),
   Line("do", Line("enable", None)), Line("do", Line("configure", None))}

GlobalCommands ==
  Both("interface", "wm0") \cup Both("interface", "wlan0") \cup Both("interface", "vlan10")
  \cup Both("interface", "bridge1") \cup {Line("interface", "lo0")}
  \cup Both("access-list", "web") \cup Both("pool", "lan")
  \cup {Line("hostname", "gate")}
  \cup {Line("name-server", <<"ns2", "ns1", "ns2">>), Line("name-server", <<"ns3", "ns4">>),
        No("name-server", <<"ns1">>), No("secret", None)}
  \cup {Line("username", [name |-> "ann", secret |-> "s2"])}
  \cup {No("route", ToRoute("gw1")), Line("route", ToRoute("gw1"))}
  \cup {Line("nat", Static(1, "A2")), No("nat", Static(1, "A1"))}
  \cup {No("secure-server", None), Line("server", None)}

InterfaceCommands ==
  {Line("address", At("A", 1)), Line("address", At("A", 0)),
   No("address", At("B", 1)), Line("secondary", At("B", 2)), No("addresses", None),
   Line("dhcp", None), No("mtu", 0), Line("description", "uplink"), No("addresses6", None),
   Line("group-out", "web"), Line("group-out", "in"), Line("group-in", "none"), No("group-in", "web"), No("group-in", "out"),
   Line("encapsulation", [id |-> 20, parent |-> "ath0"]), No("encapsulation", None),
   Line("member", "ath0"), Line("member", "wm0"), Line("member", "bridge1"),
   No("mode", None), Line("device", "ath0"), Line("ssid", "net"), No("ssid", None), No("wireless", None)}
  \cup Both("address6", At("D", 1)) \cup Both("member", "wlan0")

ListCommands ==
  {Line("entry", Entry(0, r)) : r \in {All, Web, Net, Net4, Ping, Tunnel}}
  \cup {Line("entry", Entry(20, Top)), Line("entry", Entry(10, All)),
        No("entry", Entry(5, All)), No("entry", Entry(0, Ping)),
        No("number", 10), No("number", 20), Line("resequence", None)}

PoolCommands ==
  {Line("network", "A"), Line("network", "B"), Line("routers", <<At("A", 2)>>), No("routers", <<>>),
   Line("range", [start |-> At("A", 2), end |-> At("A", 3)]),
   Line("range", [start |-> At("A", 3), end |-> At("A", 2)]), No("range", None),
   Line("host", Host("tv", "m1", 2)), Line("host", Host("pc", "m1", 3)), Line("host", Host("pc", "m2", 2)),
   No("host", [name |-> "tv"])}

MCCommands ==
  [s \in {"terminal", "remote"} |->
     IF s = "terminal"
     THEN Moves \cup GlobalCommands \cup InterfaceCommands \cup ListCommands \cup PoolCommands
     ELSE {Line("configure", None), No("interface", "wlan0"), No("access-list", "web")}]

MCDocuments == {NewDocument, Office}
=============================================================================
