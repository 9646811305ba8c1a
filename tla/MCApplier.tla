----------------------------- MODULE MCApplier -----------------------------
(* Documents that differ in what makes applying a difference hard.         *)
EXTENDS Applier

MCNames == {"wm0", "ath0", "vlan10", "wlan0", "bridge0", "bridge1"}
MCKind == [n \in MCNames |->
  CASE n \in {"wm0", "ath0"} -> "physical" [] n = "vlan10" -> "vlan"
    [] n = "wlan0" -> "wlan" [] OTHER -> "bridge"]
MCRank == [n \in MCNames |-> IF n \in {"wm0", "bridge1"} THEN 1 ELSE 0]

Pfx(net, host, bits) == [net |-> net, host |-> host, bits |-> bits]
At(net, host) == Pfx(net, host, 24)
Entry(seq, action, rule) == [seq |-> seq, action |-> action, rule |-> rule]
With(c, n, ifc) == WithInterface(c, n, ifc)
AP(device) == [mode |-> "hostap", device |-> device, network |-> "home"]
Station(device) == [AP(device) EXCEPT !.mode = "station"]

Router ==
  [With(With(With(NewDocument, "ath0", NewInterface), "wm0", [NewInterface EXCEPT !.ipv4 = <<At("A", 1), At("B", 1)>>, !.mtu = 1400]),
        "vlan10", [NewInterface EXCEPT !.vlan = [id |-> 10, parent |-> "wm0"], !.dhcp = TRUE,
                                       !.aclIn = "web"])
   EXCEPT !.routing = TRUE, !.servers = <<"ns1">>,
          !.acls = [a \in {"web"} |-> <<Entry(10, "permit", "http")>>],
          !.routes = <<[prefix |-> "default", nexthop |-> "gw1"],
                       [prefix |-> "net9", nexthop |-> "gw2"]>>,
          !.nat = <<[interface |-> "vlan10", rule |-> "overload"]>>,
          !.pools = [p \in {"lan"} |-> [NewPool EXCEPT !.network = "A"]]]

(* The same router with other addresses, one of them the same with another *)
(* prefix length and one with two, another trunk and another way out.      *)
Moved ==
  [Router EXCEPT !.interfaces["wm0"] = [@ EXCEPT !.ipv4 = <<At("C", 1), Pfx("B", 1, 16)>>, !.mtu = 0],
                 !.interfaces["ath0"].ipv6 = <<At("D", 1), Pfx("D", 1, 48)>>,
                 !.interfaces["vlan10"] = [@ EXCEPT !.vlan.parent = "ath0", !.dhcp = FALSE],
                 !.servers = <<>>,
                 !.routes = <<[prefix |-> "default", nexthop |-> "gw2"],
                              [prefix |-> "net9", nexthop |-> "gw1"],
                              [prefix |-> "net9", nexthop |-> "gw2"]>>,
                 !.acls["web"] = @ \o <<Entry(20, "deny", "ssh")>>]

Bridged ==
  With(With(With(Router, "wlan0", [NewInterface EXCEPT !.wireless = AP("ath0")]),
            "bridge0", [NewInterface EXCEPT !.members = <<"wm0", "wlan0">>]),
       "bridge1", NewInterface)

(* The access point becomes a client, still in its bridge.                 *)
Client == [Bridged EXCEPT !.interfaces["wlan0"].wireless = Station("ath0"),
                          !.interfaces["vlan10"].shutdown = TRUE]

(* wm0 moves to another bridge; the wireless settings are incomplete.      *)
Rebridged ==
  [Bridged EXCEPT !.interfaces["wlan0"].wireless.network = None,
                  !.interfaces["bridge0"].members = <<"wlan0">>,
                  !.interfaces["bridge1"].members = <<"wm0">>]

(* The radio itself is the access point, then shut down without settings.  *)
RadioAP ==
  With(NewDocument, "ath0", [NewInterface EXCEPT !.wireless = AP(None), !.dhcp = TRUE,
                                                 !.media = "auto"])
Silent == With(NewDocument, "ath0", [NewInterface EXCEPT !.shutdown = TRUE])

MCStartups == {Router, Bridged, RadioAP}
MCDocuments == {NewDocument, Router, Moved, Bridged, Client, Rebridged, RadioAP, Silent}

(* A router with the default MTU, to which the bridges are added.          *)
Plain == [Router EXCEPT !.interfaces["wm0"].mtu = 0]
Extension == {NewDocument, Plain, Bridged}
BeforeIt == {Plain}

(* None is beyond what the commands can get to.                            *)
ASSUME MCFeasible == \A d \in MCDocuments : Feasible(d)
=============================================================================
