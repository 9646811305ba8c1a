------------------------------ MODULE Applier ------------------------------
(***************************************************************************)
(* apply.Applier: takes the running system from one document to another    *)
(* with the commands in which the two differ, one command at a time, and   *)
(* back again when one of them fails (Manager.commit).                     *)
(*                                                                         *)
(* kernel is the system the commands act on; it lies outside the           *)
(* repository and is modelled from what Applier expects of it: commands    *)
(* find objects missing or existing already, a cloned interface that is    *)
(* destroyed leaves its bridge, an interface belongs to one bridge.        *)
(***************************************************************************)
EXTENDS Document

CONSTANTS
  Documents,     \* the documents that are committed
  Startups,      \* those that a boot may find in startup.yaml
  MaxChanges,    \* bound on the number of commits
  MaxFailures    \* bound on the number of commands that fail for no reason

VARIABLES
  kernel,        \* the system
  phase,         \* "off", "boot", "idle", "apply", "rollback"
  running,       \* the recorded document; config.New while there is no record
  next,          \* the document being applied
  todo,          \* the commands still to run
  errs,          \* step.errs: "failed", and "refused" because of the system's state
  changes, failures,
  stale,         \* what earlier changes and boots could not undo (ghost)
  lost,          \* a boot or a rollback failed (ghost)
  overlaid       \* another document was booted on top of the one in force (ghost)

ghosts == <<stale, lost, overlaid>>
vars == <<kernel, phase, running, next, todo, errs, changes, failures, ghosts>>

(* The commands are run in the order of InterfaceNames.                    *)
ASSUME ApplierAssumption ==
  /\ MaxChanges \in Nat /\ MaxFailures \in Nat
  /\ NewDocument \in Documents /\ Startups \subseteq Documents
  /\ \A d \in Documents : /\ IsDocument(d) /\ Configured(d) \subseteq Names
                          /\ Validate(d) /\ Normalize(d) = d /\ Orderly(d)

(* What Validate does not look for: an interface in two bridges, and a     *)
(* virtual access point on a radio that the system does not have.          *)
Feasible(d) ==
  /\ \A m, n \in Configured(d) :
       m # n => ToSet(d.interfaces[m].members) \cap ToSet(d.interfaces[n].members) = {}
  /\ \A n \in Configured(d) :
       d.interfaces[n].wireless.device \in {None} \cup {r \in Names : ~IsCloned(r)}

-----------------------------------------------------------------------------
(* The commands                                                            *)

(* tol: the error that is tolerated, "exists", "missing" or none.          *)
Cmd(op, n, arg, tol) == <<[op |-> op, n |-> n, arg |-> arg, tol |-> tol]>>

System(old, new, boot) ==
     When(new.hostname \notin {None, old.hostname}, Cmd("hostname", None, new.hostname, None))
  \o When(/\ <<new.domain, new.servers>> # <<old.domain, old.servers>>
          /\ new.servers # <<>>,
          Cmd("resolv", None, [domain |-> new.domain, servers |-> new.servers], None))
  \o When(boot \/ new.routing # old.routing, Cmd("forward", None, new.routing, None))
  \o When(boot \/ new.routing6 # old.routing6, Cmd("forward6", None, new.routing6, None))

IsAP(ifc) == ifc.wireless.mode = "hostap"
HasWireless(ifc) == ifc.wireless # NoWireless

(* An address of an interface has a prefix length, bits; delAddr names it  *)
(* without.                                                                *)
Ip(a) == [net |-> a.net, host |-> a.host]

Named(op, a) == IF op = "-alias" THEN Ip(a) ELSE a

Addresses(op, n, ifcA, ifcB, tol) ==
     Each(Minus(ifcA.ipv4, ifcB.ipv4),
          LAMBDA a : Cmd(op, n, [family |-> "v4", address |-> Named(op, a)], tol))
  \o Each(Minus(ifcA.ipv6, ifcB.ipv6),
          LAMBDA a : Cmd(op, n, [family |-> "v6", address |-> Named(op, a)], tol))

RemoveInterface(n, oi) ==
     When(HasWireless(oi), Cmd("stop", n, None, None))
  \o When(oi.dhcp, Cmd("dhcpcd -x", n, None, "missing"))
  \o IF IsCloned(n) THEN Cmd("destroy", n, None, "missing")
     ELSE Addresses("-alias", n, oi, NewInterface, "missing")
          \o When(IsAP(oi) /\ oi.wireless.device = None, Cmd("-mediaopt", n, None, "missing"))
          \o Cmd("down", n, None, "missing")

Identity(w) == [device |-> w.device, mode |-> w.mode]

(* A virtual access point cannot change its radio or mode.                 *)
Recreated(n, oi, ni) == Kind[n] = "wlan" /\ Identity(oi.wireless) # Identity(ni.wireless)

(* hostapd is told the bridge it is in, wpa_supplicant is not.             *)
Supplicant(w, bridge) ==
  [wireless |-> w, bridge |-> IF w.mode = "hostap" THEN bridge ELSE None]

Create(n, ni, fresh) ==
  When(fresh /\ IsCloned(n),
       Cmd("create", n, IF Kind[n] = "wlan" THEN Identity(ni.wireless)
                                            ELSE Identity(NoWireless), "exists"))

Parent(n, oi, ni) ==
  When(Kind[n] = "vlan" /\ oi.vlan # ni.vlan,
          When(oi.vlan # NoVLAN, Cmd("-vlanif", n, None, "missing"))
       \o When(ni.vlan # NoVLAN, Cmd("vlanif", n, ni.vlan, None)))

Radio(n, oi, ni, fresh) ==
  When(Kind[n] = "physical",
          When(IsAP(ni) /\ (~IsAP(oi) \/ fresh), Cmd("mediaopt", n, None, None))
       \o When(~IsAP(ni) /\ IsAP(oi), Cmd("-mediaopt", n, None, None)))

Link(n, oi, ni, fresh) ==
     When(ni.mtu # 0 /\ (ni.mtu # oi.mtu \/ fresh), Cmd("mtu", n, ni.mtu, None))
  \o When(ni.media # oi.media \/ (fresh /\ ni.media # None), Cmd("media", n, ni.media, None))

Members(n, oi, ni) ==
  When(Kind[n] = "bridge",
          Each(Minus(oi.members, ni.members), LAMBDA m : Cmd("delete", n, m, "missing"))
       \o Each(Minus(ni.members, oi.members), LAMBDA m : Cmd("add", n, m, "exists")))

Shut(n, oi, ni, fresh) ==
  When(~oi.shutdown \/ fresh,
          When(HasWireless(ni), Cmd("stop", n, None, None))
       \o When(oi.dhcp /\ ~fresh, Cmd("dhcpcd -x", n, None, "missing"))
       \o Cmd("down", n, None, None))

Open(n, oi, ni, cameUp, newBridge, oldBridge) ==
     When(cameUp, Cmd("up", n, None, None))
  \o When(ni.dhcp /\ (~oi.dhcp \/ cameUp), Cmd("dhcpcd -b", n, None, "exists"))
  \o When(~ni.dhcp /\ oi.dhcp /\ ~oi.shutdown, Cmd("dhcpcd -x", n, None, "missing"))
  \o When(/\ HasWireless(oi) \/ HasWireless(ni)
          /\ oi.wireless # ni.wireless \/ newBridge # oldBridge \/ cameUp,
          Cmd("stop", n, None, None)
          \o When(HasWireless(ni), Cmd("start", n, Supplicant(ni.wireless, newBridge), None)))

Configure(n, oi, ni, fresh, newBridge, oldBridge) ==
     Create(n, ni, fresh) \o Parent(n, oi, ni) \o Radio(n, oi, ni, fresh)
  \o Link(n, oi, ni, fresh)
  \o Addresses("-alias", n, oi, ni, "missing") \o Addresses("alias", n, ni, oi, "exists")
  \o Members(n, oi, ni)
  \o IF ni.shutdown THEN Shut(n, oi, ni, fresh)
                    ELSE Open(n, oi, ni, oi.shutdown \/ fresh, newBridge, oldBridge)

(* configureInterface, from nothing when the interface is recreated.       *)
ConfigureInterface(n, old, new) ==
  LET ni == new.interfaces[n]
      oi == InterfaceOf(old, n)
      again == n \in Configured(old) /\ Recreated(n, oi, ni)
      fresh == again \/ n \notin Configured(old)
  IN  When(again, RemoveInterface(n, oi))
      \o Configure(n, IF fresh THEN NewInterface ELSE oi, ni, fresh,
                   BridgeOf(new, n), BridgeOf(old, n))

(* Mutant: bridges first.                                                  *)
ConfigureOrderReversed(c) == Reverse(InterfaceNames(c))

(* Physical interfaces before the vlans on them, bridges after members.    *)
ConfigureOrder(c) == InterfaceNames(c)

Interfaces(old, new) ==
  LET removed == Only(Reverse(InterfaceNames(old)), Configured(old) \ Configured(new)) IN
     Each(removed, LAMBDA n : RemoveInterface(n, old.interfaces[n]))
  \o Each(ConfigureOrder(new), LAMBDA n : ConfigureInterface(n, old, new))

(* Mutant: every route is taken out and put back.                          *)
RoutesAnew(old, new) ==
     Each(old.routes, LAMBDA r : Cmd("route delete", r.prefix, None, "missing"))
  \o Each(new.routes, LAMBDA r : Cmd("route add", r.prefix, r.nexthop, "exists"))

(* A route is deleted by its prefix alone.                                 *)
Routes(old, new) ==
     Each(Minus(old.routes, new.routes), LAMBDA r : Cmd("route delete", r.prefix, None, "missing"))
  \o Each(Minus(new.routes, old.routes), LAMBDA r : Cmd("route add", r.prefix, r.nexthop, "exists"))

Firewall(old, new, boot) ==
  When(boot \/ RuleSet(new) # RuleSet(old), Cmd("npf", None, RuleSet(new), None))

NoServer == DhcpdConf(NewDocument)

(* Mutant: a server with nothing left to serve is not stopped.             *)
DhcpServerKept(old, new, boot) ==
  When((boot \/ DhcpdConf(new) # DhcpdConf(old)) /\ DhcpdConf(new).serves # {},
       Cmd("stop dhcpd", None, None, None)
       \o Cmd("start dhcpd", None, DhcpdConf(new), None))

DhcpServer(old, new, boot) ==
  When(boot \/ DhcpdConf(new) # DhcpdConf(old),
       Cmd("stop dhcpd", None, None, None)
       \o When(DhcpdConf(new).serves # {},
               Cmd("start dhcpd", None, DhcpdConf(new), None)))

(* Applier.Apply of effective documents.                                   *)
Apply(old, new, boot) ==
  System(old, new, boot) \o Interfaces(old, new) \o Routes(old, new)
  \o Firewall(old, new, boot) \o DhcpServer(old, new, boot)

Blank == [NewDocument EXCEPT !.hostname = None]
Commands(old, new) == Apply(Effective(old), Effective(new), FALSE)
BootCommands(new) == Apply(Blank, Effective(new), TRUE)

-----------------------------------------------------------------------------
(* The system the commands act on                                          *)

NoSupplicant == Supplicant(NoWireless, None)

Unconfigured(n) ==
  [exists |-> FALSE, up |-> FALSE, mtu |-> 0, media |-> None, hostap |-> FALSE,
   v4 |-> <<>>, v6 |-> <<>>, vlan |-> NoVLAN, identity |-> Identity(NoWireless),
   members |-> {}, client |-> FALSE, supplicant |-> NoSupplicant]

PowerOn ==
  [hostname |-> None, resolv |-> [domain |-> None, servers |-> <<>>],
   forward |-> FALSE, forward6 |-> FALSE,
   nif |-> [n \in Names |-> [Unconfigured(n) EXCEPT !.exists = ~IsCloned(n)]],
   routes |-> Empty, rules |-> RuleSet(NewDocument), rulesOnDisk |-> RuleSet(NewDocument),
   dhcpd |-> NoServer]

Exists(k, n) == k.nif[n].exists

SystemOps == {"hostname", "resolv", "forward", "forward6"}
NifOps ==
  {"create", "vlanif", "-vlanif", "mediaopt", "-mediaopt", "mtu", "media", "alias", "-alias",
   "add", "delete", "up", "down", "dhcpcd -b", "dhcpcd -x", "start", "stop"}
InterfaceOps == {"destroy"} \cup (NifOps \ {"create", "dhcpcd -x", "stop"})

(* An interface has an address once, with one prefix length.               *)
HasIp(addresses, ip) == \E a \in ToSet(addresses) : Ip(a) = ip

WithAddress(addresses, a) ==
  IF HasIp(addresses, Ip(a))
  THEN [i \in DOMAIN addresses |-> IF Ip(addresses[i]) = Ip(a) THEN a ELSE addresses[i]]
  ELSE Append(addresses, a)

WithoutIp(addresses, ip) == Only(addresses, {a \in ToSet(addresses) : Ip(a) # ip})

Missing(k, c) ==
  \/ c.op \in InterfaceOps /\ ~Exists(k, c.n)
  \/ c.op = "dhcpcd -x" /\ ~k.nif[c.n].client
  \/ c.op = "-alias" /\ ~HasIp(k.nif[c.n][c.arg.family], c.arg.address)
  \/ c.op = "-vlanif" /\ k.nif[c.n].vlan = NoVLAN
  \/ c.op = "vlanif" /\ ~Exists(k, c.arg.parent)
  \/ c.op = "create" /\ c.arg.device # None /\ ~Exists(k, c.arg.device)
  \/ c.op = "add" /\ ~Exists(k, c.arg)
  \/ c.op = "delete" /\ c.arg \notin k.nif[c.n].members
  \/ c.op = "route delete" /\ c.n \notin DOMAIN k.routes

Present(k, c) ==
  \/ c.op = "create" /\ Exists(k, c.n)
  \/ c.op = "alias" /\ Contains(k.nif[c.n][c.arg.family], c.arg.address)
  \/ c.op = "add" /\ c.arg \in k.nif[c.n].members
  \/ c.op = "route add" /\ c.n \in DOMAIN k.routes

(* An interface can be in one bridge only.                                 *)
Busy(k, c) == c.op = "add" /\ \E b \in Names \ {c.n} : c.arg \in k.nif[b].members

Destroyed(k, n) ==
  [m \in Names |->
     IF m = n THEN [Unconfigured(n) EXCEPT !.client = k.nif[n].client,
                                           !.supplicant = k.nif[n].supplicant]
     ELSE [k.nif[m] EXCEPT !.members = @ \ {n},
                           !.vlan = IF @.parent = n THEN NoVLAN ELSE @]]

(* A command on one interface.                                             *)
NifAfter(nif, c) ==
  CASE c.op = "create"       -> [nif EXCEPT !.exists = TRUE, !.identity = c.arg]
    [] c.op = "vlanif"       -> [nif EXCEPT !.vlan = c.arg]
    [] c.op = "-vlanif"      -> [nif EXCEPT !.vlan = NoVLAN]
    [] c.op = "mediaopt"     -> [nif EXCEPT !.hostap = TRUE]
    [] c.op = "-mediaopt"    -> [nif EXCEPT !.hostap = FALSE]
    [] c.op = "mtu"          -> [nif EXCEPT !.mtu = c.arg]
    [] c.op = "media"        -> [nif EXCEPT !.media = c.arg]
    [] c.op = "alias"        -> [nif EXCEPT ![c.arg.family] = WithAddress(@, c.arg.address)]
    [] c.op = "-alias"       -> [nif EXCEPT ![c.arg.family] = WithoutIp(@, c.arg.address)]
    [] c.op = "add"          -> [nif EXCEPT !.members = @ \cup {c.arg}]
    [] c.op = "delete"       -> [nif EXCEPT !.members = @ \ {c.arg}]
    [] c.op = "up"           -> [nif EXCEPT !.up = TRUE]
    [] c.op = "down"         -> [nif EXCEPT !.up = FALSE]
    [] c.op = "dhcpcd -b"    -> [nif EXCEPT !.client = TRUE]
    [] c.op = "dhcpcd -x"    -> [nif EXCEPT !.client = FALSE]
    [] c.op = "start"        -> [nif EXCEPT !.supplicant = c.arg]
    [] c.op = "stop"         -> [nif EXCEPT !.supplicant = NoSupplicant]

Effect(k, c) ==
  CASE c.op \in SystemOps    -> [k EXCEPT ![c.op] = c.arg]
    [] c.op = "destroy"      -> [k EXCEPT !.nif = Destroyed(k, c.n)]
    [] c.op \in NifOps       -> [k EXCEPT !.nif[c.n] = NifAfter(@, c)]
    [] c.op = "route add"    -> [k EXCEPT !.routes = Updated(@, c.n, c.arg)]
    [] c.op = "route delete" -> [k EXCEPT !.routes = Without(@, c.n)]
    [] c.op = "npf"          -> [k EXCEPT !.rulesOnDisk = c.arg, !.rules = c.arg]
    [] c.op = "start dhcpd"  -> [k EXCEPT !.dhcpd = c.arg]
    [] c.op = "stop dhcpd"   -> [k EXCEPT !.dhcpd = NoServer]

(* What a command may have done when it fails: npfctl validate refuses the *)
(* rules and the old ones are put back, npfctl reload leaves the new ones  *)
(* on disk, npfctl start fails with them in force.                         *)
FailedEffects(k, c) ==
  IF c.op = "npf" THEN {k, [k EXCEPT !.rulesOnDisk = c.arg], Effect(k, c)} ELSE {k}

(* step.run                                                                *)
Blocked(k, c) == Missing(k, c) \/ Present(k, c) \/ Busy(k, c)
Tolerated(k, c) ==
  ~Busy(k, c) /\ (Missing(k, c) => c.tol = "missing") /\ (Present(k, c) => c.tol = "exists")
Run(k, c) == IF Blocked(k, c) THEN k ELSE Effect(k, c)

(* The system as a boot with c leaves it.                                  *)
Booted == [c \in Documents |-> FoldLeft(Run, PowerOn, BootCommands(c))]

-----------------------------------------------------------------------------
(* Manager.commit and Manager.Boot, seen from the applier                  *)

Init ==
  /\ kernel = PowerOn /\ phase = "off"
  /\ running = NewDocument /\ next = running
  /\ todo = <<>> /\ errs = {}
  /\ changes = 0 /\ failures = 0
  /\ stale = {} /\ lost = FALSE /\ overlaid = FALSE

(* resolv.conf, which outlives a boot, is not written without a server.    *)
StaleResolv(c) == IF c.servers = <<>> THEN {<<"resolv", None>>} ELSE {}

Aspects == DOMAIN Unconfigured(None)

(* What a boot of new leaves of old, which is in force: it runs no command *)
(* for what new does not have.                                             *)
LeftOver(old, new) ==
  LET o == Effective(old)
      n == Effective(new)
      gone == Configured(o) \ Configured(n)
      kept == {i \in Configured(o) \ gone : o.interfaces[i] # n.interfaces[i]}
  IN   Aspects \X gone
  \cup (Aspects \ {"exists", "up", "vlan"}) \X kept
  \cup {"route"} \X {r.prefix : r \in ToSet(old.routes)}
  \cup IF old.servers # <<>> THEN StaleResolv(new) ELSE {}

(* Mutant: a boot while a document is in force keeps the record of it.     *)
BootKeepsRecord(d) ==
  /\ phase \in {"off", "idle"} /\ changes < MaxChanges
  /\ phase' = "boot" /\ todo' = BootCommands(d) /\ errs' = {}
  /\ next' = IF phase = "off" THEN d ELSE running
  /\ changes' = changes + 1
  /\ stale' = IF phase = "off" THEN StaleResolv(d) ELSE stale \cup LeftOver(running, d)
  /\ overlaid' = (overlaid \/ (phase = "idle" /\ d # running))
  /\ UNCHANGED <<kernel, running, failures, lost>>

(* Boot applies the startup configuration from scratch, to a system that   *)
(* is fresh or, "netcli apply", to one with another document in force.     *)
Boot(d) ==
  /\ phase \in {"off", "idle"} /\ changes < MaxChanges
  /\ phase' = "boot" /\ next' = d /\ todo' = BootCommands(d) /\ errs' = {}
  /\ changes' = changes + 1
  /\ stale' = IF phase = "off" THEN StaleResolv(d) ELSE stale \cup LeftOver(running, d)
  /\ overlaid' = (overlaid \/ (phase = "idle" /\ d # running))
  /\ UNCHANGED <<kernel, running, failures, lost>>

Commit(d) ==
  /\ phase = "idle" /\ d # running /\ changes < MaxChanges
  /\ phase' = "apply" /\ next' = d /\ todo' = Commands(running, d) /\ errs' = {}
  /\ changes' = changes + 1
  /\ UNCHANGED <<kernel, running, failures, ghosts>>

RunCommand ==
  /\ todo # <<>>
  /\ kernel' = Run(kernel, Head(todo))
  /\ errs' = errs \cup IF Tolerated(kernel, Head(todo)) THEN {} ELSE {"refused"}
  /\ todo' = Tail(todo)
  /\ UNCHANGED <<phase, running, next, changes, failures, ghosts>>

(* A command fails for a reason of its own; those after it are still run.  *)
CommandFails ==
  /\ todo # <<>> /\ failures < MaxFailures
  /\ kernel' \in FailedEffects(kernel, Head(todo))
  /\ errs' = errs \cup {"failed"} /\ todo' = Tail(todo)
  /\ failures' = failures + 1
  /\ UNCHANGED <<phase, running, next, changes, ghosts>>

(* The same address with two prefix lengths.                               *)
Twins(addresses) == \E a, b \in ToSet(addresses) : a # b /\ Ip(a) = Ip(b)

(* What a change leaves behind that a boot with the new document does not. *)
Unrestored(old, new) ==
  LET o == Effective(old).interfaces
      n == Effective(new).interfaces
      kept == DOMAIN o \cap DOMAIN n
      gone == {i \in DOMAIN o : ~IsCloned(i)} \ kept
      again == {i \in kept : Recreated(i, o[i], n[i])}
      reordered(a, b) == \/ Only(a, ToSet(b)) \o Minus(b, a) # b
                         \/ Twins(a) \/ Twins(b)
      shared(c) == {p \in {r.prefix : r \in ToSet(c.routes)} :
                      Cardinality({r \in ToSet(c.routes) : r.prefix = p}) > 1}
  IN
       (* no command restores the default MTU, nor the media of an         *)
       (* interface that is removed                                        *)
       {"mtu"} \X {i \in kept \ again : o[i].mtu # 0 /\ n[i].mtu = 0}
  \cup {"mtu"} \X {i \in gone : o[i].mtu # 0}
  \cup {"media"} \X {i \in gone : o[i].media # None}
       (* addresses that stay come before those that are new; one of two   *)
       (* with the same IP is in force, and deleted with both              *)
  \cup {"v4"} \X {i \in kept \ again : reordered(o[i].ipv4, n[i].ipv4)}
  \cup {"v6"} \X {i \in kept \ again : reordered(o[i].ipv6, n[i].ipv6)}
       (* a recreated interface is not put back into its bridge            *)
  \cup {"members"} \X {b \in kept : again \cap ToSet(o[b].members) \cap ToSet(n[b].members) # {}}
       (* the supplicant is stopped on shutdown only if the new document   *)
       (* has wireless settings                                            *)
  \cup {"supplicant"} \X {i \in kept : /\ HasWireless(o[i]) /\ ~o[i].shutdown
                                     /\ ~HasWireless(n[i]) /\ n[i].shutdown}
       (* one of two routes to a prefix is in force, and deleted with both *)
  \cup {"route"} \X (shared(old) \cup shared(new))
  \cup IF old.servers # <<>> THEN StaleResolv(new) ELSE {}

(* Addresses that a failed attempt has removed only in part come back in   *)
(* another order.                                                          *)
Scrambled(old, new) ==
  LET o == Effective(old)
      n == Effective(new).interfaces
  IN   {"v4"} \X {i \in DOMAIN n : Len(n[i].ipv4) > 1 /\ InterfaceOf(o, i).ipv4 # n[i].ipv4}
  \cup {"v6"} \X {i \in DOMAIN n : Len(n[i].ipv6) > 1 /\ InterfaceOf(o, i).ipv6 # n[i].ipv6}

Idle(c) == phase' = "idle" /\ running' = c /\ next' = c /\ errs' = {}
           /\ UNCHANGED <<kernel, todo, changes, failures>>

(* What was booted is recorded whether or not a command failed.            *)
BootDone ==
  /\ phase = "boot" /\ todo = <<>>
  /\ Idle(next) /\ lost' = (lost \/ errs # {}) /\ UNCHANGED <<stale, overlaid>>

ApplyDone ==
  /\ phase = "apply" /\ todo = <<>> /\ errs = {}
  /\ Idle(next) /\ stale' = stale \cup Unrestored(running, next) /\ UNCHANGED <<lost, overlaid>>

StartRollback ==
  /\ phase = "apply" /\ todo = <<>> /\ errs # {}
  /\ phase' = "rollback" /\ todo' = Commands(next, running) /\ errs' = {}
  /\ UNCHANGED <<kernel, running, next, changes, failures, ghosts>>

RollbackDone ==
  /\ phase = "rollback" /\ todo = <<>> /\ errs = {}
  /\ Idle(running) /\ UNCHANGED <<lost, overlaid>>
  /\ stale' = stale \cup Unrestored(next, running) \cup Scrambled(next, running)

(* The attempted document is recorded when the rollback fails, too.        *)
RollbackFails ==
  /\ phase = "rollback" /\ todo = <<>> /\ errs # {}
  /\ Idle(next) /\ lost' = TRUE /\ UNCHANGED <<stale, overlaid>>

(* /var/run, and the record in it, is emptied.                             *)
PowerCycle ==
  /\ changes < MaxChanges
  /\ kernel' = [PowerOn EXCEPT !.resolv = kernel.resolv, !.rulesOnDisk = kernel.rulesOnDisk]
  /\ phase' = "off" /\ running' = NewDocument /\ next' = NewDocument
  /\ todo' = <<>> /\ errs' = {}
  /\ stale' = {} /\ lost' = FALSE /\ overlaid' = FALSE
  /\ UNCHANGED <<changes, failures>>

Next ==
  \/ (\E d \in Startups : Boot(d)) \/ (\E d \in Documents : Commit(d))
  \/ RunCommand \/ CommandFails
  \/ BootDone \/ ApplyDone \/ StartRollback \/ RollbackDone \/ RollbackFails
  \/ PowerCycle

Spec == Init /\ [][Next]_vars

-----------------------------------------------------------------------------
(* Properties                                                              *)

(* The aspects in which two systems differ.                                *)
Differences(k, l) ==
       {fn \in Aspects \X Names : k.nif[fn[2]][fn[1]] # l.nif[fn[2]][fn[1]]}
  \cup {"route"} \X {p \in DOMAIN k.routes \cup DOMAIN l.routes :
                      ~(p \in DOMAIN k.routes \cap DOMAIN l.routes /\ k.routes[p] = l.routes[p])}
  \cup {f \in DOMAIN k \ {"nif", "routes"} : k[f] # l[f]} \X {None}

(* No document gives the interface an address with two prefix lengths.     *)
TwinFree(n) ==
  \A d \in Documents : ~Twins(InterfaceOf(d, n).ipv4) /\ ~Twins(InterfaceOf(d, n).ipv6)

(* Once a boot, a change or its rollback has succeeded the system is the   *)
(* one that a fresh boot with the recorded document gives, but for the     *)
(* aspects that some change since the boot could not restore or a later    *)
(* boot has left over (apply.go:64: "moves the system from old to new").   *)
InForce ==
  phase = "idle" /\ ~lost =>
    /\ Differences(kernel, Booted[running]) \subseteq stale
    /\ ~overlaid => \A n \in Names : TwinFree(n) =>
         /\ ToSet(kernel.nif[n].v4) = ToSet(Booted[running].nif[n].v4)
         /\ ToSet(kernel.nif[n].v6) = ToSet(Booted[running].nif[n].v6)

(* "If applying fails, the previous state is restored." (README.md:25).    *)
(* Before the change it was that of a fresh boot: InForce, with nothing    *)
(* stale.                                                                  *)
PreviousStateRestored ==
  [][RollbackDone /\ stale = {} /\ ~lost => kernel = Booted[running]]_vars

(* What the DHCP server is started with; it is not started for nothing.    *)
Serving(c) == IF DhcpdConf(c).serves = {} THEN NoServer ELSE DhcpdConf(c)

(* What is recorded is in force, whatever could not be restored: once a    *)
(* change or its rollback has succeeded, and unless another document was   *)
(* booted on top of one in force, the interfaces of the recorded document  *)
(* exist and no other; whether they are up, their addresses (unless one    *)
(* is given twice), parents, DHCP clients and radio modes are as it says,  *)
(* and so is what it says of their MTU, media and wireless settings; no    *)
(* bridge has a member and no packet a route that it does not name;        *)
(* packets are forwarded and filtered and leases given by it (apply.go:64; *)
(* manager.go:104: a failed change is rolled back).                        *)
AsRecorded ==
  LET e == Effective(running) IN
  phase = "idle" /\ ~lost /\ ~overlaid =>
    /\ \A n \in Names :
         LET nif == kernel.nif[n]
             ifc == InterfaceOf(e, n)
             open == n \in Configured(e) /\ ~ifc.shutdown
         IN  /\ nif.exists <=> n \in Configured(e) \/ ~IsCloned(n)
             /\ nif.up <=> open
             /\ nif.client <=> ifc.dhcp /\ open
             /\ nif.hostap <=> Kind[n] = "physical" /\ IsAP(ifc)
             /\ nif.vlan = ifc.vlan
             /\ TwinFree(n) => ToSet(nif.v4) = ToSet(ifc.ipv4) /\ ToSet(nif.v6) = ToSet(ifc.ipv6)
             /\ nif.members \subseteq ToSet(ifc.members)
             /\ ifc.mtu # 0 => nif.mtu = ifc.mtu
             /\ ifc.media # None => nif.media = ifc.media
             /\ HasWireless(ifc) /\ open =>
                  nif.supplicant = Supplicant(ifc.wireless, BridgeOf(e, n))
    /\ \A p \in DOMAIN kernel.routes :
         \E r \in ToSet(e.routes) : r.prefix = p /\ r.nexthop = kernel.routes[p]
    /\ e.hostname # None => kernel.hostname = e.hostname
    /\ e.servers # <<>> => kernel.resolv = [domain |-> e.domain, servers |-> e.servers]
    /\ kernel.forward = e.routing /\ kernel.forward6 = e.routing6
    /\ kernel.rules = RuleSet(e) /\ kernel.rulesOnDisk = RuleSet(e)
    /\ kernel.dhcpd = Serving(e)

(* An interface moves to a bridge that is configured before its own.       *)
MovesForward(old, new) ==
  \E n \in Names : LET from == BridgeOf(Effective(old), n)
                       to == BridgeOf(Effective(new), n)
                   IN  from # None /\ to # None /\ Precedes(to, from)

(* Commands come in an order in which none is refused, whatever the two    *)
(* documents and wherever the attempt that is rolled back has failed: a    *)
(* rollback fails only if a command of its own does.                       *)
NoneRefused ==
  ~lost /\ ~overlaid /\ "refused" \in errs =>
    \/ "failed" \in errs
    \/ IF phase = "rollback" THEN MovesForward(next, running) ELSE MovesForward(running, next)

(* What is the same in both documents keeps running during a change and a  *)
(* rollback (apply.go:1: "only interfaces, routes and services whose       *)
(* configuration changed are touched"); a bridge may lose the interface    *)
(* that is removed or recreated.  Left out: a vlan that a failed rollback  *)
(* has left on another interface than it is recorded on, and that goes     *)
(* with it.                                                                *)
Same(o, e) ==
  {n \in Configured(o) \cap Configured(e) :
     o.interfaces[n] = e.interfaces[n] /\ BridgeOf(o, n) = BridgeOf(e, n)}

Shared(o, e) ==
  {r \in ToSet(o.routes) \cap ToSet(e.routes) :
     \A x \in ToSet(o.routes) \cup ToSet(e.routes) : x.prefix = r.prefix => x = r}

Undisturbed ==
  LET o == Effective(running)
      e == Effective(next)
  IN
  /\ \A n \in Same(o, e) :
       \/ kernel.nif[n].vlan \notin {NoVLAN, o.interfaces[n].vlan}
       \/ [kernel'.nif[n] EXCEPT !.members = kernel.nif[n].members] = kernel.nif[n]
  /\ \A r \in Shared(o, e) : r.prefix \in DOMAIN kernel.routes <=> r.prefix \in DOMAIN kernel'.routes
  /\ RuleSet(o) = RuleSet(e) => kernel'.rules = kernel.rules
  /\ DhcpdConf(o) = DhcpdConf(e) => kernel'.dhcpd = kernel.dhcpd

BystandersKeepRunning ==
  [][(phase \in {"apply", "rollback"} /\ phase' # "off") => Undisturbed]_vars
=============================================================================
