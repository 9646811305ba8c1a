---------------------------- MODULE ApplierProofs ----------------------------
(***************************************************************************)
(* What a change and its rollback leave alone, for any documents, commands *)
(* and failures; that no command is refused, because the commands follow a *)
(* course on which each finds what it expects; and what is true of the     *)
(* programs that serve an interface (module Daemon), which a change stops  *)
(* and starts.                                                             *)
(***************************************************************************)
EXTENDS Applier, Daemon, DocumentProofs

-----------------------------------------------------------------------------
(* What a command touches                                                  *)

RouteOps == {"route add", "route delete"}
ServerOps == {"start dhcpd", "stop dhcpd"}
Ops == SystemOps \cup {"destroy"} \cup NifOps \cup RouteOps \cup {"npf"} \cup ServerOps

KernelOK(k) ==
  /\ DOMAIN k = DOMAIN PowerOn
  /\ k.nif = [n \in Names |-> k.nif[n]]
  /\ \A n \in Names : IsMap(k.nif[n]) /\ DOMAIN k.nif[n] = DOMAIN Unconfigured(n)

(* l differs from k at most in what the command is about.                  *)
Touches(k, l, c) ==
  /\ KernelOK(l)
  /\ \/ l.nif = k.nif
     \/ c.op \in NifOps /\ \A m \in Names \ {c.n} : l.nif[m] = k.nif[m]
     \/ c.op = "destroy" /\ l.nif = Destroyed(k, c.n)
  /\ \A p : p # c.n \/ c.op \notin RouteOps => (p \in DOMAIN l.routes <=> p \in DOMAIN k.routes)
  /\ c.op # "npf" => l.rules = k.rules
  /\ c.op \notin ServerOps => l.dhcpd = k.dhcpd

LEMMA KernelFields ==
  /\ DOMAIN PowerOn = {"hostname", "resolv", "forward", "forward6", "nif", "routes", "rules",
                       "rulesOnDisk", "dhcpd"}
  /\ \A n : DOMAIN Unconfigured(n) = {"exists", "up", "mtu", "media", "hostap", "v4", "v6", "vlan",
                                      "identity", "members", "client", "supplicant"}
  /\ \A n : IsMap(Unconfigured(n)) /\ Unconfigured(n).vlan = NoVLAN
BY DEF PowerOn, Unconfigured, IsMap

LEMMA KernelStarts == KernelOK(PowerOn)
<1> DEFINE nif == [n \in Names |-> [Unconfigured(n) EXCEPT !.exists = ~IsCloned(n)]]
<1>1. PowerOn.nif = nif
  BY DEF PowerOn
<1>2. \A n \in Names : IsMap(nif[n]) /\ DOMAIN nif[n] = DOMAIN Unconfigured(n)
  BY DEF IsMap
<1> QED
  BY <1>1, <1>2 DEF KernelOK

WithField(k, f, v) == [k EXCEPT ![f] = v]
WithNif(k, n, one) == [k EXCEPT !.nif[n] = one]

(* A field other than the interfaces.                                      *)
LEMMA FieldTouches ==
  ASSUME NEW k, KernelOK(k), NEW f \in DOMAIN PowerOn \ {"nif"}, NEW v
  PROVE  LET l == WithField(k, f, v) IN
         /\ KernelOK(l) /\ l.nif = k.nif /\ l[f] = v
         /\ \A g \in DOMAIN PowerOn \ {f} : l[g] = k[g]
<1> DEFINE l == [k EXCEPT ![f] = v]
<1>1. /\ DOMAIN l = DOMAIN PowerOn /\ l[f] = v
      /\ \A g \in DOMAIN PowerOn \ {f} : l[g] = k[g]
  BY DEF KernelOK
<1>2. l.nif = k.nif
  BY <1>1, KernelFields
<1> HIDE DEF l
<1>3. KernelOK(l)
  BY <1>1, <1>2 DEF KernelOK
<1>4. /\ KernelOK(l) /\ l.nif = k.nif /\ l[f] = v
      /\ \A g \in DOMAIN PowerOn \ {f} : l[g] = k[g]
  BY <1>1, <1>2, <1>3
<1> QED
  BY <1>4 DEF l, WithField

LEMMA NifAfterIsMap ==
  ASSUME NEW nif, IsMap(nif), NEW c, c.op \in NifOps
  PROVE  IsMap(NifAfter(nif, c)) /\ DOMAIN NifAfter(nif, c) = DOMAIN nif
<1>1. CASE c.op = "create"
  BY <1>1 DEF NifAfter, IsMap
<1>2. CASE c.op = "vlanif"
  BY <1>2 DEF NifAfter, IsMap
<1>3. CASE c.op = "-vlanif"
  BY <1>3 DEF NifAfter, IsMap
<1>4. CASE c.op = "mediaopt"
  BY <1>4 DEF NifAfter, IsMap
<1>5. CASE c.op = "-mediaopt"
  BY <1>5 DEF NifAfter, IsMap
<1>6. CASE c.op = "mtu"
  BY <1>6 DEF NifAfter, IsMap
<1>7. CASE c.op = "media"
  BY <1>7 DEF NifAfter, IsMap
<1>8. CASE c.op = "alias"
  BY <1>8 DEF NifAfter, IsMap
<1>9. CASE c.op = "-alias"
  BY <1>9 DEF NifAfter, IsMap
<1>10. CASE c.op = "add"
  BY <1>10 DEF NifAfter, IsMap
<1>11. CASE c.op = "delete"
  BY <1>11 DEF NifAfter, IsMap
<1>12. CASE c.op = "up"
  BY <1>12 DEF NifAfter, IsMap
<1>13. CASE c.op = "down"
  BY <1>13 DEF NifAfter, IsMap
<1>14. CASE c.op = "dhcpcd -b"
  BY <1>14 DEF NifAfter, IsMap
<1>15. CASE c.op = "dhcpcd -x"
  BY <1>15 DEF NifAfter, IsMap
<1>16. CASE c.op = "start"
  BY <1>16 DEF NifAfter, IsMap
<1>17. CASE c.op = "stop"
  BY <1>17 DEF NifAfter, IsMap
<1> QED
  BY <1>1, <1>2, <1>3, <1>4, <1>5, <1>6, <1>7, <1>8, <1>9, <1>10, <1>11, <1>12, <1>13, <1>14, <1>15, <1>16, <1>17 DEF NifOps

(* One interface.                                                          *)
LEMMA NifTouches ==
  ASSUME NEW k, KernelOK(k), NEW n, NEW one,
         n \in Names => IsMap(one) /\ DOMAIN one = DOMAIN Unconfigured(n)
  PROVE  LET l == WithNif(k, n, one) IN
         /\ KernelOK(l)
         /\ \A m \in Names \ {n} : l.nif[m] = k.nif[m]
         /\ \A g \in DOMAIN PowerOn \ {"nif"} : l[g] = k[g]
<1> DEFINE nif == [k.nif EXCEPT ![n] = one]
           l == [k EXCEPT !.nif = nif]
<1>1. WithNif(k, n, one) = l
  BY DEF WithNif
<1>2. /\ DOMAIN nif = Names /\ nif = [m \in Names |-> nif[m]]
      /\ \A m \in Names : nif[m] = IF m = n THEN one ELSE k.nif[m]
  BY DEF KernelOK
<1> HIDE DEF nif
<1>3. /\ DOMAIN l = DOMAIN PowerOn /\ l.nif = nif
      /\ \A g \in DOMAIN PowerOn \ {"nif"} : l[g] = k[g]
  BY KernelFields DEF KernelOK
<1> HIDE DEF l
<1>4. KernelOK(l)
  BY <1>2, <1>3 DEF KernelOK
<1>5. /\ KernelOK(l) /\ \A m \in Names \ {n} : l.nif[m] = k.nif[m]
      /\ \A g \in DOMAIN PowerOn \ {"nif"} : l[g] = k[g]
  BY <1>2, <1>3, <1>4
<1> QED
  BY <1>1, <1>5

LEMMA DestroyedIsOK ==
  ASSUME NEW k, KernelOK(k), NEW n
  PROVE  LET l == [k EXCEPT !.nif = Destroyed(k, n)] IN
         /\ KernelOK(l) /\ l.nif = Destroyed(k, n)
         /\ \A g \in DOMAIN PowerOn \ {"nif"} : l[g] = k[g]
<1> DEFINE nif == Destroyed(k, n)
           l == [k EXCEPT !.nif = nif]
<1>1. nif = [m \in Names |-> nif[m]]
  BY DEF Destroyed
<1>2. \A m \in Names : IsMap(nif[m]) /\ DOMAIN nif[m] = DOMAIN Unconfigured(m)
  BY KernelFields DEF Destroyed, KernelOK, IsMap
<1> HIDE DEF nif
<1>3. /\ DOMAIN l = DOMAIN PowerOn /\ l.nif = nif
      /\ \A g \in DOMAIN PowerOn \ {"nif"} : l[g] = k[g]
  BY KernelFields DEF KernelOK
<1> HIDE DEF l
<1>4. KernelOK(l)
  BY <1>1, <1>2, <1>3 DEF KernelOK
<1>5. /\ KernelOK(l) /\ l.nif = nif
      /\ \A g \in DOMAIN PowerOn \ {"nif"} : l[g] = k[g]
  BY <1>3, <1>4
<1> QED
  BY <1>5 DEF l, nif

LEMMA EffectTouches ==
  ASSUME NEW k, KernelOK(k), NEW c, c.op \in Ops
  PROVE  Touches(k, Effect(k, c), c)
<1> DEFINE n == c.n
           l == Effect(k, c)
           rest == DOMAIN PowerOn \ {"nif"}
<1>1. CASE c.op \in NifOps
  <2> DEFINE one == NifAfter(k.nif[n], c)
  <2>1. l = WithNif(k, n, one)
    BY <1>1 DEF Effect, NifOps, SystemOps, WithNif
  <2>2. n \in Names => IsMap(one) /\ DOMAIN one = DOMAIN Unconfigured(n)
    BY <1>1, NifAfterIsMap DEF KernelOK
  <2> HIDE DEF one
  <2> DEFINE new == WithNif(k, n, one)
  <2>3. /\ KernelOK(new)
        /\ \A m \in Names \ {n} : new.nif[m] = k.nif[m]
        /\ \A g \in rest : new[g] = k[g]
    BY <2>2, NifTouches
  <2> HIDE DEF new
  <2>4. new.routes = k.routes /\ new.rules = k.rules /\ new.dhcpd = k.dhcpd
    BY <2>3, KernelFields
  <2> QED
    BY <1>1, <2>1, <2>3, <2>4 DEF Touches, new
<1>2. CASE c.op = "destroy"
  <2>1. l = [k EXCEPT !.nif = Destroyed(k, n)]
    BY <1>2 DEF Effect, NifOps, SystemOps
  <2>2. KernelOK(l) /\ l.nif = Destroyed(k, n) /\ \A g \in rest : l[g] = k[g]
    BY <2>1, DestroyedIsOK
  <2>3. l.routes = k.routes /\ l.rules = k.rules /\ l.dhcpd = k.dhcpd
    BY <2>2, KernelFields
  <2> QED
    BY <1>2, <2>2, <2>3 DEF Touches
<1>3. CASE c.op \in RouteOps
  <2>1. PICK v : /\ l = WithField(k, "routes", v)
                 /\ \A p : p # n => (p \in DOMAIN v <=> p \in DOMAIN k.routes)
    <3>1. CASE c.op = "route add"
      <4>1. l = [k EXCEPT !.routes = Updated(@, c.n, c.arg)]
        BY <3>1 DEF Effect, SystemOps, NifOps
      <4> QED
        BY <4>1 DEF Updated, WithField
    <3>2. CASE c.op = "route delete"
      <4>1. l = [k EXCEPT !.routes = Without(@, c.n)]
        BY <3>2 DEF Effect, SystemOps, NifOps
      <4> QED
        BY <4>1 DEF Without, WithField
    <3> QED
      BY <1>3, <3>1, <3>2 DEF RouteOps
  <2>2. KernelOK(l) /\ l.nif = k.nif /\ l.routes = v /\ l.rules = k.rules /\ l.dhcpd = k.dhcpd
    BY <2>1, FieldTouches, KernelFields
  <2> QED
    BY <1>3, <2>1, <2>2 DEF Touches
<1>4. CASE c.op \in ServerOps
  <2>1. PICK v : l = WithField(k, "dhcpd", v)
    BY <1>4 DEF Effect, ServerOps, SystemOps, NifOps, WithField
  <2>2. KernelOK(l) /\ l.nif = k.nif /\ l.routes = k.routes /\ l.rules = k.rules
    BY <2>1, FieldTouches, KernelFields
  <2> QED
    BY <1>4, <2>2 DEF Touches
<1>5. CASE c.op \in SystemOps
  <2>1. l = WithField(k, c.op, c.arg)
    BY <1>5 DEF Effect, SystemOps, NifOps, WithField
  <2>2. c.op \in DOMAIN PowerOn \ {"nif", "routes", "rules", "dhcpd"}
    BY <1>5, KernelFields DEF SystemOps
  <2>3. /\ KernelOK(l) /\ l.nif = k.nif
        /\ \A g \in DOMAIN PowerOn \ {c.op} : l[g] = k[g]
    BY <2>1, <2>2, FieldTouches
  <2>4. l.routes = k.routes /\ l.rules = k.rules /\ l.dhcpd = k.dhcpd
    BY <2>2, <2>3, KernelFields
  <2> QED
    BY <1>5, <2>3, <2>4 DEF Touches
<1>6. CASE c.op = "npf"
  <2> DEFINE mid == WithField(k, "rulesOnDisk", c.arg)
  <2>1. KernelOK(mid) /\ mid.nif = k.nif /\ mid.routes = k.routes /\ mid.dhcpd = k.dhcpd
    BY FieldTouches, KernelFields
  <2>2. l = WithField(mid, "rules", c.arg)
    BY <1>6 DEF Effect, SystemOps, NifOps, WithField
  <2> HIDE DEF mid
  <2>3. KernelOK(l) /\ l.nif = mid.nif /\ l.routes = mid.routes /\ l.dhcpd = mid.dhcpd
    BY <2>1, <2>2, FieldTouches, KernelFields
  <2> QED
    BY <1>6, <2>1, <2>3 DEF Touches
<1> QED
  BY <1>1, <1>2, <1>3, <1>4, <1>5, <1>6 DEF Ops

-----------------------------------------------------------------------------
(* A command that leaves alone what is the same in both documents          *)

Harmless(c, o, e) ==
  /\ c.op \in NifOps \cup {"destroy"} => c.n \notin Same(o, e)
  /\ c.op = "destroy" =>
       \A n \in Same(o, e) : o.interfaces[n].vlan = NoVLAN \/ o.interfaces[n].vlan.parent # c.n
  /\ c.op \in RouteOps => \A r \in Shared(o, e) : r.prefix # c.n
  /\ c.op = "npf" => RuleSet(o) # RuleSet(e)
  /\ c.op \in ServerOps => DhcpdConf(o) # DhcpdConf(e)

(* What is the same does not depend on the direction of the change.        *)
LEMMA HarmlessBothWays ==
  ASSUME NEW c, NEW o, NEW e, Harmless(c, o, e)
  PROVE  Harmless(c, e, o)
<1>1. Same(o, e) = Same(e, o) /\ \A n \in Same(o, e) : o.interfaces[n] = e.interfaces[n]
  BY DEF Same
<1>2. Shared(o, e) = Shared(e, o)
  BY DEF Shared
<1> QED
  BY <1>1, <1>2 DEF Harmless

(* Leaving its bridge and losing its interface is all that the destruction *)
(* of another does to an interface.                                        *)
LEMMA DestroyedOther ==
  ASSUME NEW k, KernelOK(k), NEW n, NEW m \in Names, m # n,
         k.nif[m].vlan = NoVLAN \/ k.nif[m].vlan.parent # n
  PROVE  [Destroyed(k, n)[m] EXCEPT !.members = k.nif[m].members] = k.nif[m]
<1> DEFINE nif == k.nif[m]
           other == [nif EXCEPT !.members = @ \ {n}, !.vlan = IF @.parent = n THEN NoVLAN ELSE @]
           back == [other EXCEPT !.members = nif.members]
<1>1. Destroyed(k, n)[m] = other
  BY DEF Destroyed
<1>2. IsMap(nif) /\ {"members", "vlan"} \subseteq DOMAIN nif
  BY KernelFields DEF KernelOK
<1>3. (IF nif.vlan.parent = n THEN NoVLAN ELSE nif.vlan) = nif.vlan
  OBVIOUS
<1> HIDE DEF nif
<1>4. /\ DOMAIN other = DOMAIN nif /\ other.vlan = nif.vlan
      /\ \A f \in DOMAIN nif \ {"members", "vlan"} : other[f] = nif[f]
  BY <1>2, <1>3
<1> HIDE DEF other
<1>5. back = [f \in DOMAIN nif |-> nif[f]]
  BY <1>2, <1>4
<1> QED
  BY <1>1, <1>2, <1>5 DEF IsMap, nif

LEMMA EffectDisturbsNothing ==
  ASSUME KernelOK(kernel), NEW c, c.op \in Ops,
         Harmless(c, Effective(running), Effective(next)),
         Configured(Effective(running)) \subseteq Names,
         kernel' = Effect(kernel, c)
  PROVE  Undisturbed
<1> DEFINE o == Effective(running)
           e == Effective(next)
<1>1. Touches(kernel, kernel', c)
  BY EffectTouches
<1> HIDE DEF o, e
<1>2. ASSUME NEW n \in Same(o, e), kernel.nif[n].vlan \in {NoVLAN, o.interfaces[n].vlan}
      PROVE  [kernel'.nif[n] EXCEPT !.members = kernel.nif[n].members] = kernel.nif[n]
  <2>1. n \in Names /\ IsMap(kernel.nif[n]) /\ "members" \in DOMAIN kernel.nif[n]
    BY KernelFields DEF Same, KernelOK, o
  <2>2. CASE kernel'.nif[n] = kernel.nif[n]
    BY <2>1, <2>2 DEF IsMap
  <2>3. CASE c.op = "destroy" /\ kernel'.nif = Destroyed(kernel, c.n)
    <3>1. n # c.n /\ (o.interfaces[n].vlan = NoVLAN \/ o.interfaces[n].vlan.parent # c.n)
      BY <2>3 DEF Harmless, o, e
    <3>2. kernel.nif[n].vlan = NoVLAN \/ kernel.nif[n].vlan.parent # c.n
      BY <1>2, <3>1
    <3> QED
      BY <2>1, <2>3, <3>1, <3>2, DestroyedOther
  <2>4. CASE c.op \in NifOps /\ \A m \in Names \ {c.n} : kernel'.nif[m] = kernel.nif[m]
    <3>1. n # c.n
      BY <2>4 DEF Harmless, o, e
    <3> QED
      BY <2>1, <2>2, <2>4, <3>1
  <2> QED
    BY <1>1, <2>2, <2>3, <2>4 DEF Touches
<1>3. \A r \in Shared(o, e) : r.prefix \in DOMAIN kernel.routes <=> r.prefix \in DOMAIN kernel'.routes
  BY <1>1 DEF Touches, Harmless, o, e
<1>4. RuleSet(o) = RuleSet(e) => kernel'.rules = kernel.rules
  BY <1>1 DEF Touches, Harmless, o, e
<1>5. DhcpdConf(o) = DhcpdConf(e) => kernel'.dhcpd = kernel.dhcpd
  BY <1>1 DEF Touches, Harmless, o, e
<1> QED
  BY <1>2, <1>3, <1>4, <1>5 DEF Undisturbed, o, e

-----------------------------------------------------------------------------
(* Lists of such commands.  A boot may do anything.                        *)

Fit(c, o, e, boot) == c.op \in Ops /\ (boot \/ Harmless(c, o, e))

Peaceful(s, o, e, boot) == IsList(s) /\ \A c \in ToSet(s) : Fit(c, o, e, boot)

LEMMA NoneIsPeaceful == \A o, e, boot : Peaceful(<<>>, o, e, boot)
BY NoList DEF Peaceful

LEMMA OneIsPeaceful ==
  ASSUME NEW c, NEW o, NEW e, NEW boot, Fit(c, o, e, boot)
  PROVE  Peaceful(<<c>>, o, e, boot)
<1>1. <<c>> \in Seq({c}) /\ DOMAIN <<c>> = {1} /\ <<c>>[1] = c
  OBVIOUS
<1>2. IsList(<<c>>)
  BY <1>1, TypedList
<1>3. ToSet(<<c>>) = {c}
  BY <1>1 DEF ToSet
<1> QED
  BY <1>2, <1>3 DEF Peaceful

LEMMA JoinIsPeaceful ==
  ASSUME NEW s, NEW t, NEW o, NEW e, NEW boot,
         Peaceful(s, o, e, boot), Peaceful(t, o, e, boot)
  PROVE  Peaceful(s \o t, o, e, boot)
BY ListJoin DEF Peaceful

LEMMA RestIsPeaceful ==
  ASSUME NEW s, NEW o, NEW e, NEW boot, Peaceful(s, o, e, boot), s # <<>>
  PROVE  Fit(Head(s), o, e, boot) /\ Peaceful(Tail(s), o, e, boot)
<1>1. s \in Seq(ToSet(s)) /\ IsList(Tail(s))
  BY ListFacts, ListFirst DEF Peaceful
<1>2. Head(s) \in ToSet(s) /\ Tail(s) \in Seq(ToSet(s))
  BY <1>1
<1>3. ToSet(Tail(s)) \subseteq ToSet(s)
  <2>1. \A x \in ToSet(Tail(s)) : x \in ToSet(s)
    BY <1>2 DEF ToSet
  <2> QED
    BY <2>1
<1> QED
  BY <1>1, <1>2, <1>3 DEF Peaceful

LEMMA AllArePeaceful ==
  ASSUME NEW n \in Nat, NEW f, f = [i \in 1 .. n |-> f[i]], NEW o, NEW e, NEW boot,
         \A i \in 1 .. n : Peaceful(f[i], o, e, boot)
  PROVE  Peaceful(FlattenSeq(f), o, e, boot)
<1> DEFINE S == UNION {ToSet(f[i]) : i \in 1 .. n}
           flat == FlattenSeq(f)
<1>1. \A i \in 1 .. n : f[i] \in Seq(S)
  <2> SUFFICES ASSUME NEW i \in 1 .. n PROVE f[i] \in Seq(S)
    OBVIOUS
  <2>1. f[i] \in Seq(ToSet(f[i])) /\ ToSet(f[i]) \subseteq S
    BY ListFacts DEF Peaceful
  <2> QED
    BY <2>1
<1>2. \A c \in S : Fit(c, o, e, boot)
  BY DEF Peaceful
<1> HIDE DEF S
<1>3. f \in [1 .. n -> Seq(S)]
  BY <1>1
<1>4. f \in Seq(Seq(S))
  BY <1>3, SeqDef
<1>5. flat \in Seq(S)
  BY <1>4, FlatIsTyped
<1> HIDE DEF flat
<1>6. IsList(flat) /\ \A c \in ToSet(flat) : c \in S
  BY <1>5, TypedList DEF ToSet
<1>7. Peaceful(flat, o, e, boot)
  BY <1>2, <1>6 DEF Peaceful
<1> QED
  BY <1>7 DEF flat

LEMMA EachIsPeaceful ==
  ASSUME NEW s, IsList(s), NEW f, f = [i \in DOMAIN s |-> f[i]], NEW o, NEW e, NEW boot,
         \A i \in DOMAIN s : Peaceful(f[i], o, e, boot)
  PROVE  Peaceful(FlattenSeq(f), o, e, boot)
<1>1. DOMAIN s = 1 .. Len(s) /\ Len(s) \in Nat
  BY ListFacts
<1> QED
  BY <1>1, AllArePeaceful

LEMMA WhenIsPeaceful ==
  ASSUME NEW condition, NEW s, NEW o, NEW e, NEW boot, Peaceful(s, o, e, boot)
  PROVE  Peaceful(When(condition, s), o, e, boot)
BY NoneIsPeaceful DEF When

-----------------------------------------------------------------------------
(* The commands for an interface                                           *)

MayTouch(n, o, e, boot) == boot \/ n \notin Same(o, e)

LEMMA CmdIsPeaceful ==
  ASSUME NEW n, NEW o, NEW e, NEW boot, MayTouch(n, o, e, boot),
         NEW op \in NifOps, NEW arg, NEW tol
  PROVE  Peaceful(Cmd(op, n, arg, tol), o, e, boot)
<1> DEFINE c == [op |-> op, n |-> n, arg |-> arg, tol |-> tol]
<1>1. c.op = op /\ c.n = n /\ Cmd(op, n, arg, tol) = <<c>>
  BY DEF Cmd
<1> HIDE DEF c
<1>2. op \in Ops /\ op \notin {"destroy", "npf"} \cup RouteOps \cup ServerOps
  BY DEF Ops, NifOps, RouteOps, ServerOps
<1>3. Fit(c, o, e, boot)
  BY <1>1, <1>2 DEF Fit, Harmless, MayTouch
<1> QED
  BY <1>1, <1>3, OneIsPeaceful

LEMMA AddressesArePeaceful ==
  ASSUME NEW n, NEW o, NEW e, NEW boot, MayTouch(n, o, e, boot),
         NEW op \in NifOps, NEW a, IsInterface(a), NEW b, NEW tol
  PROVE  Peaceful(Addresses(op, n, a, b, tol), o, e, boot)
<1> DEFINE s4 == Minus(a.ipv4, b.ipv4)
           s6 == Minus(a.ipv6, b.ipv6)
           f4 == [i \in DOMAIN s4 |-> Cmd(op, n, [family |-> "v4", address |-> Named(op, s4[i])], tol)]
           f6 == [i \in DOMAIN s6 |-> Cmd(op, n, [family |-> "v6", address |-> Named(op, s6[i])], tol)]
<1>1. IsList(s4) /\ IsList(s6)
  BY MinusIsList DEF IsInterface
<1>2. Addresses(op, n, a, b, tol) = FlattenSeq(f4) \o FlattenSeq(f6)
  BY DEF Addresses, Each
<1> HIDE DEF s4, s6
<1>3. \A i \in DOMAIN s4 : Peaceful(f4[i], o, e, boot)
  BY CmdIsPeaceful
<1>4. \A i \in DOMAIN s6 : Peaceful(f6[i], o, e, boot)
  BY CmdIsPeaceful
<1>5. f4 = [i \in DOMAIN s4 |-> f4[i]] /\ f6 = [i \in DOMAIN s6 |-> f6[i]]
  OBVIOUS
<1> HIDE DEF f4, f6
<1>6. Peaceful(FlattenSeq(f4), o, e, boot) /\ Peaceful(FlattenSeq(f6), o, e, boot)
  BY <1>1, <1>3, <1>4, <1>5, EachIsPeaceful
<1> QED
  BY <1>2, <1>6, JoinIsPeaceful

(* The same command for each of a list.                                    *)
ForEach(op, n, s, tol) == FlattenSeq([i \in DOMAIN s |-> Cmd(op, n, s[i], tol)])

LEMMA ForEachIsPeaceful ==
  ASSUME NEW n, NEW o, NEW e, NEW boot, MayTouch(n, o, e, boot),
         NEW op \in NifOps, NEW s, IsList(s), NEW tol
  PROVE  Peaceful(ForEach(op, n, s, tol), o, e, boot)
<1> DEFINE f == [i \in DOMAIN s |-> Cmd(op, n, s[i], tol)]
<1>1. \A i \in DOMAIN s : Peaceful(f[i], o, e, boot)
  BY CmdIsPeaceful
<1>2. f = [i \in DOMAIN s |-> f[i]]
  OBVIOUS
<1> HIDE DEF f
<1>3. Peaceful(FlattenSeq(f), o, e, boot)
  BY <1>1, <1>2, EachIsPeaceful
<1> QED
  BY <1>3 DEF ForEach, f

LEMMA ConfigureIsPeaceful ==
  ASSUME NEW n, NEW o, NEW e, NEW boot, MayTouch(n, o, e, boot),
         NEW oi, IsInterface(oi), NEW ni, IsInterface(ni),
         NEW fresh, NEW newBridge, NEW oldBridge
  PROVE  Peaceful(Configure(n, oi, ni, fresh, newBridge, oldBridge), o, e, boot)
<1> DEFINE P(s) == Peaceful(s, o, e, boot)
           cameUp == oi.shutdown \/ fresh
           state == IF ni.shutdown THEN Shut(n, oi, ni, fresh)
                                   ELSE Open(n, oi, ni, cameUp, newBridge, oldBridge)
<1>1. /\ {"create", "vlanif", "-vlanif", "mediaopt", "-mediaopt", "mtu", "media"} \subseteq NifOps
      /\ {"alias", "-alias", "add", "delete", "up", "down"} \subseteq NifOps
      /\ {"dhcpcd -b", "dhcpcd -x", "start", "stop"} \subseteq NifOps
  BY DEF NifOps
<1>2. \A op \in NifOps : \A arg, tol : P(Cmd(op, n, arg, tol))
  BY CmdIsPeaceful
<1>3. \A condition, s : P(s) => P(When(condition, s))
  BY WhenIsPeaceful
<1>4. \A s, t : P(s) /\ P(t) => P(s \o t)
  BY JoinIsPeaceful
<1>5. P(Addresses("-alias", n, oi, ni, "missing")) /\ P(Addresses("alias", n, ni, oi, "exists"))
  BY <1>1, AddressesArePeaceful
<1>6. P(Members(n, oi, ni))
  <2> DEFINE gone == Minus(oi.members, ni.members)
             come == Minus(ni.members, oi.members)
             delete == ForEach("delete", n, gone, "missing")
             add == ForEach("add", n, come, "exists")
  <2>1. IsList(gone) /\ IsList(come)
    BY MinusIsList DEF IsInterface
  <2>2. Members(n, oi, ni) = When(Kind[n] = "bridge", delete \o add)
    BY DEF Members, Each, ForEach
  <2> HIDE DEF gone, come
  <2>3. P(delete) /\ P(add)
    BY <1>1, <2>1, ForEachIsPeaceful
  <2> HIDE DEF P, delete, add
  <2> QED
    BY <1>3, <1>4, <2>2, <2>3
<1> HIDE DEF P, cameUp
<1>7. P(Create(n, ni, fresh))
  BY <1>1, <1>2, <1>3 DEF Create
<1>8. P(Parent(n, oi, ni))
  BY <1>1, <1>2, <1>3, <1>4 DEF Parent
<1>9. P(Radio(n, oi, ni, fresh))
  BY <1>1, <1>2, <1>3, <1>4 DEF Radio
<1>10. P(Link(n, oi, ni, fresh))
  BY <1>1, <1>2, <1>3, <1>4 DEF Link
<1>11. P(Shut(n, oi, ni, fresh))
  BY <1>1, <1>2, <1>3, <1>4 DEF Shut
<1>12. P(Open(n, oi, ni, cameUp, newBridge, oldBridge))
  BY <1>1, <1>2, <1>3, <1>4 DEF Open
<1>13. P(state)
  BY <1>11, <1>12
<1> HIDE DEF state
<1>14. P(Create(n, ni, fresh) \o Parent(n, oi, ni) \o Radio(n, oi, ni, fresh)
         \o Link(n, oi, ni, fresh))
  BY <1>4, <1>7, <1>8, <1>9, <1>10
<1>15. P(Create(n, ni, fresh) \o Parent(n, oi, ni) \o Radio(n, oi, ni, fresh)
         \o Link(n, oi, ni, fresh)
         \o Addresses("-alias", n, oi, ni, "missing") \o Addresses("alias", n, ni, oi, "exists")
         \o Members(n, oi, ni) \o state)
  BY <1>4, <1>5, <1>6, <1>13, <1>14
<1> QED
  BY <1>15 DEF Configure, P, state, cameUp

(* No interface that is the same in both documents is a vlan on this one.  *)
Unneeded(n, o, e, boot) ==
  boot \/ \A m \in Same(o, e) : o.interfaces[m].vlan = NoVLAN \/ o.interfaces[m].vlan.parent # n

LEMMA DestroyIsPeaceful ==
  ASSUME NEW n, NEW o, NEW e, NEW boot, MayTouch(n, o, e, boot), Unneeded(n, o, e, boot),
         NEW arg, NEW tol
  PROVE  Peaceful(Cmd("destroy", n, arg, tol), o, e, boot)
<1> DEFINE c == [op |-> "destroy", n |-> n, arg |-> arg, tol |-> tol]
<1>1. c.op = "destroy" /\ c.n = n /\ Cmd("destroy", n, arg, tol) = <<c>>
  BY DEF Cmd
<1> HIDE DEF c
<1>2. Fit(c, o, e, boot)
  BY <1>1 DEF Fit, Harmless, MayTouch, Unneeded, Ops, RouteOps, ServerOps
<1> QED
  BY <1>1, <1>2, OneIsPeaceful

LEMMA RemoveIsPeaceful ==
  ASSUME NEW n, NEW o, NEW e, NEW boot, MayTouch(n, o, e, boot), Unneeded(n, o, e, boot),
         NEW oi, IsInterface(oi)
  PROVE  Peaceful(RemoveInterface(n, oi), o, e, boot)
<1> DEFINE P(s) == Peaceful(s, o, e, boot)
           stop == When(HasWireless(oi), Cmd("stop", n, None, None))
           quit == When(oi.dhcp, Cmd("dhcpcd -x", n, None, "missing"))
           unalias == Addresses("-alias", n, oi, NewInterface, "missing")
           radio == When(IsAP(oi) /\ oi.wireless.device = None,
                         Cmd("-mediaopt", n, None, "missing"))
           down == Cmd("down", n, None, "missing")
           destroy == Cmd("destroy", n, None, "missing")
<1>1. RemoveInterface(n, oi) =
        stop \o quit \o IF IsCloned(n) THEN destroy ELSE unalias \o radio \o down
  BY DEF RemoveInterface
<1>2. {"stop", "dhcpcd -x", "-alias", "-mediaopt", "down"} \subseteq NifOps
  BY DEF NifOps
<1>3. \A op \in NifOps : \A arg, tol : P(Cmd(op, n, arg, tol))
  BY CmdIsPeaceful
<1>4. \A condition, s : P(s) => P(When(condition, s))
  BY WhenIsPeaceful
<1>5. \A s, t : P(s) /\ P(t) => P(s \o t)
  BY JoinIsPeaceful
<1>6. P(unalias)
  BY <1>2, AddressesArePeaceful
<1>7. P(destroy)
  BY DestroyIsPeaceful
<1> HIDE DEF P, unalias, destroy
<1>8. P(stop) /\ P(quit) /\ P(radio) /\ P(down)
  BY <1>2, <1>3, <1>4
<1> HIDE DEF stop, quit, radio, down
<1>9. P(unalias \o radio \o down)
  BY <1>5, <1>6, <1>8
<1>10. P(stop \o quit \o IF IsCloned(n) THEN destroy ELSE unalias \o radio \o down)
  BY <1>5, <1>7, <1>8, <1>9
<1> QED
  BY <1>1, <1>10 DEF P

(* Nothing is run for an interface that stays as it is.                    *)
LEMMA UnchangedIsNothing ==
  ASSUME NEW n, NEW x, IsInterface(x), NEW bridge
  PROVE  Configure(n, x, x, FALSE, bridge, bridge) = <<>>
<1>1. Minus(x.ipv4, x.ipv4) = <<>> /\ Minus(x.ipv6, x.ipv6) = <<>>
      /\ Minus(x.members, x.members) = <<>>
  BY MinusItself DEF IsInterface
<1>2. FlattenSeq(<<>>) = <<>>
  BY DEF FlattenSeq
<1>3. <<>> \o <<>> = <<>>
  OBVIOUS
<1>4. \A s, condition : ~condition => When(condition, s) = <<>>
  BY DEF When
<1>5. \A op, tol : Addresses(op, n, x, x, tol) = <<>>
  <2> SUFFICES ASSUME NEW op, NEW tol PROVE Addresses(op, n, x, x, tol) = <<>>
    OBVIOUS
  <2> DEFINE none == <<>>
             f4 == [i \in DOMAIN none |-> Cmd(op, n, [family |-> "v4", address |-> Named(op, none[i])], tol)]
             f6 == [i \in DOMAIN none |-> Cmd(op, n, [family |-> "v6", address |-> Named(op, none[i])], tol)]
  <2>1. Addresses(op, n, x, x, tol) = FlattenSeq(f4) \o FlattenSeq(f6)
    BY <1>1 DEF Addresses, Each
  <2>2. f4 = <<>> /\ f6 = <<>>
    OBVIOUS
  <2> QED
    BY <1>2, <2>1, <2>2
<1>6. Members(n, x, x) = <<>>
  <2> DEFINE none == <<>>
             delete == [i \in DOMAIN none |-> Cmd("delete", n, none[i], "missing")]
             add == [i \in DOMAIN none |-> Cmd("add", n, none[i], "exists")]
  <2>1. Members(n, x, x) = When(Kind[n] = "bridge", FlattenSeq(delete) \o FlattenSeq(add))
    BY <1>1 DEF Members, Each
  <2>2. delete = <<>> /\ add = <<>>
    OBVIOUS
  <2> HIDE DEF delete, add
  <2> QED
    BY <1>2, <1>3, <2>1, <2>2 DEF When
<1>7. Create(n, x, FALSE) = <<>> /\ Parent(n, x, x) = <<>>
  BY DEF Create, Parent, When
<1>8. Radio(n, x, x, FALSE) = <<>>
  <2>1. When(IsAP(x) /\ (~IsAP(x) \/ FALSE), Cmd("mediaopt", n, None, None)) = <<>>
    BY DEF When
  <2>2. When(~IsAP(x) /\ IsAP(x), Cmd("-mediaopt", n, None, None)) = <<>>
    BY DEF When
  <2> QED
    BY <1>3, <2>1, <2>2 DEF Radio, When
<1>9. Link(n, x, x, FALSE) = <<>>
  BY <1>3 DEF Link, When
<1>10. x.shutdown => Shut(n, x, x, FALSE) = <<>>
  BY DEF Shut, When
<1>11. ~x.shutdown => Open(n, x, x, x.shutdown \/ FALSE, bridge, bridge) = <<>>
  BY <1>3 DEF Open, When
<1> QED
  BY <1>3, <1>5, <1>6, <1>7, <1>8, <1>9, <1>10, <1>11 DEF Configure

-----------------------------------------------------------------------------
(* The commands for a change of documents                                  *)

(* No interface that a vlan is on is left out or recreated.                *)
Grounded(c) ==
  /\ IsDocument(c) /\ Configured(c) \subseteq Names
  /\ \A n \in Configured(c) :
       LET vlan == c.interfaces[n].vlan IN
       vlan = NoVLAN \/ (vlan.parent \in Configured(c) /\ Kind[vlan.parent] # "wlan")

LEMMA EffectiveIsGrounded ==
  ASSUME NEW d \in Documents
  PROVE  Grounded(Effective(d))
<1> DEFINE e == Effective(d)
<1>1. IsDocument(d) /\ Configured(d) \subseteq Names /\ Validate(d) /\ Orderly(d)
  BY ApplierAssumption
<1>2. IsDocument(e) /\ Configured(e) = Remaining(d) /\ Remaining(d) \subseteq Configured(d)
  BY <1>1, EffectiveParts DEF Remaining
<1>3. ASSUME NEW n \in Remaining(d)
      PROVE  LET vlan == e.interfaces[n].vlan IN
             vlan = NoVLAN \/ (vlan.parent \in Remaining(d) /\ Kind[vlan.parent] # "wlan")
  <2> DEFINE vlan == d.interfaces[n].vlan
  <2>1. n \in Configured(d) /\ e.interfaces[n].vlan = vlan
    BY <1>1, <1>3, EffectiveInterface
  <2>2. CASE Kind[n] = "vlan"
    <3>1. vlan.parent \in Configured(d) /\ Precedes(vlan.parent, n)
      BY <1>1, <2>1, <2>2 DEF Validate, ValidInterface, Orderly
    <3>2. Kind[vlan.parent] # "wlan"
      BY <1>1, <2>2, <3>1 DEF Precedes, KindOrder
    <3> QED
      BY <2>1, <3>1, <3>2 DEF Remaining
  <2>3. CASE Kind[n] # "vlan"
    BY <1>1, <2>1, <2>3 DEF Validate, ValidInterface
  <2> QED
    BY <2>2, <2>3
<1> QED
  BY <1>1, <1>2, <1>3 DEF Grounded

LEMMA BlankIsGrounded == Grounded(Blank)
<1>1. /\ DOMAIN Blank = DOMAIN NewDocument /\ IsMap(Blank)
      /\ Blank.interfaces = <<>> /\ Blank.acls = <<>> /\ Blank.nat = <<>> /\ Blank.routes = <<>>
  BY DEF Blank, NewDocument, IsMap, Empty
<1>2. IsMap(<<>>) /\ DOMAIN <<>> = {} /\ IsFiniteSet({})
  BY FS_EmptySet DEF IsMap
<1> QED
  BY <1>1, <1>2, NoList DEF Grounded, IsDocument, Configured

(* What an interface in both documents is on is in both documents.         *)
LEMMA ParentsStay ==
  ASSUME NEW o, Grounded(o), NEW e, Grounded(e), NEW n, NEW boot,
         Kind[n] = "wlan" \/ n \notin Configured(o) \cap Configured(e)
  PROVE  Unneeded(n, o, e, boot)
BY DEF Unneeded, Same, Grounded

LEMMA ConfigureInterfaceIsPeaceful ==
  ASSUME NEW o, Grounded(o), NEW e, Grounded(e), NEW n \in Configured(e), NEW boot
  PROVE  Peaceful(ConfigureInterface(n, o, e), o, e, boot)
<1> DEFINE ni == e.interfaces[n]
           oi == InterfaceOf(o, n)
           again == n \in Configured(o) /\ Recreated(n, oi, ni)
           fresh == again \/ n \notin Configured(o)
           from == IF fresh THEN NewInterface ELSE oi
           newBridge == BridgeOf(e, n)
           oldBridge == BridgeOf(o, n)
           remove == When(again, RemoveInterface(n, oi))
           configure == Configure(n, from, ni, fresh, newBridge, oldBridge)
<1>1. ConfigureInterface(n, o, e) = remove \o configure
  BY DEF ConfigureInterface
<1>2. IsInterface(oi) /\ IsInterface(ni) /\ IsInterface(from)
  BY NewInterfaceIsOne DEF InterfaceOf, Grounded, IsDocument, Configured
<1>3. CASE MayTouch(n, o, e, boot)
  <2>1. Peaceful(configure, o, e, boot)
    BY <1>2, <1>3, ConfigureIsPeaceful
  <2>2. Peaceful(remove, o, e, boot)
    <3>1. CASE again
      <4>1. Unneeded(n, o, e, boot)
        BY <3>1, ParentsStay DEF Recreated
      <4>2. Peaceful(RemoveInterface(n, oi), o, e, boot)
        BY <1>2, <1>3, <4>1, RemoveIsPeaceful
      <4> QED
        BY <4>2, WhenIsPeaceful
    <3>2. CASE ~again
      BY <3>2, NoneIsPeaceful DEF When
    <3> QED
      BY <3>1, <3>2
  <2> QED
    BY <1>1, <2>1, <2>2, JoinIsPeaceful
<1>4. CASE ~MayTouch(n, o, e, boot)
  <2>1. n \in Configured(o) /\ oi = ni /\ newBridge = oldBridge
    BY <1>4 DEF MayTouch, Same, InterfaceOf
  <2>2. ~again /\ ~fresh
    BY <2>1 DEF Recreated
  <2>3. remove = <<>>
    BY <2>2 DEF When
  <2>4. configure = Configure(n, ni, ni, FALSE, newBridge, newBridge)
    BY <2>1, <2>2
  <2>5. configure = <<>>
    BY <1>2, <2>4, UnchangedIsNothing
  <2>6. ConfigureInterface(n, o, e) = <<>>
    BY <1>1, <2>3, <2>5
  <2> QED
    BY <2>6, NoneIsPeaceful
<1> QED
  BY <1>3, <1>4

LEMMA ReverseIsList ==
  ASSUME NEW s, IsList(s)
  PROVE  IsList(Reverse(s))
<1> DEFINE r == Reverse(s)
<1>1. Len(s) \in Nat /\ r = [i \in 1 .. Len(s) |-> r[i]]
  BY ListFacts DEF Reverse
<1> HIDE DEF r
<1>2. IsList(r)
  BY <1>1, ListOfFunction
<1> QED
  BY <1>2 DEF r

LEMMA InterfacesArePeaceful ==
  ASSUME NEW o, Grounded(o), NEW e, Grounded(e), NEW boot
  PROVE  Peaceful(Interfaces(o, e), o, e, boot)
<1> DEFINE removed == Only(Reverse(InterfaceNames(o)), Configured(o) \ Configured(e))
           order == ConfigureOrder(e)
           f == [i \in DOMAIN removed |-> RemoveInterface(removed[i], o.interfaces[removed[i]])]
           g == [i \in DOMAIN order |-> ConfigureInterface(order[i], o, e)]
<1>1. Interfaces(o, e) = FlattenSeq(f) \o FlattenSeq(g)
  BY DEF Interfaces, Each
<1>2. IsList(removed) /\ ToSet(removed) \subseteq Configured(o) \ Configured(e)
  BY NamesAreConfigured, ReverseIsList, ListOnly DEF Grounded
<1>3. IsList(order) /\ ToSet(order) \subseteq Configured(e)
  BY NamesAreConfigured DEF ConfigureOrder, Grounded
<1> HIDE DEF removed, order
<1>4. ASSUME NEW i \in DOMAIN removed PROVE Peaceful(f[i], o, e, boot)
  <2> DEFINE n == removed[i]
  <2>1. n \in Configured(o) /\ n \notin Configured(e)
    BY <1>2 DEF ToSet
  <2>2. MayTouch(n, o, e, boot) /\ Unneeded(n, o, e, boot)
    BY <2>1, ParentsStay DEF MayTouch, Same
  <2>3. IsInterface(o.interfaces[n])
    BY <2>1 DEF Grounded, IsDocument, Configured
  <2>4. Peaceful(RemoveInterface(n, o.interfaces[n]), o, e, boot)
    BY <2>2, <2>3, RemoveIsPeaceful
  <2> QED
    BY <2>4
<1>5. ASSUME NEW i \in DOMAIN order PROVE Peaceful(g[i], o, e, boot)
  <2>1. order[i] \in Configured(e)
    BY <1>3 DEF ToSet
  <2>2. Peaceful(ConfigureInterface(order[i], o, e), o, e, boot)
    BY <2>1, ConfigureInterfaceIsPeaceful
  <2> QED
    BY <2>2
<1>6. f = [i \in DOMAIN removed |-> f[i]] /\ g = [i \in DOMAIN order |-> g[i]]
  OBVIOUS
<1> HIDE DEF f, g
<1>7. Peaceful(FlattenSeq(f), o, e, boot)
  BY <1>2, <1>4, <1>6, EachIsPeaceful
<1>8. Peaceful(FlattenSeq(g), o, e, boot)
  BY <1>3, <1>5, <1>6, EachIsPeaceful
<1> QED
  BY <1>1, <1>7, <1>8, JoinIsPeaceful

LEMMA FitIsPeaceful ==
  ASSUME NEW op, NEW n, NEW arg, NEW tol, NEW o, NEW e, NEW boot,
         op \in Ops \ (NifOps \cup {"destroy"}),
         op \in RouteOps => \A r \in Shared(o, e) : r.prefix # n,
         boot \/ (op = "npf" => RuleSet(o) # RuleSet(e)),
         boot \/ (op \in ServerOps => DhcpdConf(o) # DhcpdConf(e))
  PROVE  Peaceful(Cmd(op, n, arg, tol), o, e, boot)
<1> DEFINE c == [op |-> op, n |-> n, arg |-> arg, tol |-> tol]
<1>1. c.op = op /\ c.n = n /\ Cmd(op, n, arg, tol) = <<c>>
  BY DEF Cmd
<1> HIDE DEF c
<1>2. Fit(c, o, e, boot)
  BY <1>1 DEF Fit, Harmless
<1> QED
  BY <1>1, <1>2, OneIsPeaceful

LEMMA OtherOps ==
  /\ SystemOps \subseteq Ops \ (NifOps \cup {"destroy", "npf"} \cup RouteOps \cup ServerOps)
  /\ RouteOps \subseteq Ops \ (NifOps \cup {"destroy", "npf"} \cup ServerOps)
  /\ ServerOps \subseteq Ops \ (NifOps \cup {"destroy", "npf"} \cup RouteOps)
  /\ "npf" \in Ops \ (NifOps \cup {"destroy"} \cup RouteOps \cup ServerOps)
BY DEF Ops, SystemOps, NifOps, RouteOps, ServerOps

LEMMA SystemIsPeaceful ==
  ASSUME NEW o, NEW e, NEW boot
  PROVE  Peaceful(System(o, e, boot), o, e, boot)
<1> DEFINE P(s) == Peaceful(s, o, e, boot)
<1>1. {"hostname", "resolv", "forward", "forward6"} \subseteq SystemOps
  BY DEF SystemOps
<1>2. \A op \in SystemOps : \A n, arg, tol : P(Cmd(op, n, arg, tol))
  BY OtherOps, FitIsPeaceful
<1>3. \A condition, s : P(s) => P(When(condition, s))
  BY WhenIsPeaceful
<1>4. \A s, t : P(s) /\ P(t) => P(s \o t)
  BY JoinIsPeaceful
<1> HIDE DEF P
<1>5. P(System(o, e, boot))
  BY <1>1, <1>2, <1>3, <1>4 DEF System
<1> QED
  BY <1>5 DEF P

LEMMA RoutesArePeaceful ==
  ASSUME NEW o, IsDocument(o), NEW e, IsDocument(e), NEW boot
  PROVE  Peaceful(Routes(o, e), o, e, boot)
<1> DEFINE gone == Minus(o.routes, e.routes)
           come == Minus(e.routes, o.routes)
           f == [i \in DOMAIN gone |-> Cmd("route delete", gone[i].prefix, None, "missing")]
           g == [i \in DOMAIN come |-> Cmd("route add", come[i].prefix, come[i].nexthop, "exists")]
<1>1. Routes(o, e) = FlattenSeq(f) \o FlattenSeq(g)
  BY DEF Routes, Each
<1>2. /\ IsList(gone) /\ ToSet(gone) = ToSet(o.routes) \ ToSet(e.routes)
      /\ IsList(come) /\ ToSet(come) = ToSet(e.routes) \ ToSet(o.routes)
  BY MinusIsList DEF IsDocument
<1> HIDE DEF gone, come
<1>3. \A x \in ToSet(gone) \cup ToSet(come) : \A r \in Shared(o, e) : r.prefix # x.prefix
  BY <1>2 DEF Shared
<1>4. \A i \in DOMAIN gone : Peaceful(f[i], o, e, boot)
  <2> SUFFICES ASSUME NEW i \in DOMAIN gone
               PROVE  Peaceful(Cmd("route delete", gone[i].prefix, None, "missing"), o, e, boot)
    OBVIOUS
  <2>1. \A r \in Shared(o, e) : r.prefix # gone[i].prefix
    BY <1>3 DEF ToSet
  <2>2. "route delete" \in RouteOps
    BY DEF RouteOps
  <2> QED
    BY <2>1, <2>2, OtherOps, FitIsPeaceful
<1>5. \A i \in DOMAIN come : Peaceful(g[i], o, e, boot)
  <2> SUFFICES ASSUME NEW i \in DOMAIN come
               PROVE  Peaceful(Cmd("route add", come[i].prefix, come[i].nexthop, "exists"), o, e, boot)
    OBVIOUS
  <2>1. \A r \in Shared(o, e) : r.prefix # come[i].prefix
    BY <1>3 DEF ToSet
  <2>2. "route add" \in RouteOps
    BY DEF RouteOps
  <2> QED
    BY <2>1, <2>2, OtherOps, FitIsPeaceful
<1>6. f = [i \in DOMAIN gone |-> f[i]] /\ g = [i \in DOMAIN come |-> g[i]]
  OBVIOUS
<1> HIDE DEF f, g
<1>7. Peaceful(FlattenSeq(f), o, e, boot)
  BY <1>2, <1>4, <1>6, EachIsPeaceful
<1>8. Peaceful(FlattenSeq(g), o, e, boot)
  BY <1>2, <1>5, <1>6, EachIsPeaceful
<1> QED
  BY <1>1, <1>7, <1>8, JoinIsPeaceful

LEMMA FirewallIsPeaceful ==
  ASSUME NEW o, NEW e, NEW boot
  PROVE  Peaceful(Firewall(o, e, boot), o, e, boot)
<1>1. CASE boot \/ RuleSet(e) # RuleSet(o)
  <2>1. Peaceful(Cmd("npf", None, RuleSet(e), None), o, e, boot)
    BY <1>1, OtherOps, FitIsPeaceful
  <2> QED
    BY <2>1, WhenIsPeaceful DEF Firewall
<1>2. CASE ~(boot \/ RuleSet(e) # RuleSet(o))
  BY <1>2, NoneIsPeaceful DEF Firewall, When
<1> QED
  BY <1>1, <1>2

LEMMA DhcpServerIsPeaceful ==
  ASSUME NEW o, NEW e, NEW boot
  PROVE  Peaceful(DhcpServer(o, e, boot), o, e, boot)
<1> DEFINE stop == Cmd("stop dhcpd", None, None, None)
           start == Cmd("start dhcpd", None, DhcpdConf(e), None)
           more == When(DhcpdConf(e).serves # {}, start)
<1>1. DhcpServer(o, e, boot) = When(boot \/ DhcpdConf(e) # DhcpdConf(o), stop \o more)
  BY DEF DhcpServer
<1>2. CASE boot \/ DhcpdConf(e) # DhcpdConf(o)
  <2>1. {"stop dhcpd", "start dhcpd"} \subseteq ServerOps
    BY DEF ServerOps
  <2>2. Peaceful(stop, o, e, boot) /\ Peaceful(start, o, e, boot)
    BY <1>2, <2>1, OtherOps, FitIsPeaceful
  <2> HIDE DEF stop, start
  <2>3. Peaceful(more, o, e, boot)
    BY <2>2, WhenIsPeaceful
  <2>4. Peaceful(stop \o more, o, e, boot)
    BY <2>2, <2>3, JoinIsPeaceful
  <2> QED
    BY <1>1, <2>4, WhenIsPeaceful
<1>3. CASE ~(boot \/ DhcpdConf(e) # DhcpdConf(o))
  BY <1>1, <1>3, NoneIsPeaceful DEF When
<1> QED
  BY <1>2, <1>3

LEMMA ApplyIsPeaceful ==
  ASSUME NEW o, Grounded(o), NEW e, Grounded(e), NEW boot
  PROVE  Peaceful(Apply(o, e, boot), o, e, boot)
<1> DEFINE P(s) == Peaceful(s, o, e, boot)
<1>1. P(System(o, e, boot)) /\ P(Interfaces(o, e)) /\ P(Routes(o, e))
  BY SystemIsPeaceful, InterfacesArePeaceful, RoutesArePeaceful DEF Grounded
<1>2. P(Firewall(o, e, boot)) /\ P(DhcpServer(o, e, boot))
  BY FirewallIsPeaceful, DhcpServerIsPeaceful
<1>3. \A s, t : P(s) /\ P(t) => P(s \o t)
  BY JoinIsPeaceful
<1> HIDE DEF P
<1>4. P(Apply(o, e, boot))
  BY <1>1, <1>2, <1>3 DEF Apply
<1> QED
  BY <1>4 DEF P

-----------------------------------------------------------------------------
(* The invariant of Applier                                                *)

Changing == phase \in {"apply", "rollback"}

(* Whatever is still to be run leaves alone what is the same in both       *)
(* documents, unless it is run by a boot.                                  *)
ApplierInv ==
  /\ KernelOK(kernel)
  /\ running \in Documents /\ next \in Documents
  /\ Peaceful(todo, Effective(running), Effective(next), ~Changing)

LEMMA BootsAreFree ==
  ASSUME NEW s, NEW o, NEW e, NEW p, NEW q, NEW before, Peaceful(s, o, e, before)
  PROVE  Peaceful(s, p, q, TRUE)
BY DEF Peaceful, Fit

LEMMA BackIsPeaceful ==
  ASSUME NEW s, NEW o, NEW e, Peaceful(s, o, e, FALSE)
  PROVE  Peaceful(s, e, o, FALSE)
BY HarmlessBothWays DEF Peaceful, Fit

LEMMA RunIsOK ==
  ASSUME NEW k, KernelOK(k), NEW c, c.op \in Ops
  PROVE  KernelOK(Run(k, c))
BY EffectTouches DEF Run, Touches

LEMMA FailedIsOK ==
  ASSUME NEW k, KernelOK(k), NEW c, c.op \in Ops, NEW l \in FailedEffects(k, c)
  PROVE  /\ KernelOK(l)
         /\ \/ l = Effect(k, c)
            \/ l.nif = k.nif /\ l.routes = k.routes /\ l.rules = k.rules /\ l.dhcpd = k.dhcpd
<1>1. CASE l = k
  BY <1>1
<1>2. CASE l = Effect(k, c)
  BY <1>2, EffectTouches DEF Touches
<1>3. CASE l = WithField(k, "rulesOnDisk", c.arg)
  <2>1. "rulesOnDisk" \in DOMAIN PowerOn \ {"nif"}
        /\ {"routes", "rules", "dhcpd"} \subseteq DOMAIN PowerOn \ {"rulesOnDisk"}
    BY KernelFields
  <2> QED
    BY <1>3, <2>1, FieldTouches
<1> QED
  BY <1>1, <1>2, <1>3 DEF FailedEffects, WithField

LEMMA NothingDisturbed ==
  ASSUME KernelOK(kernel), running \in Documents,
         kernel'.nif = kernel.nif, kernel'.routes = kernel.routes,
         kernel'.rules = kernel.rules, kernel'.dhcpd = kernel.dhcpd
  PROVE  Undisturbed
<1>1. \A n \in Names : [kernel.nif[n] EXCEPT !.members = kernel.nif[n].members] = kernel.nif[n]
  BY DEF KernelOK, IsMap
<1>2. Configured(Effective(running)) \subseteq Names
  BY EffectiveIsGrounded DEF Grounded
<1> QED
  BY <1>1, <1>2 DEF Undisturbed, Same

LEMMA ApplierStarts == Init => ApplierInv
BY KernelStarts, NoneIsPeaceful, ApplierAssumption DEF Init, ApplierInv

LEMMA ApplierStep == ApplierInv /\ [Next]_vars => ApplierInv'
<1> SUFFICES ASSUME ApplierInv, [Next]_vars PROVE ApplierInv'
  OBVIOUS
<1> DEFINE o == Effective(running)
           e == Effective(next)
<1>1. KernelOK(kernel) /\ running \in Documents /\ next \in Documents
      /\ Peaceful(todo, o, e, ~Changing)
  BY DEF ApplierInv
<1>2. ASSUME NEW d \in Startups, Boot(d) PROVE ApplierInv'
  <2>1. d \in Documents
    BY ApplierAssumption
  <2>2. Peaceful(BootCommands(d), Blank, Effective(d), TRUE)
    BY <2>1, EffectiveIsGrounded, BlankIsGrounded, ApplyIsPeaceful DEF BootCommands
  <2>3. Peaceful(BootCommands(d), o, Effective(d), TRUE)
    BY <2>2, BootsAreFree
  <2> QED
    BY <1>1, <1>2, <2>1, <2>3 DEF Boot, ApplierInv, Changing
<1>3. ASSUME NEW d \in Documents, Commit(d) PROVE ApplierInv'
  <2>1. Peaceful(Commands(running, d), o, Effective(d), FALSE)
    BY <1>1, EffectiveIsGrounded, ApplyIsPeaceful DEF Commands
  <2> QED
    BY <1>1, <1>3, <2>1 DEF Commit, ApplierInv, Changing
<1>4. CASE RunCommand
  <2>1. Head(todo).op \in Ops /\ Peaceful(Tail(todo), o, e, ~Changing)
    BY <1>1, <1>4, RestIsPeaceful DEF RunCommand, Fit
  <2>2. KernelOK(kernel')
    BY <1>1, <1>4, <2>1, RunIsOK DEF RunCommand
  <2> QED
    BY <1>1, <1>4, <2>1, <2>2 DEF RunCommand, ApplierInv, Changing
<1>5. CASE CommandFails
  <2>1. Head(todo).op \in Ops /\ Peaceful(Tail(todo), o, e, ~Changing)
    BY <1>1, <1>5, RestIsPeaceful DEF CommandFails, Fit
  <2>2. KernelOK(kernel')
    BY <1>1, <1>5, <2>1, FailedIsOK DEF CommandFails
  <2> QED
    BY <1>1, <1>5, <2>1, <2>2 DEF CommandFails, ApplierInv, Changing
<1>6. CASE BootDone
  BY <1>1, <1>6, NoneIsPeaceful DEF BootDone, Idle, ApplierInv
<1>7. CASE ApplyDone
  BY <1>1, <1>7, NoneIsPeaceful DEF ApplyDone, Idle, ApplierInv
<1>8. CASE StartRollback
  <2>1. Peaceful(Commands(next, running), e, o, FALSE)
    BY <1>1, EffectiveIsGrounded, ApplyIsPeaceful DEF Commands
  <2>2. Peaceful(Commands(next, running), o, e, FALSE)
    BY <2>1, BackIsPeaceful
  <2> QED
    BY <1>1, <1>8, <2>2 DEF StartRollback, ApplierInv, Changing
<1>9. CASE RollbackDone
  BY <1>1, <1>9, NoneIsPeaceful DEF RollbackDone, Idle, ApplierInv
<1>10. CASE RollbackFails
  BY <1>1, <1>10, NoneIsPeaceful DEF RollbackFails, Idle, ApplierInv
<1>11. CASE PowerCycle
  <2> DEFINE mid == WithField(PowerOn, "resolv", kernel.resolv)
  <2>1. KernelOK(mid)
    BY KernelStarts, KernelFields, FieldTouches
  <2>2. kernel' = WithField(mid, "rulesOnDisk", kernel.rulesOnDisk)
    BY <1>11 DEF PowerCycle, WithField
  <2> HIDE DEF mid
  <2>3. KernelOK(kernel')
    BY <2>1, <2>2, KernelFields, FieldTouches
  <2> QED
    BY <1>11, <2>3, NoneIsPeaceful, ApplierAssumption DEF PowerCycle, ApplierInv
<1>12. CASE UNCHANGED vars
  BY <1>1, <1>12 DEF vars, ghosts, ApplierInv, Changing
<1> QED
  BY <1>2, <1>3, <1>4, <1>5, <1>6, <1>7, <1>8, <1>9, <1>10, <1>11, <1>12 DEF Next

LEMMA ApplierInvariant == Spec => []ApplierInv
BY ApplierStarts, ApplierStep, PTL DEF Spec

(* Whatever the documents, the commands, the failures and the point at     *)
(* which a change turns back: interfaces, routes, rules and the DHCP       *)
(* server that both documents have alike keep running.                     *)
THEOREM BystandersAreSpared == Spec => BystandersKeepRunning
<1>1. ASSUME ApplierInv, Next, Changing, phase' # "off" PROVE Undisturbed
  <2> DEFINE o == Effective(running)
             e == Effective(next)
  <2>1. KernelOK(kernel) /\ running \in Documents /\ Peaceful(todo, o, e, FALSE)
        /\ Configured(o) \subseteq Names
    BY <1>1, EffectiveIsGrounded DEF ApplierInv, Grounded
  <2>2. CASE RunCommand
    <3> DEFINE c == Head(todo)
    <3>1. c.op \in Ops /\ Harmless(c, o, e)
      BY <2>1, <2>2, RestIsPeaceful DEF RunCommand, Fit
    <3>2. CASE kernel' = Effect(kernel, c)
      BY <2>1, <3>1, <3>2, EffectDisturbsNothing
    <3>3. CASE kernel' = kernel
      BY <2>1, <3>3, NothingDisturbed
    <3> QED
      BY <2>2, <3>2, <3>3 DEF RunCommand, Run
  <2>3. CASE CommandFails
    <3> DEFINE c == Head(todo)
    <3>1. c.op \in Ops /\ Harmless(c, o, e) /\ kernel' \in FailedEffects(kernel, c)
      BY <2>1, <2>3, RestIsPeaceful DEF CommandFails, Fit
    <3>2. CASE kernel' = Effect(kernel, c)
      BY <2>1, <3>1, <3>2, EffectDisturbsNothing
    <3>3. CASE kernel' # Effect(kernel, c)
      BY <2>1, <3>1, <3>3, FailedIsOK, NothingDisturbed
    <3> QED
      BY <3>2, <3>3
  <2>4. CASE kernel' = kernel
    BY <2>1, <2>4, NothingDisturbed
  <2>5. ~PowerCycle /\ \A d : ~Boot(d) /\ ~Commit(d)
    BY <1>1 DEF Changing, Boot, PowerCycle, Commit
  <2>6. ApplyDone \/ StartRollback \/ RollbackDone \/ RollbackFails \/ BootDone => kernel' = kernel
    BY DEF ApplyDone, StartRollback, RollbackDone, RollbackFails, BootDone, Idle
  <2> QED
    BY <1>1, <2>2, <2>3, <2>4, <2>5, <2>6 DEF Next
<1>2. ApplierInv /\ [Next]_vars => [(Changing /\ phase' # "off") => Undisturbed]_vars
  BY <1>1
<1> QED
  BY <1>2, ApplierInvariant, PTL DEF Spec, BystandersKeepRunning, Changing

-----------------------------------------------------------------------------
(* What a command expects of the system and does to it, as far as another  *)
(* command may be refused for it: the interfaces that exist, and who is in *)
(* which bridge.  An outline [exists, joined] of a system has interfaces   *)
(* that exist for certain and the places in bridges that may be taken.     *)

Hardware == {n \in Names : ~IsCloned(n)}

Within(k, x) ==
  /\ x.exists \subseteq Names /\ \A n \in x.exists : Exists(k, n)
  /\ \A b \in Names : \A m \in k.nif[b].members : Exists(k, b) /\ <<b, m>> \in x.joined

Weaker(x, y) == y.exists \subseteq x.exists /\ x.joined \subseteq y.joined

After(c, x) ==
  [exists |-> CASE c.op = "create"  -> x.exists \cup {c.n}
                [] c.op = "destroy" -> x.exists \ {c.n}
                [] OTHER            -> x.exists,
   joined |-> CASE c.op = "add"     -> x.joined \cup {<<c.n, c.arg>>}
                [] c.op = "delete"  -> x.joined \ {<<c.n, c.arg>>}
                [] c.op = "destroy" -> {p \in x.joined : p[1] # c.n}
                [] OTHER            -> x.joined]

Proper(c) ==
  /\ c.op \in Ops
  /\ c.op \in NifOps \cup {"destroy"} => c.n \in Names
  /\ c.op \in {"alias", "-alias"} => c.arg.family \in {"v4", "v6"}

(* What it needs exists, and what it may find done already is tolerated.   *)
Expected(c, x) ==
  /\ c.op \in InterfaceOps => c.n \in x.exists \/ c.tol = "missing"
  /\ c.op \in {"dhcpcd -x", "-alias", "-vlanif", "delete", "route delete"} => c.tol = "missing"
  /\ c.op = "vlanif" => c.arg.parent \in x.exists
  /\ c.op = "create" => c.arg.device \in x.exists \cup {None}
  /\ c.op = "add" => c.arg \in x.exists
  /\ c.op \in {"create", "alias", "add", "route add"} => c.tol = "exists"

Clear(c, x) == c.op = "add" => \A b \in Names \ {c.n} : <<b, c.arg>> \notin x.joined

(* It stays within the outline mid, whatever else was run or has failed.   *)
Mild(c, mid) ==
  /\ c.op = "destroy" => c.n \notin mid.exists
  /\ c.op = "add" => <<c.n, c.arg>> \in mid.joined

(* w: the outline that holds throughout, and whether no interface is still *)
(* in another bridge when it is added to one.                              *)
Step(w, x, c, y) ==
  /\ Proper(c) /\ Expected(c, x) /\ Mild(c, w.mid) /\ (w.strict => Clear(c, x))
  /\ Weaker(After(c, x), y)

LEMMA WeakerOrders ==
  /\ \A x : Weaker(x, x)
  /\ \A x, y, z : Weaker(x, y) /\ Weaker(y, z) => Weaker(x, z)
  /\ \A k, x, y : Within(k, x) /\ Weaker(x, y) => Within(k, y)
BY DEF Weaker, Within

LEMMA NifKeeps ==
  ASSUME NEW nif, IsMap(nif), {"exists", "members"} \subseteq DOMAIN nif,
         NEW c, c.op \in NifOps, c.op \in {"alias", "-alias"} => c.arg.family \in {"v4", "v6"}
  PROVE  LET l == NifAfter(nif, c) IN
         /\ l.exists = IF c.op = "create" THEN TRUE ELSE nif.exists
         /\ l.members = CASE c.op = "add"    -> nif.members \cup {c.arg}
                          [] c.op = "delete" -> nif.members \ {c.arg}
                          [] OTHER           -> nif.members
<1>1. CASE c.op = "create"
  BY <1>1 DEF NifAfter, IsMap
<1>2. CASE c.op = "vlanif"
  BY <1>2 DEF NifAfter, IsMap
<1>3. CASE c.op = "-vlanif"
  BY <1>3 DEF NifAfter, IsMap
<1>4. CASE c.op = "mediaopt"
  BY <1>4 DEF NifAfter, IsMap
<1>5. CASE c.op = "-mediaopt"
  BY <1>5 DEF NifAfter, IsMap
<1>6. CASE c.op = "mtu"
  BY <1>6 DEF NifAfter, IsMap
<1>7. CASE c.op = "media"
  BY <1>7 DEF NifAfter, IsMap
<1>8. CASE c.op = "alias"
  BY <1>8 DEF NifAfter, IsMap
<1>9. CASE c.op = "-alias"
  BY <1>9 DEF NifAfter, IsMap
<1>10. CASE c.op = "add"
  BY <1>10 DEF NifAfter, IsMap
<1>11. CASE c.op = "delete"
  BY <1>11 DEF NifAfter, IsMap
<1>12. CASE c.op = "up"
  BY <1>12 DEF NifAfter, IsMap
<1>13. CASE c.op = "down"
  BY <1>13 DEF NifAfter, IsMap
<1>14. CASE c.op = "dhcpcd -b"
  BY <1>14 DEF NifAfter, IsMap
<1>15. CASE c.op = "dhcpcd -x"
  BY <1>15 DEF NifAfter, IsMap
<1>16. CASE c.op = "start"
  BY <1>16 DEF NifAfter, IsMap
<1>17. CASE c.op = "stop"
  BY <1>17 DEF NifAfter, IsMap
<1> QED
  BY <1>1, <1>2, <1>3, <1>4, <1>5, <1>6, <1>7, <1>8, <1>9, <1>10, <1>11, <1>12, <1>13, <1>14,
     <1>15, <1>16, <1>17 DEF NifOps

(* What becomes of an interface, as far as it matters here.                *)
LEMMA NifEffect ==
  ASSUME NEW k, KernelOK(k), NEW c, Proper(c), c.op \in NifOps
  PROVE  LET l == Effect(k, c) IN
         /\ \A m \in Names \ {c.n} : l.nif[m] = k.nif[m]
         /\ l.nif[c.n].exists = IF c.op = "create" THEN TRUE ELSE k.nif[c.n].exists
         /\ l.nif[c.n].members = CASE c.op = "add"    -> k.nif[c.n].members \cup {c.arg}
                                   [] c.op = "delete" -> k.nif[c.n].members \ {c.arg}
                                   [] OTHER           -> k.nif[c.n].members
<1> DEFINE n == c.n
           l == Effect(k, c)
           one == NifAfter(k.nif[n], c)
<1>1. n \in Names /\ IsMap(k.nif[n]) /\ {"exists", "members"} \subseteq DOMAIN k.nif[n]
  BY KernelFields DEF Proper, KernelOK
<1>2. /\ one.exists = IF c.op = "create" THEN TRUE ELSE k.nif[n].exists
      /\ one.members = CASE c.op = "add"    -> k.nif[n].members \cup {c.arg}
                         [] c.op = "delete" -> k.nif[n].members \ {c.arg}
                         [] OTHER           -> k.nif[n].members
  BY <1>1, NifKeeps DEF Proper
<1>3. l = WithNif(k, n, one)
  BY DEF Effect, NifOps, SystemOps, WithNif
<1> HIDE DEF one, l
<1> DEFINE nif == [k.nif EXCEPT ![n] = one]
<1>4. l = [k EXCEPT !.nif = nif]
  BY <1>3 DEF WithNif
<1>5. \A m \in Names : nif[m] = IF m = n THEN one ELSE k.nif[m]
  BY DEF KernelOK
<1> HIDE DEF nif
<1>6. l.nif = nif
  BY <1>4, KernelFields DEF KernelOK
<1> QED
  BY <1>1, <1>2, <1>5, <1>6 DEF l

LEMMA OtherEffect ==
  ASSUME NEW k, KernelOK(k), NEW c, c.op \in Ops \ (NifOps \cup {"destroy"})
  PROVE  Effect(k, c).nif = k.nif
BY EffectTouches DEF Touches

LEMMA DestroyEffect ==
  ASSUME NEW k, KernelOK(k), NEW c, Proper(c), c.op = "destroy"
  PROVE  LET l == Effect(k, c) IN
         /\ \A m \in Names \ {c.n} : /\ l.nif[m].exists = k.nif[m].exists
                                     /\ l.nif[m].members = k.nif[m].members \ {c.n}
         /\ l.nif[c.n].members = {}
<1> DEFINE l == Effect(k, c)
           n == c.n
<1>1. l = [k EXCEPT !.nif = Destroyed(k, n)]
  BY DEF Effect, NifOps, SystemOps
<1>2. l.nif = Destroyed(k, n)
  BY <1>1, DestroyedIsOK
<1>3. n \in Names
  BY DEF Proper
<1>4. Destroyed(k, n)[n].members = {}
  BY <1>3 DEF Destroyed, Unconfigured
<1>5. ASSUME NEW m \in Names \ {n}
      PROVE  /\ Destroyed(k, n)[m].exists = k.nif[m].exists
             /\ Destroyed(k, n)[m].members = k.nif[m].members \ {n}
  <2> DEFINE nif == k.nif[m]
             other == [nif EXCEPT !.members = @ \ {n}, !.vlan = IF @.parent = n THEN NoVLAN ELSE @]
  <2>1. Destroyed(k, n)[m] = other
    BY DEF Destroyed
  <2>2. IsMap(nif) /\ {"members", "vlan", "exists"} \subseteq DOMAIN nif
    BY KernelFields DEF KernelOK
  <2> HIDE DEF nif
  <2>3. other.exists = nif.exists /\ other.members = nif.members \ {n}
    BY <2>2
  <2> QED
    BY <2>1, <2>3 DEF nif
<1> HIDE DEF l
<1> QED
  BY <1>2, <1>4, <1>5 DEF l

LEMMA EffectStaysWithin ==
  ASSUME NEW k, KernelOK(k), NEW c, Proper(c), NEW x, Within(k, x), ~Blocked(k, c)
  PROVE  Within(Effect(k, c), After(c, x))
<1> DEFINE l == Effect(k, c)
           y == After(c, x)
<1>1. CASE c.op \in NifOps
  <2>1. c.n \in Names /\ c.op # "destroy"
    BY <1>1 DEF Proper, NifOps
  <2>2. /\ \A m \in Names \ {c.n} : l.nif[m] = k.nif[m]
        /\ l.nif[c.n].exists = IF c.op = "create" THEN TRUE ELSE k.nif[c.n].exists
        /\ l.nif[c.n].members = CASE c.op = "add"    -> k.nif[c.n].members \cup {c.arg}
                                  [] c.op = "delete" -> k.nif[c.n].members \ {c.arg}
                                  [] OTHER           -> k.nif[c.n].members
    BY <1>1, NifEffect
  <2>3. c.op = "add" => Exists(k, c.n)
    BY DEF Blocked, Missing, InterfaceOps, NifOps
  <2> HIDE DEF l
  <2>4. y.exists \subseteq Names /\ \A n \in y.exists : Exists(l, n)
    BY <2>1, <2>2 DEF After, Within, Exists
  <2>5. ASSUME NEW b \in Names, NEW m \in l.nif[b].members
        PROVE  Exists(l, b) /\ <<b, m>> \in y.joined
    <3>1. CASE b # c.n
      BY <2>1, <2>2, <2>5, <3>1 DEF After, Within, Exists
    <3>2. CASE b = c.n /\ c.op = "add"
      BY <2>1, <2>2, <2>3, <2>5, <3>2 DEF After, Within, Exists
    <3>3. CASE b = c.n /\ c.op = "delete"
      BY <2>1, <2>2, <2>5, <3>3 DEF After, Within, Exists
    <3>4. CASE b = c.n /\ c.op \notin {"add", "delete"}
      BY <2>1, <2>2, <2>5, <3>4 DEF After, Within, Exists
    <3> QED
      BY <3>1, <3>2, <3>3, <3>4
  <2> HIDE DEF y
  <2> QED
    BY <2>4, <2>5 DEF Within, y, l
<1>2. CASE c.op = "destroy"
  <2>1. /\ \A m \in Names \ {c.n} : /\ l.nif[m].exists = k.nif[m].exists
                                    /\ l.nif[m].members = k.nif[m].members \ {c.n}
        /\ l.nif[c.n].members = {}
    BY <1>2, DestroyEffect
  <2>2. y.exists = x.exists \ {c.n} /\ y.joined = {p \in x.joined : p[1] # c.n}
    BY <1>2 DEF After
  <2> HIDE DEF l, y
  <2> QED
    BY <2>1, <2>2 DEF Within, Exists, l, y
<1>3. CASE c.op \notin NifOps \cup {"destroy"}
  <2>1. l.nif = k.nif
    BY <1>3, OtherEffect DEF Proper
  <2>2. y.exists = x.exists /\ y.joined = x.joined
    BY <1>3 DEF After, NifOps
  <2> HIDE DEF l, y
  <2> QED
    BY <2>1, <2>2 DEF Within, Exists, l, y
<1> QED
  BY <1>1, <1>2, <1>3

(* A command that is not run has found what it was to do.                  *)
LEMMA BlockedStaysWithin ==
  ASSUME NEW k, NEW c, Proper(c), NEW x, Within(k, x), Expected(c, x), Blocked(k, c)
  PROVE  Within(k, After(c, x))
<1> DEFINE y == After(c, x)
<1>1. CASE c.op = "create"
  <2>1. Exists(k, c.n) /\ c.n \in Names
    BY <1>1 DEF Blocked, Missing, Present, Busy, Expected, Within, Proper, InterfaceOps, NifOps
  <2>2. y.exists = x.exists \cup {c.n} /\ y.joined = x.joined
    BY <1>1 DEF After
  <2> QED
    BY <2>1, <2>2 DEF Within
<1>2. CASE c.op = "destroy"
  <2>1. ~Exists(k, c.n)
    BY <1>2 DEF Blocked, Missing, Present, Busy
  <2>2. y.exists = x.exists \ {c.n} /\ y.joined = {p \in x.joined : p[1] # c.n}
    BY <1>2 DEF After
  <2> QED
    BY <2>1, <2>2 DEF Within
<1>3. CASE c.op = "delete"
  <2>1. ~Exists(k, c.n) \/ c.arg \notin k.nif[c.n].members
    BY <1>3 DEF Blocked, Missing, Present, Busy
  <2>2. y.exists = x.exists /\ y.joined = x.joined \ {<<c.n, c.arg>>}
    BY <1>3 DEF After
  <2> QED
    BY <2>1, <2>2 DEF Within
<1>4. CASE c.op \notin {"create", "destroy", "delete"}
  <2>1. y.exists = x.exists /\ x.joined \subseteq y.joined
    BY <1>4 DEF After
  <2> QED
    BY <2>1 DEF Within
<1> QED
  BY <1>1, <1>2, <1>3, <1>4

(* The step is taken: the command is not refused, but for an interface     *)
(* that is in another bridge.                                              *)
LEMMA StepIsTaken ==
  ASSUME NEW k, KernelOK(k), NEW w, NEW x, NEW c, NEW y, Within(k, x), Step(w, x, c, y)
  PROVE  /\ Tolerated(k, c) \/ ~w.strict
         /\ Tolerated(k, c) => Within(Run(k, c), y)
<1>1. Busy(k, c) => ~w.strict
  BY DEF Busy, Step, Clear, Within, Proper
<1>2. Missing(k, c) => c.tol = "missing"
  <2>1. ASSUME c.op \in InterfaceOps, ~Exists(k, c.n) PROVE c.tol = "missing"
    BY <2>1 DEF Step, Expected, Within
  <2>2. c.op \in {"dhcpcd -x", "-alias", "-vlanif", "delete", "route delete"} => c.tol = "missing"
    BY DEF Step, Expected
  <2>3. ~(c.op = "vlanif" /\ ~Exists(k, c.arg.parent))
        /\ ~(c.op = "create" /\ c.arg.device # None /\ ~Exists(k, c.arg.device))
        /\ ~(c.op = "add" /\ ~Exists(k, c.arg))
    BY DEF Step, Expected, Within
  <2> QED
    BY <2>1, <2>2, <2>3 DEF Missing
<1>3. Present(k, c) => c.tol = "exists"
  BY DEF Present, Step, Expected
<1>4. Within(Run(k, c), After(c, x))
  BY EffectStaysWithin, BlockedStaysWithin DEF Run, Step
<1>5. Within(Run(k, c), y)
  BY <1>4, WeakerOrders DEF Step
<1> QED
  BY <1>1, <1>2, <1>3, <1>5 DEF Tolerated

(* A command that fails may leave a file behind, but no interface changed. *)
LEMMA FailureSparesInterfaces ==
  ASSUME NEW k, KernelOK(k), NEW c, NEW l \in FailedEffects(k, c)
  PROVE  l.nif = k.nif
<1>1. CASE c.op # "npf"
  BY <1>1 DEF FailedEffects
<1>2. CASE c.op = "npf"
  <2>1. Effect(k, c).nif = k.nif
    BY <1>2, OtherEffect, OtherOps
  <2>2. "rulesOnDisk" \in DOMAIN PowerOn \ {"nif"}
    BY KernelFields
  <2>3. [k EXCEPT !.rulesOnDisk = c.arg].nif = k.nif
    BY <2>2, FieldTouches DEF WithField
  <2> QED
    BY <1>2, <2>1, <2>3 DEF FailedEffects
<1> QED
  BY <1>1, <1>2

LEMMA MildStaysWithin ==
  ASSUME NEW k, KernelOK(k), NEW c, Proper(c), NEW mid, Within(k, mid), Mild(c, mid)
  PROVE  /\ Within(Run(k, c), mid)
         /\ \A l \in FailedEffects(k, c) : Within(l, mid)
<1>1. ASSUME ~Blocked(k, c) PROVE Within(Effect(k, c), mid)
  <2>1. Within(Effect(k, c), After(c, mid))
    BY <1>1, EffectStaysWithin
  <2>2. Weaker(After(c, mid), mid)
    BY DEF Weaker, After, Mild
  <2> QED
    BY <2>1, <2>2, WeakerOrders
<1>2. \A l \in FailedEffects(k, c) : l.nif = k.nif
  BY FailureSparesInterfaces
<1> QED
  BY <1>1, <1>2 DEF Run, Within, Exists

-----------------------------------------------------------------------------
(* Lists of commands that lead from one outline to another                 *)

Trace(w, x, s, y, f) ==
  /\ Weaker(x, f[0]) /\ f[Len(s)] = y
  /\ \A i \in 1 .. Len(s) : Step(w, f[i - 1], s[i], f[i])

Leads(w, x, s, y) == IsList(s) /\ \E f : Trace(w, x, s, y, f)

LEMMA NoneLeads ==
  ASSUME NEW w, NEW x, NEW y, Weaker(x, y)
  PROVE  Leads(w, x, <<>>, y)
<1> DEFINE f == [i \in {0} |-> y]
<1>1. f[0] = y
  OBVIOUS
<1> HIDE DEF f
<1>2. Trace(w, x, <<>>, y, f)
  BY <1>1, NoList DEF Trace
<1> QED
  BY <1>2, NoList DEF Leads

LEMMA NoneLeft ==
  ASSUME NEW w, NEW x, NEW y, Leads(w, x, <<>>, y)
  PROVE  Weaker(x, y)
BY NoList DEF Leads, Trace

LEMMA OneLeads ==
  ASSUME NEW w, NEW x, NEW y, NEW c, Step(w, x, c, y)
  PROVE  Leads(w, x, <<c>>, y)
<1> DEFINE f == [i \in {0, 1} |-> IF i = 0 THEN x ELSE y]
           s == <<c>>
<1>1. s \in Seq({c}) /\ Len(s) = 1 /\ s[1] = c
  OBVIOUS
<1>2. IsList(s)
  BY <1>1, TypedList
<1>3. f[0] = x /\ f[1] = y
  OBVIOUS
<1> HIDE DEF f, s
<1>4. Trace(w, x, s, y, f)
  BY <1>1, <1>3, WeakerOrders DEF Trace
<1>5. Leads(w, x, s, y)
  BY <1>2, <1>4 DEF Leads
<1> QED
  BY <1>5 DEF s

LEMMA FirstLeads ==
  ASSUME NEW w, NEW x, NEW y, NEW s, Leads(w, x, s, y), s # <<>>
  PROVE  \E z, t : /\ Weaker(x, z) /\ Step(w, z, Head(s), t)
                   /\ Leads(w, t, Tail(s), y)
<1>1. PICK f : Trace(w, x, s, y, f)
  BY DEF Leads
<1> DEFINE n == Len(s)
           t == Tail(s)
           g == [i \in 0 .. n - 1 |-> f[i + 1]]
<1>2. s \in Seq(ToSet(s)) /\ n \in Nat /\ IsList(t)
  BY ListFacts, ListFirst DEF Leads
<1>3. /\ n # 0 /\ Len(t) = n - 1 /\ Head(s) = s[1]
      /\ \A i \in 1 .. n - 1 : t[i] = s[i + 1]
  BY <1>2
<1>4. /\ Weaker(x, f[0]) /\ f[n] = y
      /\ \A i \in 1 .. n : Step(w, f[i - 1], s[i], f[i])
  BY <1>1 DEF Trace
<1>5. \A i \in 0 .. n - 1 : g[i] = f[i + 1]
  OBVIOUS
<1> HIDE DEF t, g, n
<1>6. Step(w, f[0], s[1], f[1])
  BY <1>2, <1>3, <1>4
<1>7. ASSUME NEW i \in 1 .. n - 1 PROVE Step(w, g[i - 1], t[i], g[i])
  <2>1. i + 1 \in 1 .. n /\ i - 1 \in 0 .. n - 1 /\ i \in 0 .. n - 1 /\ i + 1 - 1 = i /\ i - 1 + 1 = i
    BY <1>2
  <2>2. Step(w, f[i + 1 - 1], s[i + 1], f[i + 1])
    BY <1>4, <2>1
  <2>3. g[i - 1] = f[i - 1 + 1] /\ g[i] = f[i + 1] /\ t[i] = s[i + 1]
    BY <1>3, <1>5, <2>1
  <2> QED
    BY <2>1, <2>2, <2>3
<1>8. g[0] = f[1] /\ g[n - 1] = f[n]
  <2>1. 0 \in 0 .. n - 1 /\ n - 1 \in 0 .. n - 1 /\ 0 + 1 = 1 /\ n - 1 + 1 = n
    BY <1>2, <1>3
  <2> QED
    BY <1>5, <2>1
<1>9. Trace(w, f[1], t, y, g)
  BY <1>3, <1>4, <1>7, <1>8, WeakerOrders DEF Trace
<1>10. Leads(w, f[1], t, y)
  BY <1>2, <1>9 DEF Leads
<1> QED
  BY <1>3, <1>4, <1>6, <1>10 DEF t

LEMMA JoinLeads ==
  ASSUME NEW w, NEW x, NEW y, NEW z, NEW s, NEW t, Leads(w, x, s, y), Leads(w, y, t, z)
  PROVE  Leads(w, x, s \o t, z)
<1>1. PICK f : Trace(w, x, s, y, f)
  BY DEF Leads
<1>2. PICK g : Trace(w, y, t, z, g)
  BY DEF Leads
<1> DEFINE m == Len(s)
           n == Len(t)
           both == s \o t
           h == [i \in 0 .. m + n |-> IF i < m THEN f[i] ELSE g[i - m]]
<1>3. s \in Seq(ToSet(s)) /\ t \in Seq(ToSet(t)) /\ m \in Nat /\ n \in Nat /\ IsList(both)
  BY ListFacts, ListJoin DEF Leads
<1>4. /\ Len(both) = m + n
      /\ \A i \in 1 .. m : both[i] = s[i]
      /\ \A i \in 1 .. n : both[m + i] = t[i]
  BY <1>3
<1>5. /\ Weaker(x, f[0]) /\ f[m] = y
      /\ \A i \in 1 .. m : Step(w, f[i - 1], s[i], f[i])
  BY <1>1 DEF Trace
<1>6. /\ Weaker(y, g[0]) /\ g[n] = z
      /\ \A i \in 1 .. n : Step(w, g[i - 1], t[i], g[i])
  BY <1>2 DEF Trace
<1>7. \A i \in 0 .. m + n : h[i] = IF i < m THEN f[i] ELSE g[i - m]
  OBVIOUS
<1> HIDE DEF h, m, n, both
<1>8. Weaker(x, h[0])
  <2>1. 0 \in 0 .. m + n
    BY <1>3
  <2>2. CASE m = 0
    <3>1. h[0] = g[0]
      BY <1>7, <2>1, <2>2
    <3> QED
      BY <1>5, <1>6, <2>2, <3>1, WeakerOrders
  <2>3. CASE m # 0
    <3>1. h[0] = f[0]
      BY <1>3, <1>7, <2>1, <2>3
    <3> QED
      BY <1>5, <3>1
  <2> QED
    BY <2>2, <2>3
<1>9. h[m + n] = z
  <2>1. \A i \in 0 .. m + n : ~(i < m) => h[i] = g[i - m]
    BY <1>7
  <2>2. \E k \in 0 .. m + n : k = m + n /\ ~(k < m) /\ k - m = n
    BY <1>3
  <2>3. PICK k \in 0 .. m + n : k = m + n /\ ~(k < m) /\ k - m = n
    BY <2>2
  <2> QED
    BY <1>6, <2>1, <2>3
<1>10. ASSUME NEW i \in 1 .. m + n PROVE Step(w, h[i - 1], both[i], h[i])
  <2>0. i \in Int /\ i >= 1 /\ i <= m + n /\ i \in 0 .. m + n /\ i - 1 \in 0 .. m + n
    BY <1>3
  <2>1. CASE i < m
    <3>1. h[i - 1] = f[i - 1] /\ h[i] = f[i] /\ i \in 1 .. m
      BY <1>3, <1>7, <2>0, <2>1
    <3> QED
      BY <1>4, <1>5, <3>1
  <2>2. CASE i = m
    <3>1. h[i - 1] = f[i - 1] /\ i \in 1 .. m /\ i - m = 0
      BY <1>3, <1>7, <2>0, <2>2
    <3>2. h[i] = g[0]
      BY <1>7, <2>0, <2>2, <3>1
    <3>3. Step(w, f[i - 1], s[i], y)
      BY <1>5, <2>2, <3>1
    <3>4. Step(w, f[i - 1], s[i], g[0])
      BY <1>6, <3>3, WeakerOrders DEF Step
    <3> QED
      BY <1>4, <3>1, <3>2, <3>4
  <2>3. CASE i > m
    <3>1. i - m \in 1 .. n /\ m + (i - m) = i /\ ~(i < m) /\ ~(i - 1 < m) /\ i - 1 - m = i - m - 1
      BY <1>3, <2>0, <2>3
    <3>2. h[i - 1] = g[i - m - 1] /\ h[i] = g[i - m] /\ both[i] = t[i - m]
      BY <1>4, <1>7, <2>0, <3>1
    <3> QED
      BY <1>6, <3>1, <3>2
  <2> QED
    BY <1>3, <2>0, <2>1, <2>2, <2>3
<1>11. Trace(w, x, both, z, h)
  BY <1>4, <1>8, <1>9, <1>10 DEF Trace
<1> QED
  BY <1>3, <1>11 DEF Leads, both

LEMMA WeakerLeads ==
  ASSUME NEW w, NEW x, NEW y, NEW s, Leads(w, x, s, y)
  PROVE  /\ \A u : Weaker(u, x) => Leads(w, u, s, y)
         /\ \A z : Weaker(y, z) => Leads(w, x, s, z)
<1>1. ASSUME NEW u, Weaker(u, x) PROVE Leads(w, u, s, y)
  BY <1>1, WeakerOrders DEF Leads, Trace
<1>2. ASSUME NEW z, Weaker(y, z) PROVE Leads(w, x, s, z)
  <2>1. Leads(w, y, <<>>, z)
    BY <1>2, NoneLeads
  <2>2. Leads(w, x, s \o <<>>, z)
    BY <2>1, JoinLeads
  <2>3. s \in Seq(ToSet(s))
    BY ListFacts DEF Leads
  <2>4. s \o <<>> = s
    BY <2>3
  <2> QED
    BY <2>2, <2>4
<1> QED
  BY <1>1, <1>2

LEMMA WhenLeads ==
  ASSUME NEW w, NEW x, NEW y, NEW s, NEW condition,
         condition => Leads(w, x, s, y), ~condition => Weaker(x, y)
  PROVE  Leads(w, x, When(condition, s), y)
BY NoneLeads DEF When

(* One list after the other.                                               *)
LEMMA AllLead ==
  ASSUME NEW w, NEW n \in Nat, NEW f, f = [i \in 1 .. n |-> f[i]], NEW g,
         \A i \in 1 .. n : Leads(w, g[i - 1], f[i], g[i])
  PROVE  Leads(w, g[0], FlattenSeq(f), g[n])
<1> DEFINE S == UNION {ToSet(f[i]) : i \in 1 .. n}
<1>1. \A i \in 1 .. n : f[i] \in Seq(S)
  <2> SUFFICES ASSUME NEW i \in 1 .. n PROVE f[i] \in Seq(S)
    OBVIOUS
  <2>1. f[i] \in Seq(ToSet(f[i])) /\ ToSet(f[i]) \subseteq S
    BY ListFacts DEF Leads
  <2> QED
    BY <2>1
<1> HIDE DEF S
<1>2. f \in [1 .. n -> Seq(S)]
  BY <1>1
<1>3. f \in Seq(Seq(S))
  BY <1>2, SeqDef
<1>4. Len(f) = n
  BY ListOfFunction
<1>5. PICK flat : Joins(f, flat)
  BY <1>3, FlatJoins
<1>6. /\ flat[0] = <<>> /\ flat[n] = FlattenSeq(f)
      /\ \A i \in 1 .. n : flat[i] = flat[i - 1] \o f[i]
  BY <1>4, <1>5 DEF Joins
<1> DEFINE G == {i \in 0 .. n : Leads(w, g[0], flat[i], g[i])}
<1>7. 0 \in G
  BY <1>6, NoneLeads, WeakerOrders
<1>8. ASSUME NEW i \in 1 .. n, i - 1 \in G PROVE i \in G
  <2>1. Leads(w, g[0], flat[i - 1], g[i - 1]) /\ Leads(w, g[i - 1], f[i], g[i])
    BY <1>8
  <2>2. Leads(w, g[0], flat[i - 1] \o f[i], g[i])
    BY <2>1, JoinLeads
  <2>3. i \in 0 .. n
    OBVIOUS
  <2> QED
    BY <1>6, <2>2, <2>3
<1>9. \A i \in 0 .. n : i \in G
  <2> HIDE DEF G
  <2> QED
    BY <1>7, <1>8, Climb
<1>10. n \in 0 .. n
  OBVIOUS
<1> QED
  BY <1>6, <1>9, <1>10

(* Lists that all leave the outline as it is.                              *)
LEMMA EachLeads ==
  ASSUME NEW w, NEW x, NEW s, IsList(s), NEW f, f = [i \in DOMAIN s |-> f[i]],
         \A i \in DOMAIN s : Leads(w, x, f[i], x)
  PROVE  Leads(w, x, FlattenSeq(f), x)
<1> DEFINE n == Len(s)
           g == [i \in 0 .. n |-> x]
<1>1. n \in Nat /\ DOMAIN s = 1 .. n
  BY ListFacts
<1>2. \A i \in 0 .. n : g[i] = x
  OBVIOUS
<1> HIDE DEF n, g
<1>3. \A i \in 1 .. n : i \in 0 .. n /\ i - 1 \in 0 .. n
  BY <1>1
<1>4. \A i \in 1 .. n : Leads(w, g[i - 1], f[i], g[i])
  BY <1>1, <1>2, <1>3
<1>5. Leads(w, g[0], FlattenSeq(f), g[n])
  BY <1>1, <1>4, AllLead
<1>6. 0 \in 0 .. n /\ n \in 0 .. n
  BY <1>1
<1> QED
  BY <1>2, <1>5, <1>6

-----------------------------------------------------------------------------
(* The commands for an interface                                           *)

LEMMA CmdLeads ==
  ASSUME NEW op, NEW n, NEW arg, NEW tol, NEW w, NEW x, NEW y,
         Step(w, x, [op |-> op, n |-> n, arg |-> arg, tol |-> tol], y)
  PROVE  Leads(w, x, Cmd(op, n, arg, tol), y)
BY OneLeads DEF Cmd

(* Commands that change neither what exists nor who is in which bridge.    *)
QuietOps == NifOps \ {"create", "vlanif", "alias", "-alias", "add", "delete"}

LEMMA QuietLeads ==
  ASSUME NEW n \in Names, NEW op \in QuietOps, NEW arg, NEW tol, NEW w, NEW x,
         op \in InterfaceOps => n \in x.exists \/ tol = "missing",
         op \in {"dhcpcd -x", "-vlanif"} => tol = "missing"
  PROVE  Leads(w, x, Cmd(op, n, arg, tol), x)
<1> DEFINE c == [op |-> op, n |-> n, arg |-> arg, tol |-> tol]
<1>1. c.op = op /\ c.n = n /\ c.tol = tol
  OBVIOUS
<1> HIDE DEF c
<1>2. op \in Ops /\ op \notin {"destroy", "route delete", "route add"}
  BY DEF QuietOps, Ops, NifOps
<1>3. Proper(c) /\ Expected(c, x) /\ Mild(c, w.mid) /\ Clear(c, x)
  BY <1>1, <1>2 DEF QuietOps, Proper, Expected, Mild, Clear
<1>4. Weaker(After(c, x), x)
  BY <1>1, <1>2 DEF QuietOps, After, Weaker
<1> QED
  BY <1>3, <1>4, CmdLeads DEF Step, c

LEMMA OtherLeads ==
  ASSUME NEW op \in Ops \ (NifOps \cup {"destroy"}), NEW n, NEW arg, NEW tol, NEW w, NEW x,
         op = "route delete" => tol = "missing", op = "route add" => tol = "exists"
  PROVE  Leads(w, x, Cmd(op, n, arg, tol), x)
<1> DEFINE c == [op |-> op, n |-> n, arg |-> arg, tol |-> tol]
<1>1. c.op = op /\ c.n = n /\ c.tol = tol
  OBVIOUS
<1> HIDE DEF c
<1>2. op \notin InterfaceOps
  BY DEF InterfaceOps
<1>3. Proper(c) /\ Expected(c, x) /\ Mild(c, w.mid) /\ Clear(c, x)
  BY <1>1, <1>2 DEF NifOps, Proper, Expected, Mild, Clear
<1>4. Weaker(After(c, x), x)
  BY <1>1 DEF NifOps, After, Weaker
<1> QED
  BY <1>3, <1>4, CmdLeads DEF Step, c

LEMMA AliasLeads ==
  ASSUME NEW n \in Names, NEW op \in {"alias", "-alias"}, NEW family \in {"v4", "v6"}, NEW a,
         NEW tol, NEW w, NEW x,
         op = "alias" => n \in x.exists /\ tol = "exists", op = "-alias" => tol = "missing"
  PROVE  Leads(w, x, Cmd(op, n, [family |-> family, address |-> a], tol), x)
<1> DEFINE arg == [family |-> family, address |-> a]
           c == [op |-> op, n |-> n, arg |-> arg, tol |-> tol]
<1>1. c.op = op /\ c.n = n /\ c.tol = tol /\ c.arg.family \in {"v4", "v6"}
  OBVIOUS
<1> HIDE DEF c
<1>2. op \in Ops
  BY DEF Ops, NifOps
<1>3. Proper(c) /\ Expected(c, x) /\ Mild(c, w.mid) /\ Clear(c, x)
  BY <1>1, <1>2 DEF Proper, Expected, Mild, Clear
<1>4. Weaker(After(c, x), x)
  BY <1>1 DEF After, Weaker
<1> QED
  BY <1>3, <1>4, CmdLeads DEF Step, c

LEMMA AddressesLead ==
  ASSUME NEW n \in Names, NEW op \in {"alias", "-alias"}, NEW a, IsInterface(a), NEW b,
         NEW tol, NEW w, NEW x,
         op = "alias" => n \in x.exists /\ tol = "exists", op = "-alias" => tol = "missing"
  PROVE  Leads(w, x, Addresses(op, n, a, b, tol), x)
<1> DEFINE s4 == Minus(a.ipv4, b.ipv4)
           s6 == Minus(a.ipv6, b.ipv6)
           f4 == [i \in DOMAIN s4 |-> Cmd(op, n, [family |-> "v4", address |-> Named(op, s4[i])], tol)]
           f6 == [i \in DOMAIN s6 |-> Cmd(op, n, [family |-> "v6", address |-> Named(op, s6[i])], tol)]
<1>1. IsList(s4) /\ IsList(s6)
  BY MinusIsList DEF IsInterface
<1>2. Addresses(op, n, a, b, tol) = FlattenSeq(f4) \o FlattenSeq(f6)
  BY DEF Addresses, Each
<1> HIDE DEF s4, s6
<1>3. \A i \in DOMAIN s4 : Leads(w, x, f4[i], x)
  BY AliasLeads
<1>4. \A i \in DOMAIN s6 : Leads(w, x, f6[i], x)
  BY AliasLeads
<1>5. f4 = [i \in DOMAIN s4 |-> f4[i]] /\ f6 = [i \in DOMAIN s6 |-> f6[i]]
  OBVIOUS
<1> HIDE DEF f4, f6
<1>6. Leads(w, x, FlattenSeq(f4), x) /\ Leads(w, x, FlattenSeq(f6), x)
  BY <1>1, <1>3, <1>4, <1>5, EachLeads
<1> QED
  BY <1>2, <1>6, JoinLeads

(* A cloned interface is destroyed, and with it what is in the bridge it   *)
(* may be.                                                                 *)
LEMMA RemoveLeads ==
  ASSUME NEW n \in Names, NEW oi, IsInterface(oi), NEW w, NEW x, NEW y,
         IsCloned(n) => n \notin x.exists /\ n \notin w.mid.exists,
         y.exists = x.exists,
         \A p \in x.joined : p \in y.joined \/ (IsCloned(n) /\ p[1] = n)
  PROVE  Leads(w, x, RemoveInterface(n, oi), y)
<1> DEFINE stop == When(HasWireless(oi), Cmd("stop", n, None, None))
           quit == When(oi.dhcp, Cmd("dhcpcd -x", n, None, "missing"))
           unalias == Addresses("-alias", n, oi, NewInterface, "missing")
           radio == When(IsAP(oi) /\ oi.wireless.device = None,
                         Cmd("-mediaopt", n, None, "missing"))
           down == Cmd("down", n, None, "missing")
           destroy == Cmd("destroy", n, None, "missing")
           rest == IF IsCloned(n) THEN destroy ELSE unalias \o radio \o down
           P(s) == Leads(w, x, s, x)
<1>1. RemoveInterface(n, oi) = stop \o quit \o rest
  BY DEF RemoveInterface
<1>2. /\ {"stop", "dhcpcd -x", "-mediaopt", "down"} \subseteq QuietOps
      /\ "stop" \notin InterfaceOps
  BY DEF QuietOps, NifOps, InterfaceOps
<1>3. P(Cmd("stop", n, None, None)) /\ P(Cmd("dhcpcd -x", n, None, "missing"))
      /\ P(Cmd("-mediaopt", n, None, "missing")) /\ P(down)
  <2>1. P(Cmd("stop", n, None, None))
    BY <1>2, QuietLeads
  <2>2. \A op \in {"dhcpcd -x", "-mediaopt", "down"} : P(Cmd(op, n, None, "missing"))
    BY <1>2, QuietLeads
  <2> QED
    BY <2>1, <2>2
<1>4. P(unalias)
  BY AddressesLead
<1>5. \A condition, s : P(s) => P(When(condition, s))
  BY WhenLeads, WeakerOrders
<1>6. \A s, t : P(s) /\ P(t) => P(s \o t)
  BY JoinLeads
<1>7. Leads(w, x, rest, y)
  <2>1. CASE IsCloned(n)
    <3> DEFINE c == [op |-> "destroy", n |-> n, arg |-> None, tol |-> "missing"]
    <3>1. c.op = "destroy" /\ c.n = n /\ c.tol = "missing"
      OBVIOUS
    <3> HIDE DEF c
    <3>2. Proper(c) /\ Expected(c, x) /\ Mild(c, w.mid) /\ Clear(c, x)
      BY <2>1, <3>1 DEF Proper, Ops, Expected, Mild, Clear
    <3>3. Weaker(After(c, x), y)
      BY <2>1, <3>1 DEF After, Weaker
    <3>4. Leads(w, x, destroy, y)
      BY <3>2, <3>3, CmdLeads DEF Step, c
    <3> QED
      BY <2>1, <3>4
  <2>2. CASE ~IsCloned(n)
    <3> HIDE DEF P, unalias, down
    <3>1. P(radio)
      BY <1>3, <1>5
    <3> HIDE DEF radio
    <3>2. P(unalias \o radio \o down)
      BY <1>3, <1>4, <1>6, <3>1
    <3>3. Weaker(x, y)
      BY <2>2 DEF Weaker
    <3>4. Leads(w, x, unalias \o radio \o down, y)
      BY <3>2, <3>3, WeakerLeads DEF P
    <3> QED
      BY <2>2, <3>4
  <2> QED
    BY <2>1, <2>2
<1> HIDE DEF P, rest
<1>8. P(stop) /\ P(quit)
  BY <1>3, <1>5
<1> HIDE DEF stop, quit
<1>9. P(stop \o quit)
  BY <1>6, <1>8
<1>10. Leads(w, x, (stop \o quit) \o rest, y)
  BY <1>7, <1>9, JoinLeads DEF P
<1> QED
  BY <1>1, <1>10

(* The same command for each of a list.                                    *)
LEMMA ForEachLeads ==
  ASSUME NEW op, NEW n, NEW s, IsList(s), NEW tol, NEW w, NEW x,
         \A a \in ToSet(s) : Leads(w, x, Cmd(op, n, a, tol), x)
  PROVE  Leads(w, x, ForEach(op, n, s, tol), x)
<1> DEFINE f == [i \in DOMAIN s |-> Cmd(op, n, s[i], tol)]
<1>1. \A i \in DOMAIN s : Leads(w, x, f[i], x)
  BY DEF ToSet
<1>2. f = [i \in DOMAIN s |-> f[i]]
  OBVIOUS
<1> HIDE DEF f
<1>3. Leads(w, x, FlattenSeq(f), x)
  BY <1>1, <1>2, EachLeads
<1> QED
  BY <1>3 DEF ForEach, f

(* Members leave a bridge one after the other.                             *)
LEMMA LeavesLead ==
  ASSUME NEW n \in Names, NEW s, IsList(s), NEW w, NEW x, NEW y, y.exists = x.exists,
         \A p \in x.joined : p \in y.joined \/ (p[1] = n /\ p[2] \in ToSet(s)),
         \A p \in x.joined : p = <<p[1], p[2]>>
  PROVE  Leads(w, x, ForEach("delete", n, s, "missing"), y)
<1> DEFINE k == Len(s)
           f == [i \in DOMAIN s |-> Cmd("delete", n, s[i], "missing")]
           left(i) == {<<n, s[j]>> : j \in 1 .. i}
           g == [i \in 0 .. k |-> [exists |-> x.exists, joined |-> x.joined \ left(i)]]
<1>1. k \in Nat /\ DOMAIN s = 1 .. k /\ ToSet(s) = {s[i] : i \in 1 .. k}
  BY ListFacts
<1>2. \A i \in 0 .. k : g[i].exists = x.exists /\ g[i].joined = x.joined \ left(i)
  OBVIOUS
<1> HIDE DEF g, k
<1>3. ASSUME NEW i \in 1 .. k PROVE Leads(w, g[i - 1], f[i], g[i])
  <2> DEFINE c == [op |-> "delete", n |-> n, arg |-> s[i], tol |-> "missing"]
  <2>1. c.op = "delete" /\ c.n = n /\ c.arg = s[i] /\ c.tol = "missing"
    OBVIOUS
  <2>2. f[i] = Cmd("delete", n, s[i], "missing")
    BY <1>1
  <2>3. i - 1 \in 0 .. k /\ i \in 0 .. k /\ \A j \in 1 .. i : j = i \/ j \in 1 .. i - 1
    BY <1>1
  <2> HIDE DEF c
  <2>4. Proper(c) /\ Expected(c, g[i - 1]) /\ Mild(c, w.mid) /\ Clear(c, g[i - 1])
    BY <2>1 DEF Proper, Ops, NifOps, Expected, Mild, Clear
  <2>5. g[i - 1].joined \ {<<n, s[i]>>} \subseteq g[i].joined /\ g[i].exists = g[i - 1].exists
    BY <1>2, <2>3
  <2>6. Weaker(After(c, g[i - 1]), g[i])
    BY <2>1, <2>5 DEF After, Weaker
  <2> QED
    BY <2>2, <2>4, <2>6, CmdLeads DEF Step, c
<1>4. f = [i \in 1 .. k |-> f[i]]
  BY <1>1
<1> HIDE DEF f
<1>5. Leads(w, g[0], FlattenSeq(f), g[k])
  BY <1>1, <1>3, <1>4, AllLead
<1>6. 0 \in 0 .. k /\ k \in 0 .. k
  BY <1>1
<1>7. Weaker(x, g[0])
  BY <1>2, <1>6 DEF Weaker
<1>8. Weaker(g[k], y)
  BY <1>1, <1>2, <1>6 DEF Weaker
<1>9. Leads(w, x, FlattenSeq(f), y)
  BY <1>5, <1>7, <1>8, WeakerLeads
<1> QED
  BY <1>9 DEF ForEach, f

(* And others come.                                                        *)
LEMMA AddLeads ==
  ASSUME NEW n \in Names, NEW m, NEW w, NEW x, n \in x.exists, m \in x.exists,
         <<n, m>> \in x.joined, <<n, m>> \in w.mid.joined,
         w.strict => \A b \in Names \ {n} : <<b, m>> \notin x.joined
  PROVE  Leads(w, x, Cmd("add", n, m, "exists"), x)
<1> DEFINE c == [op |-> "add", n |-> n, arg |-> m, tol |-> "exists"]
<1>1. c.op = "add" /\ c.n = n /\ c.arg = m /\ c.tol = "exists"
  OBVIOUS
<1> HIDE DEF c
<1>2. Proper(c) /\ Expected(c, x) /\ Mild(c, w.mid) /\ (w.strict => Clear(c, x))
  BY <1>1 DEF Proper, Ops, NifOps, Expected, Mild, Clear
<1>3. Weaker(After(c, x), x)
  BY <1>1 DEF After, Weaker
<1> QED
  BY <1>2, <1>3, CmdLeads DEF Step, c

LEMMA CreateLeads ==
  ASSUME NEW n \in Names, NEW ni, NEW fresh, NEW w, NEW x, NEW y,
         y.exists = x.exists \cup {n}, y.joined = x.joined,
         n \in x.exists \/ (fresh /\ IsCloned(n)),
         Kind[n] = "wlan" => ni.wireless.device \in x.exists \cup {None}
  PROVE  Leads(w, x, Create(n, ni, fresh), y)
<1> DEFINE arg == IF Kind[n] = "wlan" THEN Identity(ni.wireless) ELSE Identity(NoWireless)
           c == [op |-> "create", n |-> n, arg |-> arg, tol |-> "exists"]
           create == Cmd("create", n, arg, "exists")
<1>1. arg.device \in x.exists \cup {None}
  BY DEF Identity, NoWireless
<1>2. c.op = "create" /\ c.n = n /\ c.arg = arg /\ c.tol = "exists"
  OBVIOUS
<1>3. Create(n, ni, fresh) = When(fresh /\ IsCloned(n), create)
  BY DEF Create
<1> HIDE DEF arg, c
<1>4. Proper(c) /\ Expected(c, x) /\ Mild(c, w.mid) /\ Clear(c, x)
  BY <1>1, <1>2 DEF Proper, Ops, NifOps, Expected, InterfaceOps, Mild, Clear
<1>5. Weaker(After(c, x), y)
  BY <1>2 DEF After, Weaker
<1>6. Leads(w, x, create, y)
  BY <1>4, <1>5, CmdLeads DEF Step, c
<1>7. ~(fresh /\ IsCloned(n)) => Weaker(x, y)
  BY DEF Weaker
<1> QED
  BY <1>3, <1>6, <1>7, WhenLeads

LEMMA VlanLeads ==
  ASSUME NEW n \in Names, NEW vlan, NEW w, NEW x, n \in x.exists, vlan.parent \in x.exists
  PROVE  Leads(w, x, Cmd("vlanif", n, vlan, None), x)
<1> DEFINE c == [op |-> "vlanif", n |-> n, arg |-> vlan, tol |-> None]
<1>1. c.op = "vlanif" /\ c.n = n /\ c.arg = vlan
  OBVIOUS
<1> HIDE DEF c
<1>2. Proper(c) /\ Expected(c, x) /\ Mild(c, w.mid) /\ Clear(c, x)
  BY <1>1 DEF Proper, Ops, NifOps, Expected, Mild, Clear
<1>3. Weaker(After(c, x), x)
  BY <1>1 DEF After, Weaker
<1> QED
  BY <1>2, <1>3, CmdLeads DEF Step, c

LEMMA MembersLead ==
  ASSUME NEW n \in Names, NEW oi, IsInterface(oi), NEW ni, IsInterface(ni), NEW w, NEW x, NEW y,
         n \in x.exists, y.exists = x.exists, \A p \in x.joined : p = <<p[1], p[2]>>,
         \A p \in x.joined :
           p \in y.joined
           \/ (Kind[n] = "bridge" /\ p[1] = n /\ p[2] \in ToSet(oi.members) \ ToSet(ni.members)),
         Kind[n] = "bridge" =>
           \A m \in ToSet(ni.members) \ ToSet(oi.members) :
             /\ m \in x.exists /\ <<n, m>> \in y.joined /\ <<n, m>> \in w.mid.joined
             /\ w.strict => \A b \in Names \ {n} : <<b, m>> \notin y.joined
  PROVE  Leads(w, x, Members(n, oi, ni), y)
<1> DEFINE gone == Minus(oi.members, ni.members)
           come == Minus(ni.members, oi.members)
           delete == ForEach("delete", n, gone, "missing")
           add == ForEach("add", n, come, "exists")
<1>1. /\ IsList(gone) /\ ToSet(gone) = ToSet(oi.members) \ ToSet(ni.members)
      /\ IsList(come) /\ ToSet(come) = ToSet(ni.members) \ ToSet(oi.members)
  BY MinusIsList DEF IsInterface
<1>2. Members(n, oi, ni) = When(Kind[n] = "bridge", delete \o add)
  BY DEF Members, Each, ForEach
<1> HIDE DEF gone, come
<1>3. CASE Kind[n] = "bridge"
  <2>1. Leads(w, x, delete, y)
    BY <1>1, LeavesLead
  <2>2. \A m \in ToSet(come) : Leads(w, y, Cmd("add", n, m, "exists"), y)
    BY <1>1, <1>3, AddLeads
  <2>3. Leads(w, y, add, y)
    BY <1>1, <2>2, ForEachLeads
  <2> HIDE DEF delete, add
  <2>4. Leads(w, x, delete \o add, y)
    BY <2>1, <2>3, JoinLeads
  <2> QED
    BY <1>2, <1>3, <2>4 DEF When
<1>4. CASE Kind[n] # "bridge"
  <2>1. Weaker(x, y)
    BY <1>4 DEF Weaker
  <2> QED
    BY <1>2, <1>4, <2>1, WhenLeads
<1> QED
  BY <1>3, <1>4

(* An interface is created unless it exists, and joined by its members.    *)
LEMMA ConfigureLeads ==
  ASSUME NEW n \in Names, NEW oi, IsInterface(oi), NEW ni, IsInterface(ni),
         NEW fresh, NEW newBridge, NEW oldBridge, NEW w, NEW x, NEW y,
         y.exists = x.exists \cup {n}, \A p \in x.joined : p = <<p[1], p[2]>>,
         n \in x.exists \/ (fresh /\ IsCloned(n)),
         Kind[n] = "wlan" => ni.wireless.device \in x.exists \cup {None},
         ni.vlan # NoVLAN => ni.vlan.parent \in x.exists,
         \A p \in x.joined :
           p \in y.joined
           \/ (Kind[n] = "bridge" /\ p[1] = n /\ p[2] \in ToSet(oi.members) \ ToSet(ni.members)),
         Kind[n] = "bridge" =>
           \A m \in ToSet(ni.members) \ ToSet(oi.members) :
             /\ m \in x.exists /\ <<n, m>> \in y.joined /\ <<n, m>> \in w.mid.joined
             /\ w.strict => \A b \in Names \ {n} : <<b, m>> \notin y.joined
  PROVE  Leads(w, x, Configure(n, oi, ni, fresh, newBridge, oldBridge), y)
<1> DEFINE z == [exists |-> x.exists \cup {n}, joined |-> x.joined]
           P(s) == Leads(w, z, s, z)
           Q(s) == Leads(w, y, s, y)
           cameUp == oi.shutdown \/ fresh
           state == IF ni.shutdown THEN Shut(n, oi, ni, fresh)
                                   ELSE Open(n, oi, ni, cameUp, newBridge, oldBridge)
<1>1. z.exists = x.exists \cup {n} /\ z.joined = x.joined /\ z.exists = y.exists
  OBVIOUS
<1> HIDE DEF z
<1>2. {"-vlanif", "mediaopt", "-mediaopt", "mtu", "media", "up", "down", "dhcpcd -b",
       "dhcpcd -x", "start", "stop"} \subseteq QuietOps
  BY DEF QuietOps, NifOps
<1>3. \A op \in QuietOps \ {"-vlanif", "dhcpcd -x"} : \A arg, tol :
        P(Cmd(op, n, arg, tol)) /\ Q(Cmd(op, n, arg, tol))
  BY <1>1, QuietLeads
<1>4. \A op \in QuietOps : \A arg : P(Cmd(op, n, arg, "missing")) /\ Q(Cmd(op, n, arg, "missing"))
  BY QuietLeads
<1>5. \A condition, s : (P(s) => P(When(condition, s))) /\ (Q(s) => Q(When(condition, s)))
  BY WhenLeads, WeakerOrders
<1>6. \A s, t : (P(s) /\ P(t) => P(s \o t)) /\ (Q(s) /\ Q(t) => Q(s \o t))
  BY JoinLeads
<1>7. Leads(w, x, Create(n, ni, fresh), z)
  BY <1>1, CreateLeads
<1>8. ni.vlan # NoVLAN => P(Cmd("vlanif", n, ni.vlan, None))
  BY <1>1, VlanLeads
<1>9. P(Addresses("-alias", n, oi, ni, "missing")) /\ P(Addresses("alias", n, ni, oi, "exists"))
  BY <1>1, AddressesLead
<1>10. Leads(w, z, Members(n, oi, ni), y)
  BY <1>1, MembersLead
<1>11. P(<<>>)
  BY NoneLeads, WeakerOrders
<1> HIDE DEF P, Q, cameUp
<1>12. P(Parent(n, oi, ni))
  <2> DEFINE into == When(ni.vlan # NoVLAN, Cmd("vlanif", n, ni.vlan, None))
             out == When(oi.vlan # NoVLAN, Cmd("-vlanif", n, None, "missing"))
  <2>1. P(into)
    BY <1>8, <1>11 DEF When
  <2>2. P(out)
    BY <1>2, <1>4, <1>5
  <2>3. Parent(n, oi, ni) = When(Kind[n] = "vlan" /\ oi.vlan # ni.vlan, out \o into)
    BY DEF Parent
  <2> HIDE DEF into, out
  <2> QED
    BY <1>5, <1>6, <2>1, <2>2, <2>3
<1>13. P(Radio(n, oi, ni, fresh))
  BY <1>2, <1>3, <1>5, <1>6 DEF Radio
<1>14. P(Link(n, oi, ni, fresh))
  BY <1>2, <1>3, <1>5, <1>6 DEF Link
<1>15. Q(Shut(n, oi, ni, fresh))
  BY <1>2, <1>3, <1>4, <1>5, <1>6 DEF Shut
<1>16. Q(Open(n, oi, ni, cameUp, newBridge, oldBridge))
  BY <1>2, <1>3, <1>4, <1>5, <1>6, ZenonT(30) DEF Open
<1>17. Q(state)
  BY <1>15, <1>16
<1> HIDE DEF state
<1> DEFINE create == Create(n, ni, fresh)
           parent == Parent(n, oi, ni)
           radio == Radio(n, oi, ni, fresh)
           link == Link(n, oi, ni, fresh)
           unalias == Addresses("-alias", n, oi, ni, "missing")
           alias == Addresses("alias", n, ni, oi, "exists")
           members == Members(n, oi, ni)
<1>18. Configure(n, oi, ni, fresh, newBridge, oldBridge)
         = create \o parent \o radio \o link \o unalias \o alias \o members \o state
  BY DEF Configure, state, cameUp
<1> HIDE DEF create, parent, radio, link, unalias, alias, members
<1>19. Leads(w, x, create, z) /\ Leads(w, z, parent, z) /\ Leads(w, z, radio, z)
       /\ Leads(w, z, link, z) /\ Leads(w, z, unalias, z) /\ Leads(w, z, alias, z)
       /\ Leads(w, z, members, y) /\ Leads(w, y, state, y)
  BY <1>7, <1>9, <1>10, <1>12, <1>13, <1>14, <1>17
     DEF P, Q, create, parent, radio, link, unalias, alias, members
<1>20. Leads(w, x, create \o parent \o radio \o link, z)
  BY <1>19, JoinLeads
<1>21. Leads(w, x, create \o parent \o radio \o link \o unalias \o alias, z)
  BY <1>19, <1>20, JoinLeads
<1>22. Leads(w, x, create \o parent \o radio \o link \o unalias \o alias \o members \o state, y)
  BY <1>19, <1>21, JoinLeads
<1> QED
  BY <1>18, <1>22

-----------------------------------------------------------------------------
(* The documents                                                           *)

(* The places in bridges.                                                  *)
Pairs(c) == {p \in Configured(c) \X Names : p[2] \in ToSet(c.interfaces[p[1]].members)}

(* What exists throughout a change.                                        *)
Standing(o, e) ==
  Hardware \cup {n \in Configured(o) \cap Configured(e) :
                   ~Recreated(n, o.interfaces[n], e.interfaces[n])}

Mid(o, e) == [exists |-> Standing(o, e), joined |-> Pairs(o) \cup Pairs(e)]

Base(c) == [exists |-> Hardware \cup Configured(c), joined |-> Pairs(c)]

(* When these are configured.                                              *)
During(o, e, done) ==
  [exists |-> Standing(o, e) \cup done,
   joined |-> Pairs(e) \cup {p \in Pairs(o) : p[1] \in Configured(e) \ done}]

Forward(o, e) ==
  \E n \in Names : LET from == BridgeOf(o, n)
                       to == BridgeOf(e, n)
                   IN  from # None /\ to # None /\ Precedes(to, from)

Course(o, e) == [mid |-> Mid(o, e), strict |-> ~Forward(o, e)]

(* What every interface is built on comes before it, and no bridge takes   *)
(* an interface from another.                                              *)
Settled(c) ==
  /\ IsDocument(c) /\ Configured(c) \subseteq Names
  /\ \A n \in Configured(c) :
       LET ifc == c.interfaces[n] IN
       /\ ifc.vlan # NoVLAN => ifc.vlan.parent \in Configured(c) /\ Precedes(ifc.vlan.parent, n)
       /\ Kind[n] # "bridge" => ToSet(ifc.members) = {}
       /\ \A m \in ToSet(ifc.members) : m \in Configured(c) /\ Precedes(m, n)
       /\ Kind[n] = "wlan" => ifc.wireless.device \in {None} \cup Hardware
  /\ \A b, m \in Configured(c) :
       b # m => ToSet(c.interfaces[b].members) \cap ToSet(c.interfaces[m].members) = {}

LEMMA EffectiveIsSettled ==
  ASSUME NEW d \in Documents, Feasible(d)
  PROVE  Settled(Effective(d))
<1> DEFINE e == Effective(d)
           ifc(n) == e.interfaces[n]
           old(n) == d.interfaces[n]
<1>1. IsDocument(d) /\ Configured(d) \subseteq Names /\ Validate(d) /\ Orderly(d)
  BY ApplierAssumption
<1>2. IsDocument(e) /\ Configured(e) = Remaining(d) /\ Remaining(d) \subseteq Configured(d)
  BY <1>1, EffectiveParts DEF Remaining
<1>3. ASSUME NEW n \in Remaining(d)
      PROVE  /\ n \in Configured(d) /\ ifc(n).vlan = old(n).vlan
             /\ ToSet(ifc(n).members) = ToSet(old(n).members) \cap Remaining(d)
             /\ ifc(n).wireless \in {old(n).wireless, NoWireless}
  <2>1. /\ IsInterface(old(n)) /\ n \in Configured(d) /\ ifc(n).vlan = old(n).vlan
        /\ ifc(n).members = Only(old(n).members, Remaining(d))
        /\ ifc(n).wireless \in {old(n).wireless, NoWireless}
    BY <1>1, EffectiveInterface
  <2> QED
    BY <2>1, ListOnly DEF IsInterface
<1>4. \A n \in Configured(d) : ValidInterface(d, n)
  BY <1>1 DEF Validate
<1>5. \A n \in Configured(d) : ~(Kind[n] = "wlan" /\ Kind[n] \in {"vlan", "physical"})
  OBVIOUS
<1> HIDE DEF e
<1>6. ASSUME NEW n \in Remaining(d), ifc(n).vlan # NoVLAN
      PROVE  ifc(n).vlan.parent \in Remaining(d) /\ Precedes(ifc(n).vlan.parent, n)
  <2> DEFINE parent == old(n).vlan.parent
  <2>1. Kind[n] = "vlan" /\ parent \in Configured(d) /\ Precedes(parent, n)
    BY <1>1, <1>3, <1>4, <1>6 DEF ValidInterface, Orderly
  <2>2. Kind[parent] # "wlan"
    BY <1>1, <2>1 DEF Precedes, KindOrder
  <2>3. parent \in Remaining(d)
    BY <2>1, <2>2 DEF Remaining
  <2> QED
    BY <1>3, <2>1, <2>3
<1>7. ASSUME NEW n \in Remaining(d), Kind[n] # "bridge"
      PROVE  ToSet(ifc(n).members) = {}
  BY <1>3, <1>4, <1>7, NoList DEF ValidInterface
<1>8. ASSUME NEW n \in Remaining(d), NEW m \in ToSet(ifc(n).members)
      PROVE  m \in Remaining(d) /\ Precedes(m, n)
  BY <1>1, <1>3, <1>8 DEF Orderly
<1>9. ASSUME NEW n \in Remaining(d) PROVE ifc(n).wireless.device \in {None} \cup Hardware
  BY <1>3, <1>9 DEF Feasible, NoWireless, Hardware
<1>10. ASSUME NEW b \in Remaining(d), NEW m \in Remaining(d), b # m
       PROVE  ToSet(ifc(b).members) \cap ToSet(ifc(m).members) = {}
  <2> DEFINE B == ToSet(old(b).members)
             M == ToSet(old(m).members)
  <2>1. b \in Configured(d) /\ m \in Configured(d)
    BY <1>2
  <2>2. B \cap M = {}
    BY <1>10, <2>1 DEF Feasible
  <2>3. ToSet(ifc(b).members) = B \cap Remaining(d) /\ ToSet(ifc(m).members) = M \cap Remaining(d)
    BY <1>3
  <2> HIDE DEF B, M
  <2> QED
    BY <2>2, <2>3
<1>11. Settled(e)
  BY <1>1, <1>2, <1>6, <1>7, <1>8, <1>9, <1>10 DEF Settled
<1> QED
  BY <1>11 DEF e

LEMMA BlankIsSettled == Settled(Blank) /\ Configured(Blank) = {}
<1>1. Blank.interfaces = <<>> /\ Configured(Blank) = {}
  BY DEF Blank, NewDocument, Empty, Configured
<1> QED
  BY <1>1, BlankIsGrounded DEF Grounded, Settled

(* The bridge of an interface.                                             *)
LEMMA BridgeIsFound ==
  ASSUME NEW c, Settled(c), NEW b \in Configured(c), NEW m \in ToSet(c.interfaces[b].members)
  PROVE  BridgeOf(c, m) = b
<1> DEFINE bridges == {x \in Configured(c) : Contains(c.interfaces[x].members, m)}
<1>1. \A x \in Configured(c) : Contains(c.interfaces[x].members, m)
                                 <=> m \in ToSet(c.interfaces[x].members)
  <2> SUFFICES ASSUME NEW x \in Configured(c)
               PROVE  LET s == c.interfaces[x].members IN Contains(s, m) <=> m \in ToSet(s)
    OBVIOUS
  <2>1. IsList(c.interfaces[x].members)
    BY DEF Settled, IsDocument, IsInterface, Configured
  <2> QED
    BY <2>1, ListFacts DEF Contains, ToSet
<1>2. bridges = {b}
  BY <1>1 DEF Settled
<1>3. BridgeOf(c, m) = IF bridges = {} THEN None ELSE CHOOSE x \in bridges : TRUE
  BY DEF BridgeOf
<1> HIDE DEF bridges
<1> QED
  BY <1>2, <1>3

LEMMA BridgeIsOne ==
  ASSUME NEW c, Settled(c), NEW m
  PROVE  BridgeOf(c, m) \in Configured(c) \cup {None}
BY DEF BridgeOf

(* An interface that goes to a bridge before its own bridge moves forward. *)
LEMMA StaysBehind ==
  ASSUME NEW o, Settled(o), NEW e, Settled(e), ~Forward(o, e),
         NEW b \in Configured(o), NEW n \in Configured(e), NEW m \in Names,
         m \in ToSet(o.interfaces[b].members), m \in ToSet(e.interfaces[n].members)
  PROVE  ~Precedes(n, b)
<1>1. BridgeOf(o, m) = b /\ BridgeOf(e, m) = n
  BY BridgeIsFound
<1>2. b # None /\ n # None
  BY DocumentAssumption DEF Settled
<1> QED
  BY <1>1, <1>2 DEF Forward

LEMMA OutlineOfPairs ==
  \A c : \A p \in Pairs(c) : /\ p = <<p[1], p[2]>> /\ p[1] \in Configured(c) /\ p[2] \in Names
                             /\ p[2] \in ToSet(c.interfaces[p[1]].members)
BY DEF Pairs

(* Only a bridge has members.                                              *)
LEMMA BridgesHaveMembers ==
  ASSUME NEW c, Settled(c), NEW p \in Pairs(c)
  PROVE  Kind[p[1]] = "bridge" /\ IsCloned(p[1])
BY OutlineOfPairs DEF Settled, IsCloned

(* An interface is configured after those before it.                       *)
LEMMA ConfigureInterfaceLeads ==
  ASSUME NEW o, Settled(o), NEW e, Settled(e), NEW n \in Configured(e), NEW done,
         done = {m \in Configured(e) : Precedes(m, n)}
  PROVE  Leads(Course(o, e), During(o, e, done), ConfigureInterface(n, o, e),
               During(o, e, done \cup {n}))
<1> DEFINE ni == e.interfaces[n]
           oi == InterfaceOf(o, n)
           again == n \in Configured(o) /\ Recreated(n, oi, ni)
           fresh == again \/ n \notin Configured(o)
           from == IF fresh THEN NewInterface ELSE oi
           newBridge == BridgeOf(e, n)
           oldBridge == BridgeOf(o, n)
           remove == When(again, RemoveInterface(n, oi))
           configure == Configure(n, from, ni, fresh, newBridge, oldBridge)
           w == Course(o, e)
           x == During(o, e, done)
           y == During(o, e, done \cup {n})
<1>1. ConfigureInterface(n, o, e) = remove \o configure
  BY DEF ConfigureInterface
<1>2. /\ IsInterface(oi) /\ IsInterface(ni) /\ IsInterface(from)
      /\ n \in Names /\ Configured(o) \subseteq Names /\ Configured(e) \subseteq Names
  BY NewInterfaceIsOne DEF InterfaceOf, Settled, IsDocument, Configured
<1>3. n \notin done /\ ~Precedes(n, n)
  BY <1>2, PrecedesOrders DEF Orders
<1>4. /\ w.mid.exists = Standing(o, e) /\ w.mid.joined = Pairs(o) \cup Pairs(e)
      /\ w.strict = ~Forward(o, e)
  BY DEF Course, Mid
<1>5. /\ x.exists = Standing(o, e) \cup done /\ y.exists = x.exists \cup {n}
      /\ x.joined = Pairs(e) \cup {p \in Pairs(o) : p[1] \in Configured(e) \ done}
      /\ y.joined = Pairs(e) \cup {p \in Pairs(o) : p[1] \in Configured(e) \ (done \cup {n})}
  BY DEF During
<1>6. \A p \in x.joined : p = <<p[1], p[2]>>
  BY <1>5, OutlineOfPairs
<1> HIDE DEF w, x, y
<1>7. Leads(w, x, remove, x)
  <2>1. CASE again
    <3>1. n \notin Standing(o, e)
      BY <2>1 DEF Standing, InterfaceOf, Hardware, IsCloned, Recreated
    <3>2. n \notin x.exists /\ n \notin w.mid.exists
      BY <1>3, <1>4, <1>5, <3>1
    <3>3. Leads(w, x, RemoveInterface(n, oi), x)
      BY <1>2, <3>2, RemoveLeads
    <3> QED
      BY <2>1, <3>3 DEF When
  <2>2. CASE ~again
    BY <2>2, NoneLeads, WeakerOrders DEF When
  <2> QED
    BY <2>1, <2>2
<1>8. n \in x.exists \/ (fresh /\ IsCloned(n))
  BY <1>2, <1>5 DEF Standing, Hardware, InterfaceOf
<1>9. Kind[n] = "wlan" => ni.wireless.device \in x.exists \cup {None}
  BY <1>5 DEF Settled, Standing
<1>10. ni.vlan # NoVLAN => ni.vlan.parent \in x.exists
  BY <1>5 DEF Settled
<1>11. ASSUME NEW p \in x.joined, p \notin y.joined
       PROVE  Kind[n] = "bridge" /\ p[1] = n /\ p[2] \in ToSet(from.members) \ ToSet(ni.members)
  <2>1. p \in Pairs(o) /\ p \notin Pairs(e) /\ p[1] = n
    BY <1>5, <1>11
  <2>2. n \in Configured(o) /\ p[2] \in Names /\ p = <<n, p[2]>> /\ Kind[n] = "bridge"
        /\ p[2] \in ToSet(o.interfaces[n].members)
    BY <2>1, OutlineOfPairs, BridgesHaveMembers
  <2>3. ~fresh /\ from = o.interfaces[n]
    BY <2>2 DEF Recreated, InterfaceOf
  <2>4. p[2] \notin ToSet(ni.members)
    BY <2>1, <2>2 DEF Pairs
  <2> QED
    BY <2>1, <2>2, <2>3, <2>4
<1>12. ASSUME NEW m \in ToSet(ni.members) \ ToSet(from.members)
       PROVE  /\ m \in x.exists /\ <<n, m>> \in y.joined /\ <<n, m>> \in w.mid.joined
              /\ w.strict => \A b \in Names \ {n} : <<b, m>> \notin y.joined
  <2>1. m \in Configured(e) /\ Precedes(m, n) /\ m \in Names
    BY <1>2, <1>12 DEF Settled
  <2>2. <<n, m>> \in Pairs(e)
    BY <1>12, <2>1 DEF Pairs
  <2>3. ASSUME w.strict, NEW b \in Names \ {n}, <<b, m>> \in y.joined PROVE FALSE
    <3>1. CASE <<b, m>> \in Pairs(e)
      <4>1. b \in Configured(e) /\ m \in ToSet(e.interfaces[b].members)
        BY <3>1 DEF Pairs
      <4> QED
        BY <1>12, <2>3, <4>1 DEF Settled
    <3>2. CASE <<b, m>> \in Pairs(o) /\ b \in Configured(e) \ (done \cup {n})
      <4>1. b \in Configured(o) /\ m \in ToSet(o.interfaces[b].members)
        BY <3>2 DEF Pairs
      <4>2. ~Precedes(b, n) /\ b # n
        BY <3>2
      <4>3. Precedes(n, b)
        BY <1>2, <2>3, <4>2, PrecedesOrders DEF Orders
      <4> QED
        BY <1>4, <1>12, <2>1, <2>3, <4>1, <4>3, StaysBehind
    <3> QED
      BY <1>5, <2>3, <3>1, <3>2
  <2> QED
    BY <1>4, <1>5, <2>1, <2>2, <2>3
<1> HIDE DEF from, fresh, again, remove, ni, newBridge, oldBridge
<1>13. Leads(w, x, configure, y)
  BY <1>2, <1>5, <1>6, <1>8, <1>9, <1>10, <1>11, <1>12, ConfigureLeads
<1> HIDE DEF configure
<1>14. Leads(w, x, remove \o configure, y)
  BY <1>7, <1>13, JoinLeads
<1> QED
  BY <1>1, <1>14 DEF w, x, y

LEMMA ReverseKeeps ==
  ASSUME NEW s, IsList(s)
  PROVE  ToSet(Reverse(s)) = ToSet(s)
<1> DEFINE k == Len(s)
           r == Reverse(s)
<1>1. /\ k \in Nat /\ DOMAIN r = 1 .. k /\ ToSet(s) = {s[i] : i \in 1 .. k}
      /\ \A i \in 1 .. k : r[i] = s[k - i + 1]
  BY ListFacts DEF Reverse
<1> HIDE DEF r, k
<1>2. \A i \in 1 .. k : k - i + 1 \in 1 .. k /\ k - (k - i + 1) + 1 = i
  BY <1>1
<1>3. \A i \in 1 .. k : \E j \in 1 .. k : r[j] = s[i]
  BY <1>1, <1>2
<1>4. ToSet(r) = {r[i] : i \in 1 .. k}
  BY <1>1 DEF ToSet
<1>5. ToSet(r) \subseteq ToSet(s) /\ ToSet(s) \subseteq ToSet(r)
  BY <1>1, <1>2, <1>3, <1>4
<1> QED
  BY <1>5 DEF r

(* First go the interfaces that the new document does not have.            *)
LEMMA RemovalsLead ==
  ASSUME NEW o, Settled(o), NEW e, Settled(e), NEW s, IsList(s),
         ToSet(s) = Configured(o) \ Configured(e),
         NEW f, f = [i \in DOMAIN s |-> RemoveInterface(s[i], o.interfaces[s[i]])]
  PROVE  Leads(Course(o, e), Mid(o, e), FlattenSeq(f), During(o, e, {}))
<1> DEFINE w == Course(o, e)
           k == Len(s)
           left(i) == {s[j] : j \in 1 .. i}
           g == [i \in 0 .. k |-> [exists |-> Standing(o, e),
                                   joined |-> Pairs(e) \cup {p \in Pairs(o) : p[1] \notin left(i)}]]
<1>1. k \in Nat /\ DOMAIN s = 1 .. k /\ ToSet(s) = {s[i] : i \in 1 .. k}
  BY ListFacts
<1>2. \A i \in 0 .. k : /\ g[i].exists = Standing(o, e)
                        /\ g[i].joined = Pairs(e) \cup {p \in Pairs(o) : p[1] \notin left(i)}
  OBVIOUS
<1>3. w.mid.exists = Standing(o, e)
  BY DEF Course, Mid
<1> HIDE DEF g, k, w
<1>4. ASSUME NEW i \in 1 .. k PROVE Leads(w, g[i - 1], f[i], g[i])
  <2> DEFINE n == s[i]
             oi == o.interfaces[n]
  <2>1. n \in Configured(o) /\ n \notin Configured(e) /\ n \in Names /\ IsInterface(oi)
    BY <1>1 DEF Settled, IsDocument, Configured
  <2>2. i - 1 \in 0 .. k /\ i \in 0 .. k /\ \A j \in 1 .. i : j = i \/ j \in 1 .. i - 1
    BY <1>1
  <2>3. IsCloned(n) => n \notin Standing(o, e)
    BY <2>1 DEF Standing, Hardware
  <2>4. ASSUME NEW p \in g[i - 1].joined PROVE p \in g[i].joined \/ (IsCloned(n) /\ p[1] = n)
    <3>1. p \in Pairs(e) \/ (p \in Pairs(o) /\ p[1] \notin left(i - 1))
      BY <1>2, <2>2
    <3>2. CASE p \in Pairs(o) /\ p[1] = n
      BY <3>2, BridgesHaveMembers
    <3>3. CASE p \in Pairs(o) /\ p[1] # n /\ p[1] \notin left(i - 1)
      <4>1. p[1] \notin left(i)
        BY <2>2, <3>3
      <4> QED
        BY <1>2, <2>2, <3>3, <4>1
    <3>4. CASE p \in Pairs(e)
      BY <1>2, <2>2, <3>4
    <3> QED
      BY <3>1, <3>2, <3>3, <3>4
  <2>5. g[i - 1].exists = Standing(o, e) /\ g[i].exists = Standing(o, e)
    BY <1>2, <2>2
  <2>6. f[i] = RemoveInterface(n, oi)
    BY <1>1
  <2> HIDE DEF n, oi
  <2>7. Leads(w, g[i - 1], RemoveInterface(n, oi), g[i])
    BY <1>3, <2>1, <2>3, <2>4, <2>5, RemoveLeads
  <2> QED
    BY <2>6, <2>7
<1>5. f = [i \in 1 .. k |-> f[i]]
  BY <1>1
<1>6. Leads(w, g[0], FlattenSeq(f), g[k])
  BY <1>1, <1>4, <1>5, AllLead
<1>7. 0 \in 0 .. k /\ k \in 0 .. k
  BY <1>1
<1>8. Weaker(Mid(o, e), g[0])
  <2>1. left(0) = {}
    OBVIOUS
  <2> QED
    BY <1>2, <1>7, <2>1 DEF Weaker, Mid
<1>9. Weaker(g[k], During(o, e, {}))
  <2>1. \A p \in Pairs(o) : p[1] \in Configured(o)
    BY OutlineOfPairs
  <2>2. \A p \in Pairs(o) : p[1] \notin left(k) => p[1] \in Configured(e)
    BY <1>1, <2>1
  <2> QED
    BY <1>2, <1>7, <2>2 DEF Weaker, During
<1>10. Leads(w, Mid(o, e), FlattenSeq(f), During(o, e, {}))
  BY <1>6, <1>8, <1>9, WeakerLeads
<1> QED
  BY <1>10 DEF w

(* Then those that it has are configured, in their order.                  *)
LEMMA ConfigurationsLead ==
  ASSUME NEW o, Settled(o), NEW e, Settled(e), NEW s, InOrder(s, Configured(e)),
         NEW f, f = [i \in DOMAIN s |-> ConfigureInterface(s[i], o, e)]
  PROVE  Leads(Course(o, e), During(o, e, {}), FlattenSeq(f), Base(e))
<1> DEFINE w == Course(o, e)
           k == Len(s)
           done(i) == {s[j] : j \in 1 .. i}
           g == [i \in 0 .. k |-> During(o, e, done(i))]
<1>1. /\ k \in Nat /\ DOMAIN s = 1 .. k /\ Configured(e) = {s[i] : i \in 1 .. k}
      /\ \A i \in 1 .. k : done(i - 1) = {m \in Configured(e) : Precedes(m, s[i])}
  BY ListFacts DEF InOrder
<1>2. \A i \in 0 .. k : g[i] = During(o, e, done(i))
  OBVIOUS
<1> HIDE DEF g, k, w
<1>3. ASSUME NEW i \in 1 .. k PROVE Leads(w, g[i - 1], f[i], g[i])
  <2> DEFINE n == s[i]
  <2>1. n \in Configured(e) /\ done(i - 1) = {m \in Configured(e) : Precedes(m, n)}
    BY <1>1
  <2>2. i - 1 \in 0 .. k /\ i \in 0 .. k
    BY <1>1
  <2>3. done(i) = done(i - 1) \cup {n}
    <3>1. \A j : j \in 1 .. i <=> (j = i \/ j \in 1 .. i - 1)
      BY <1>1
    <3> QED
      BY <3>1
  <2>4. g[i - 1] = During(o, e, done(i - 1)) /\ g[i] = During(o, e, done(i - 1) \cup {n})
    BY <1>2, <2>2, <2>3
  <2>5. f[i] = ConfigureInterface(n, o, e)
    BY <1>1
  <2> HIDE DEF n, done
  <2>6. Leads(w, During(o, e, done(i - 1)), ConfigureInterface(n, o, e),
              During(o, e, done(i - 1) \cup {n}))
    BY <2>1, ConfigureInterfaceLeads DEF w
  <2> QED
    BY <2>4, <2>5, <2>6
<1>4. f = [i \in 1 .. k |-> f[i]]
  BY <1>1
<1>5. Leads(w, g[0], FlattenSeq(f), g[k])
  BY <1>1, <1>3, <1>4, AllLead
<1>6. 0 \in 0 .. k /\ k \in 0 .. k
  BY <1>1
<1>7. g[0] = During(o, e, {}) /\ g[k] = During(o, e, Configured(e))
  <2>1. done(0) = {} /\ done(k) = Configured(e)
    BY <1>1
  <2> QED
    BY <1>2, <1>6, <2>1
<1>8. Weaker(During(o, e, Configured(e)), Base(e))
  BY DEF Weaker, During, Base, Standing
<1>9. Leads(w, During(o, e, {}), FlattenSeq(f), Base(e))
  BY <1>5, <1>7, <1>8, WeakerLeads
<1> QED
  BY <1>9 DEF w

LEMMA InterfacesLead ==
  ASSUME NEW o, Settled(o), NEW e, Settled(e)
  PROVE  Leads(Course(o, e), Mid(o, e), Interfaces(o, e), Base(e))
<1> DEFINE removed == Only(Reverse(InterfaceNames(o)), Configured(o) \ Configured(e))
           order == ConfigureOrder(e)
           f == [i \in DOMAIN removed |-> RemoveInterface(removed[i], o.interfaces[removed[i]])]
           g == [i \in DOMAIN order |-> ConfigureInterface(order[i], o, e)]
<1>1. Interfaces(o, e) = FlattenSeq(f) \o FlattenSeq(g)
  BY DEF Interfaces, Each
<1>2. IsList(removed) /\ ToSet(removed) = Configured(o) \ Configured(e)
  <2>1. IsList(InterfaceNames(o)) /\ ToSet(InterfaceNames(o)) = Configured(o)
    BY NamesAreInOrder DEF Settled, InOrder
  <2>2. IsList(Reverse(InterfaceNames(o))) /\ ToSet(Reverse(InterfaceNames(o))) = Configured(o)
    BY <2>1, ReverseIsList, ReverseKeeps
  <2>3. /\ IsList(removed)
        /\ ToSet(removed) = ToSet(Reverse(InterfaceNames(o))) \cap (Configured(o) \ Configured(e))
    BY <2>2, ListOnly
  <2> QED
    BY <2>2, <2>3
<1>3. InOrder(order, Configured(e))
  BY NamesAreInOrder DEF Settled, ConfigureOrder
<1> HIDE DEF removed, order
<1>4. Leads(Course(o, e), Mid(o, e), FlattenSeq(f), During(o, e, {}))
  BY <1>2, RemovalsLead
<1>5. Leads(Course(o, e), During(o, e, {}), FlattenSeq(g), Base(e))
  BY <1>3, ConfigurationsLead
<1> HIDE DEF f, g
<1> QED
  BY <1>1, <1>4, <1>5, JoinLeads

LEMMA RoutesLead ==
  ASSUME NEW o, IsDocument(o), NEW e, IsDocument(e), NEW w, NEW x
  PROVE  Leads(w, x, Routes(o, e), x)
<1> DEFINE gone == Minus(o.routes, e.routes)
           come == Minus(e.routes, o.routes)
           f == [i \in DOMAIN gone |-> Cmd("route delete", gone[i].prefix, None, "missing")]
           g == [i \in DOMAIN come |-> Cmd("route add", come[i].prefix, come[i].nexthop, "exists")]
<1>1. Routes(o, e) = FlattenSeq(f) \o FlattenSeq(g)
  BY DEF Routes, Each
<1>2. IsList(gone) /\ IsList(come)
  BY MinusIsList DEF IsDocument
<1> HIDE DEF gone, come
<1>3. {"route delete", "route add"} \subseteq RouteOps
  BY DEF RouteOps
<1>4. \A i \in DOMAIN gone : Leads(w, x, f[i], x)
  BY <1>3, OtherOps, OtherLeads
<1>5. \A i \in DOMAIN come : Leads(w, x, g[i], x)
  BY <1>3, OtherOps, OtherLeads
<1>6. f = [i \in DOMAIN gone |-> f[i]] /\ g = [i \in DOMAIN come |-> g[i]]
  OBVIOUS
<1> HIDE DEF f, g
<1>7. Leads(w, x, FlattenSeq(f), x) /\ Leads(w, x, FlattenSeq(g), x)
  BY <1>2, <1>4, <1>5, <1>6, EachLeads
<1> QED
  BY <1>1, <1>7, JoinLeads

(* The commands of a change.                                               *)
LEMMA ApplyLeads ==
  ASSUME NEW o, Settled(o), NEW e, Settled(e), NEW boot
  PROVE  Leads(Course(o, e), Mid(o, e), Apply(o, e, boot), Base(e))
<1> DEFINE w == Course(o, e)
           P(s) == Leads(w, Mid(o, e), s, Mid(o, e))
           Q(s) == Leads(w, Base(e), s, Base(e))
<1>1. SystemOps \cup ServerOps \cup {"npf"} \subseteq Ops \ (NifOps \cup {"destroy"} \cup RouteOps)
  BY OtherOps
<1>2. {"route delete", "route add"} \subseteq RouteOps
  BY DEF RouteOps
<1>3. \A op \in SystemOps \cup ServerOps \cup {"npf"} : \A n, arg, tol :
        P(Cmd(op, n, arg, tol)) /\ Q(Cmd(op, n, arg, tol))
  BY <1>1, <1>2, OtherLeads
<1>4. \A condition, s : (P(s) => P(When(condition, s))) /\ (Q(s) => Q(When(condition, s)))
  BY WhenLeads, WeakerOrders
<1>5. \A s, t : (P(s) /\ P(t) => P(s \o t)) /\ (Q(s) /\ Q(t) => Q(s \o t))
  BY JoinLeads
<1>6. Q(Routes(o, e))
  BY RoutesLead DEF Settled
<1>7. {"hostname", "resolv", "forward", "forward6"} \subseteq SystemOps
      /\ {"start dhcpd", "stop dhcpd"} \subseteq ServerOps
  BY DEF SystemOps, ServerOps
<1> HIDE DEF P, Q
<1>8. P(System(o, e, boot))
  BY <1>3, <1>4, <1>5, <1>7 DEF System
<1>9. Q(Firewall(o, e, boot))
  BY <1>3, <1>4 DEF Firewall
<1>10. Q(DhcpServer(o, e, boot))
  BY <1>3, <1>4, <1>5, <1>7 DEF DhcpServer
<1>11. Leads(w, Mid(o, e), Interfaces(o, e), Base(e))
  BY InterfacesLead
<1> HIDE DEF w
<1> DEFINE system == System(o, e, boot)
           interfaces == Interfaces(o, e)
           routes == Routes(o, e)
           firewall == Firewall(o, e, boot)
           server == DhcpServer(o, e, boot)
<1>12. Apply(o, e, boot) = system \o interfaces \o routes \o firewall \o server
  BY DEF Apply
<1> HIDE DEF system, interfaces, routes, firewall, server
<1>13. /\ Leads(w, Mid(o, e), system, Mid(o, e)) /\ Leads(w, Mid(o, e), interfaces, Base(e))
       /\ Leads(w, Base(e), routes, Base(e)) /\ Leads(w, Base(e), firewall, Base(e))
       /\ Leads(w, Base(e), server, Base(e))
  BY <1>6, <1>8, <1>9, <1>10, <1>11 DEF P, Q, system, interfaces, routes, firewall, server
<1>14. Leads(w, Mid(o, e), system \o interfaces \o routes \o firewall \o server, Base(e))
  BY <1>13, JoinLeads
<1> QED
  BY <1>12, <1>14 DEF w

-----------------------------------------------------------------------------
(* The invariant of what is left to do                                     *)

Outset == [exists |-> Hardware, joined |-> {}]

(* With the system k, the commands s to run and the errors r so far, there *)
(* is a course to y; the system is on it unless something went wrong.      *)
Underway(w, y, k, s, r) ==
  /\ Within(k, w.mid)
  /\ \E x : Leads(w, x, s, y) /\ (r = {} => Within(k, x))
  /\ r # {} => "failed" \in r \/ ~w.strict

(* Unless a boot or a rollback has failed, or another document was booted  *)
(* on top of one in force, the system is in the way that the commands      *)
(* which are still to be run expect.                                       *)
CourseInv ==
  LET r == Effective(running)
      n == Effective(next)
      UnderwayTo(o, e) == Underway(Course(o, e), Base(e), kernel, todo, errs)
  IN
  ~lost /\ ~overlaid =>
    /\ phase \in {"off", "boot", "idle", "apply", "rollback"}
    /\ phase \in {"off", "idle"} => todo = <<>> /\ errs = {}
    /\ phase = "off" => Within(kernel, Outset)
    /\ phase = "boot" => UnderwayTo(Blank, n)
    /\ phase = "idle" => Within(kernel, Base(r))
    /\ phase = "apply" => UnderwayTo(r, n)
    /\ phase = "rollback" => UnderwayTo(n, r)

LEMMA GoesOn ==
  ASSUME NEW k, KernelOK(k), NEW w, NEW y, NEW s, s # <<>>, NEW r, Underway(w, y, k, s, r)
  PROVE  LET c == Head(s)
             refused == IF Tolerated(k, c) THEN {} ELSE {"refused"}
         IN  /\ Underway(w, y, Run(k, c), Tail(s), r \cup refused)
             /\ \A l \in FailedEffects(k, c) : Underway(w, y, l, Tail(s), r \cup {"failed"})
<1> DEFINE c == Head(s)
           refused == IF Tolerated(k, c) THEN {} ELSE {"refused"}
<1>1. PICK x : Leads(w, x, s, y) /\ (r = {} => Within(k, x))
  BY DEF Underway
<1>2. PICK z, t : Weaker(x, z) /\ Step(w, z, c, t) /\ Leads(w, t, Tail(s), y)
  BY <1>1, FirstLeads
<1> HIDE DEF c
<1>3. Proper(c) /\ Mild(c, w.mid) /\ Within(k, w.mid)
  BY <1>2 DEF Step, Underway
<1>4. Within(Run(k, c), w.mid) /\ \A l \in FailedEffects(k, c) : Within(l, w.mid)
  BY <1>3, MildStaysWithin
<1>5. CASE r = {}
  <2>1. Within(k, z)
    BY <1>1, <1>2, <1>5, WeakerOrders
  <2>2. /\ Tolerated(k, c) \/ ~w.strict
        /\ Tolerated(k, c) => Within(Run(k, c), t)
    BY <1>2, <2>1, StepIsTaken
  <2>3. r \cup refused # {} => ~w.strict
    BY <1>5, <2>2
  <2>4. r \cup refused = {} => Within(Run(k, c), t)
    BY <1>5, <2>2
  <2>5. Underway(w, y, Run(k, c), Tail(s), r \cup refused)
    BY <1>2, <1>4, <2>3, <2>4 DEF Underway
  <2>6. \A l \in FailedEffects(k, c) : Underway(w, y, l, Tail(s), r \cup {"failed"})
    BY <1>2, <1>4 DEF Underway
  <2> QED
    BY <2>5, <2>6 DEF c
<1>6. CASE r # {}
  <2>1. "failed" \in r \/ ~w.strict
    BY <1>6 DEF Underway
  <2>2. r \cup refused # {} /\ ("failed" \in r \cup refused \/ ~w.strict)
    BY <1>6, <2>1
  <2>3. Underway(w, y, Run(k, c), Tail(s), r \cup refused)
    BY <1>2, <1>4, <2>2 DEF Underway
  <2>4. \A l \in FailedEffects(k, c) : Underway(w, y, l, Tail(s), r \cup {"failed"})
    BY <1>2, <1>4 DEF Underway
  <2> QED
    BY <2>3, <2>4 DEF c
<1> QED
  BY <1>5, <1>6

LEMMA GetsUnderway ==
  ASSUME NEW o, Settled(o), NEW e, Settled(e), NEW boot, NEW k, Within(k, Mid(o, e))
  PROVE  Underway(Course(o, e), Base(e), k, Apply(o, e, boot), {})
<1>1. Leads(Course(o, e), Mid(o, e), Apply(o, e, boot), Base(e))
  BY ApplyLeads
<1>2. Course(o, e).mid = Mid(o, e)
  BY DEF Course
<1> QED
  BY <1>1, <1>2 DEF Underway

(* It has arrived when nothing is left and nothing went wrong.             *)
LEMMA Arrives ==
  ASSUME NEW w, NEW y, NEW k, Underway(w, y, k, <<>>, {})
  PROVE  Within(k, y)
BY NoneLeft, WeakerOrders DEF Underway

(* Where a change may begin.                                               *)
LEMMA WaysOut ==
  /\ \A o, e : Weaker(Base(o), Mid(o, e)) /\ Mid(o, e) = Mid(e, o)
  /\ \A e : Weaker(Outset, Mid(Blank, e)) /\ Weaker(Base(e), Mid(Blank, e)) /\ ~Forward(Blank, e)
<1>1. ASSUME NEW o, NEW e PROVE Weaker(Base(o), Mid(o, e)) /\ Mid(o, e) = Mid(e, o)
  <2>1. Standing(o, e) = Standing(e, o)
    BY DEF Standing, Recreated
  <2>2. Weaker(Base(o), Mid(o, e))
    BY DEF Weaker, Base, Mid, Standing
  <2> QED
    BY <2>1, <2>2 DEF Mid
<1>2. ASSUME NEW e
      PROVE  Weaker(Outset, Mid(Blank, e)) /\ Weaker(Base(e), Mid(Blank, e)) /\ ~Forward(Blank, e)
  <2>1. Standing(Blank, e) = Hardware
    BY BlankIsSettled DEF Standing
  <2>2. \A n : BridgeOf(Blank, n) = None
    BY BlankIsSettled, BridgeIsOne
  <2>3. ~Forward(Blank, e)
    BY <2>2 DEF Forward
  <2>4. Weaker(Outset, Mid(Blank, e)) /\ Weaker(Base(e), Mid(Blank, e))
    BY <2>1 DEF Weaker, Base, Mid, Outset
  <2> QED
    BY <2>3, <2>4
<1> QED
  BY <1>1, <1>2

LEMMA PoweredOn ==
  ASSUME NEW k, k.nif = PowerOn.nif
  PROVE  Within(k, Outset)
<1> DEFINE nif == [n \in Names |-> [Unconfigured(n) EXCEPT !.exists = ~IsCloned(n)]]
<1>1. PowerOn.nif = nif
  BY DEF PowerOn
<1>2. \A n \in Names : nif[n].exists = ~IsCloned(n) /\ nif[n].members = {}
  BY DEF Unconfigured
<1> HIDE DEF nif
<1> QED
  BY <1>1, <1>2 DEF Within, Outset, Hardware, Exists

LEMMA CourseStarts == Init => CourseInv
BY PoweredOn DEF Init, CourseInv

LEMMA CourseStep ==
  ASSUME \A d \in Documents : Feasible(d)
  PROVE  ApplierInv /\ CourseInv /\ [Next]_vars => CourseInv'
<1> SUFFICES ASSUME ApplierInv, CourseInv, [Next]_vars PROVE CourseInv'
  OBVIOUS
<1> DEFINE r == Effective(running)
           n == Effective(next)
           UnderwayTo(o, e) == Underway(Course(o, e), Base(e), kernel, todo, errs)
<1>1. KernelOK(kernel) /\ Settled(r) /\ Settled(n) /\ Settled(Blank)
  BY EffectiveIsSettled, BlankIsSettled DEF ApplierInv
<1>2. ~lost /\ ~overlaid =>
        /\ phase \in {"off", "boot", "idle", "apply", "rollback"}
        /\ phase \in {"off", "idle"} => todo = <<>> /\ errs = {}
        /\ phase = "off" => Within(kernel, Outset)
        /\ phase = "boot" => UnderwayTo(Blank, n)
        /\ phase = "idle" => Within(kernel, Base(r))
        /\ phase = "apply" => UnderwayTo(r, n)
        /\ phase = "rollback" => UnderwayTo(n, r)
  BY DEF CourseInv
<1>3. ASSUME NEW d \in Startups, Boot(d) PROVE CourseInv'
  <2> DEFINE e == Effective(d)
             asBefore == ~lost /\ ~(overlaid \/ (phase = "idle" /\ d # running))
  <2>1. Settled(e)
    BY EffectiveIsSettled, ApplierAssumption
  <2>2. asBefore => Within(kernel, Mid(Blank, e))
    BY <1>2, <1>3, WaysOut, WeakerOrders DEF Boot
  <2>3. asBefore => Underway(Course(Blank, e), Base(e), kernel, BootCommands(d), {})
    BY <1>1, <2>1, <2>2, GetsUnderway DEF BootCommands
  <2> QED
    BY <1>3, <2>3 DEF Boot, CourseInv
<1>4. ASSUME NEW d \in Documents, Commit(d) PROVE CourseInv'
  <2> DEFINE e == Effective(d)
  <2>1. Settled(e)
    BY EffectiveIsSettled
  <2>2. ~lost /\ ~overlaid => Within(kernel, Mid(r, e))
    BY <1>2, <1>4, WaysOut, WeakerOrders DEF Commit
  <2>3. ~lost /\ ~overlaid => Underway(Course(r, e), Base(e), kernel, Commands(running, d), {})
    BY <1>1, <2>1, <2>2, GetsUnderway DEF Commands
  <2> QED
    BY <1>4, <2>3 DEF Commit, CourseInv, ghosts
<1>5. CASE RunCommand
  <2> DEFINE after == errs \cup IF Tolerated(kernel, Head(todo)) THEN {} ELSE {"refused"}
  <2>1. \A w, y : Underway(w, y, kernel, todo, errs)
                    => Underway(w, y, Run(kernel, Head(todo)), Tail(todo), after)
    BY <1>1, <1>5, GoesOn DEF RunCommand
  <2>2. running' = running /\ next' = next /\ phase' = phase /\ ghosts' = ghosts /\ todo # <<>>
    BY <1>5 DEF RunCommand
  <2>3. \A w, y : Underway(w, y, kernel, todo, errs) => Underway(w, y, kernel', todo', errs')
    BY <1>5, <2>1 DEF RunCommand
  <2> QED
    BY <1>2, <2>2, <2>3 DEF CourseInv, ghosts
<1>6. CASE CommandFails
  <2>1. \A w, y : Underway(w, y, kernel, todo, errs)
                    => Underway(w, y, kernel', Tail(todo), errs \cup {"failed"})
    BY <1>1, <1>6, GoesOn DEF CommandFails
  <2>2. running' = running /\ next' = next /\ phase' = phase /\ ghosts' = ghosts /\ todo # <<>>
    BY <1>6 DEF CommandFails
  <2>3. \A w, y : Underway(w, y, kernel, todo, errs) => Underway(w, y, kernel', todo', errs')
    BY <1>6, <2>1 DEF CommandFails
  <2> QED
    BY <1>2, <2>2, <2>3 DEF CourseInv, ghosts
<1>7. CASE BootDone
  <2>1. ~lost /\ ~overlaid /\ errs = {} => Within(kernel, Base(n))
    BY <1>2, <1>7, Arrives DEF BootDone
  <2> QED
    BY <1>7, <2>1 DEF BootDone, Idle, CourseInv
<1>8. CASE ApplyDone
  <2>1. ~lost /\ ~overlaid => Within(kernel, Base(n))
    BY <1>2, <1>8, Arrives DEF ApplyDone
  <2> QED
    BY <1>8, <2>1 DEF ApplyDone, Idle, CourseInv
<1>9. CASE StartRollback
  <2>1. ~lost /\ ~overlaid => Within(kernel, Course(r, n).mid)
    BY <1>2, <1>9 DEF StartRollback, Underway
  <2>2. ~lost /\ ~overlaid => Within(kernel, Mid(n, r))
    BY <2>1, WaysOut DEF Course
  <2>3. ~lost /\ ~overlaid => Underway(Course(n, r), Base(r), kernel, Commands(next, running), {})
    BY <1>1, <2>2, GetsUnderway DEF Commands
  <2> QED
    BY <1>9, <2>3 DEF StartRollback, CourseInv, ghosts
<1>10. CASE RollbackDone
  <2>1. ~lost /\ ~overlaid => Within(kernel, Base(r))
    BY <1>2, <1>10, Arrives DEF RollbackDone
  <2> QED
    BY <1>10, <2>1 DEF RollbackDone, Idle, CourseInv
<1>11. CASE RollbackFails
  BY <1>11 DEF RollbackFails, CourseInv
<1>12. CASE PowerCycle
  <2> DEFINE mid == WithField(PowerOn, "resolv", kernel.resolv)
  <2>1. KernelOK(mid) /\ mid.nif = PowerOn.nif
    BY KernelStarts, KernelFields, FieldTouches
  <2>2. kernel' = WithField(mid, "rulesOnDisk", kernel.rulesOnDisk)
    BY <1>12 DEF PowerCycle, WithField
  <2> HIDE DEF mid
  <2>3. kernel'.nif = PowerOn.nif
    BY <2>1, <2>2, KernelFields, FieldTouches
  <2>4. Within(kernel', Outset)
    BY <2>3, PoweredOn
  <2> QED
    BY <1>12, <2>4 DEF PowerCycle, CourseInv
<1>13. CASE UNCHANGED vars
  BY <1>13 DEF vars, ghosts, CourseInv
<1> QED
  BY <1>3, <1>4, <1>5, <1>6, <1>7, <1>8, <1>9, <1>10, <1>11, <1>12, <1>13 DEF Next

(* No command is refused because of the state the system is in, at a boot, *)
(* during a change or on the way back from any point of it, unless a       *)
(* command has failed of itself or an interface moves to a bridge that     *)
(* comes before its own.                                                   *)
THEOREM NothingIsRefused ==
  ASSUME \A d \in Documents : Feasible(d)
  PROVE  Spec => []NoneRefused
<1>1. CourseInv => NoneRefused
  <2>1. ASSUME CourseInv, ~lost, ~overlaid, "refused" \in errs, "failed" \notin errs
        PROVE  IF phase = "rollback" THEN MovesForward(next, running)
                                     ELSE MovesForward(running, next)
    <3> DEFINE r == Effective(running)
               n == Effective(next)
    <3>1. phase \in {"boot", "apply", "rollback"}
      BY <2>1 DEF CourseInv
    <3>2. \A o, e : Underway(Course(o, e), Base(e), kernel, todo, errs) => Forward(o, e)
      BY <2>1 DEF Underway, Course
    <3>3. phase # "boot"
      BY <2>1, <3>2, WaysOut DEF CourseInv
    <3>4. CASE phase = "apply"
      BY <2>1, <3>2, <3>4 DEF CourseInv, Forward, MovesForward
    <3>5. CASE phase = "rollback"
      BY <2>1, <3>2, <3>5 DEF CourseInv, Forward, MovesForward
    <3> QED
      BY <3>1, <3>3, <3>4, <3>5
  <2> QED
    BY <2>1 DEF NoneRefused
<1>2. ApplierInv /\ CourseInv /\ [Next]_vars => CourseInv'
  BY CourseStep
<1> QED
  BY <1>1, <1>2, CourseStarts, ApplierInvariant, PTL DEF Spec

-----------------------------------------------------------------------------
(* The programs that serve an interface, for any number of programs,       *)
(* settings and processes and any patience                                 *)

Processes ==
  {NoProcess} \cup [program : Program, settings : Settings, told : BOOLEAN]

Types ==
  /\ process \in [Pids -> Processes]
  /\ pidfile \in [Program -> Pids \cup {Nothing}]
  /\ wanted \in Services
  /\ toStop \in Seq(Program)
  /\ signalled \in Pids \cup {Nothing}

(* In a pass only the programs still to be stopped have pidfiles, so that  *)
(* there is never more than one.                                           *)
FilesInUse ==
  /\ \A d, e \in Program : pidfile[d] # Nothing /\ pidfile[e] # Nothing => d = e
  /\ pass = "busy" => \A d \in Program : d \in ToSet(toStop) \/ pidfile[d] = Nothing

(* What StopPidfile waits for is the process it has signalled, and none    *)
(* other is named in the file that it is going to remove.                  *)
Waiting ==
  signalled # Nothing =>
    /\ toStop # <<>>
    /\ pidfile[Head(toStop)] \in {signalled, Nothing}
    /\ ~InCharge(signalled)

(* A process is lost sight of only if it has outlived the wait, and one in *)
(* charge only if its file was removed by another.                         *)
OnFile ==
  \A p \in Pids :
    /\ ~misled /\ InCharge(p) => pidfile[process[p].program] = p
    /\ ~outlived /\ Alive(p) => pidfile[process[p].program] = p

DaemonInv == Types /\ FilesInUse /\ Waiting /\ OnFile /\ UpToDate

(* What ToSet is of the sequence of programs still to be stopped.          *)
LEMMA HeadAndTail ==
  ASSUME NEW S, NEW s \in Seq(S), s # <<>>
  PROVE  /\ Head(s) \in S /\ Tail(s) \in Seq(S)
         /\ \A d \in S : d \in ToSet(s) => d = Head(s) \/ d \in ToSet(Tail(s))
<1>1. Head(s) \in S /\ Tail(s) \in Seq(S) /\ Len(s) \in Nat /\ Len(s) # 0
  OBVIOUS
<1>2. ASSUME NEW i \in DOMAIN s, s[i] # Head(s)
      PROVE  s[i] \in ToSet(Tail(s))
  <2>1. i \in 1 .. Len(s) /\ i # 1
    BY <1>2
  <2>2. i - 1 \in DOMAIN Tail(s) /\ Tail(s)[i - 1] = s[i]
    BY <1>1, <2>1
  <2> QED BY <2>2 DEF ToSet
<1> QED BY <1>1, <1>2 DEF ToSet

(* A process in charge, or one alive, is of one of the programs.           *)
LEMMA ProgramOfProcess ==
  ASSUME Types, NEW p \in Pids, Alive(p)
  PROVE  process[p].program \in Program /\ process[p].told \in BOOLEAN
BY DEF Types, Processes, Alive

(* Each step of a pass, of a program or of the environment preserves the   *)
(* invariant.                                                              *)
LEMMA DaemonStep == DaemonInv /\ [DaemonNext]_daemonVars => DaemonInv'
<1> SUFFICES ASSUME DaemonInv, [DaemonNext]_daemonVars PROVE DaemonInv'
  OBVIOUS
<1> USE DaemonAssumption
<1>1. ASSUME NEW w \in Services, Begin(w) PROVE DaemonInv'
  <2>1. toStop' \in Seq(Program) /\ \A d \in Program : d \in ToSet(toStop')
    BY <1>1 DEF Begin, Program
  <2> QED BY <1>1, <2>1 DEF Begin, DaemonInv, Types, FilesInUse, Waiting, OnFile, UpToDate,
                            InCharge, Alive
<1>2. ASSUME Stopping, RemovePidfile,
             UNCHANGED <<process, wanted, pass, misled>>,
             ~InCharge(pidfile[Head(toStop)]),
             ~outlived' => ~outlived /\ ~Alive(pidfile[Head(toStop)])
      PROVE  DaemonInv'
  <2>1. /\ Head(toStop) \in Program /\ Tail(toStop) \in Seq(Program)
        /\ \A d \in Program :
             d \in ToSet(toStop) => d = Head(toStop) \/ d \in ToSet(Tail(toStop))
    BY <1>2, HeadAndTail DEF DaemonInv, Types, Stopping
  <2>2. Types'
    BY <1>2, <2>1 DEF DaemonInv, Types, RemovePidfile
  <2>3. FilesInUse'
    BY <1>2, <2>1 DEF DaemonInv, Types, FilesInUse, RemovePidfile
  <2>4. Waiting'
    BY <1>2 DEF Waiting, RemovePidfile
  <2>5. ASSUME NEW p \in Pids, Alive(p), pidfile[process[p].program] = p,
               p # pidfile[Head(toStop)]
        PROVE  pidfile'[process[p].program] = p
    BY <1>2, <2>1, <2>5, ProgramOfProcess DEF DaemonInv, Types, RemovePidfile
  <2>6. OnFile'
    BY <1>2, <2>5 DEF DaemonInv, OnFile, InCharge, Alive
  <2>7. UpToDate'
    BY <1>2 DEF DaemonInv, UpToDate, Stopping, InCharge, Alive
  <2> QED BY <2>2, <2>3, <2>4, <2>6, <2>7 DEF DaemonInv
<1>3. CASE NothingToStop
  BY <1>2, <1>3 DEF NothingToStop, InCharge
<1>4. CASE Signal
  <2>1. PICK s \in Pids :
          /\ s = pidfile[Head(toStop)] /\ Alive(s) /\ toStop # <<>>
          /\ process' = [process EXCEPT ![s].told = TRUE]
    BY <1>4 DEF Signal, Stopping, Alive
  <2>2. process[s] \in [program : Program, settings : Settings, told : BOOLEAN]
    BY <2>1 DEF DaemonInv, Types, Processes, Alive
  <2>3. /\ process'[s] = [program |-> process[s].program, settings |-> process[s].settings,
                          told |-> TRUE]
        /\ \A p \in Pids : p # s => process'[p] = process[p]
        /\ DOMAIN process' = Pids
    BY <2>1, <2>2 DEF DaemonInv, Types
  <2>4. process' \in [Pids -> Processes]
    <3>1. process'[s] \in Processes
      BY <2>2, <2>3 DEF Processes
    <3> QED BY <2>1, <2>3, <3>1 DEF DaemonInv, Types
  <2>5. Types'
    BY <1>4, <2>1, <2>4 DEF Signal, DaemonInv, Types
  <2>6. \A p \in Pids : /\ InCharge(p)' => InCharge(p) /\ p # s /\ process'[p] = process[p]
                        /\ Alive(p)' => Alive(p) /\ process'[p].program = process[p].program
    BY <2>1, <2>3 DEF InCharge, Alive
  <2>7. FilesInUse' /\ Waiting'
    BY <1>4, <2>1, <2>6 DEF Signal, DaemonInv, FilesInUse, Waiting
  <2>8. OnFile' /\ UpToDate'
    BY <1>4, <2>6 DEF Signal, Stopping, DaemonInv, OnFile, UpToDate
  <2> QED BY <2>5, <2>7, <2>8 DEF DaemonInv
<1>5. CASE Poll
  BY <1>5 DEF Poll, DaemonInv, Types, FilesInUse, Waiting, OnFile, UpToDate, InCharge, Alive
<1>6. CASE StopWaiting
  <2>1. pidfile[Head(toStop)] \in {signalled, Nothing} /\ ~InCharge(signalled)
    BY <1>6 DEF StopWaiting, DaemonInv, Waiting
  <2>2. ~Alive(Nothing)
    BY DEF Alive
  <2> QED BY <1>2, <1>6, <2>1, <2>2 DEF StopWaiting, InCharge
<1>7. ASSUME NEW p \in Pids, Start(p) PROVE DaemonInv'
  <2> DEFINE started ==
        [program |-> wanted.program, settings |-> wanted.settings, told |-> FALSE]
  <2>1. \A d \in Program : pidfile[d] = Nothing
    BY <1>7 DEF Start, EndPass, DaemonInv, FilesInUse, ToSet
  <2>2. wanted \in [program : Program, settings : Settings]
    BY <1>7 DEF Start, DaemonInv, Types, Services
  <2>3. /\ process' = [process EXCEPT ![p] = started]
        /\ pidfile' = [pidfile EXCEPT ![wanted.program] = p]
        /\ ~Alive(p) /\ signalled = Nothing => signalled' = Nothing
    BY <1>7 DEF Start, EndPass
  <2>4. signalled = Nothing
    BY <1>7 DEF Start, EndPass, DaemonInv, Waiting
  <2>5. Types'
    BY <1>7, <2>2, <2>3 DEF Start, EndPass, DaemonInv, Types, Processes
  <2>6. FilesInUse' /\ Waiting'
    BY <1>7, <2>1, <2>2, <2>3, <2>4 DEF Start, EndPass, DaemonInv, Types, FilesInUse, Waiting
  <2>7. \A q \in Pids \ {p} : /\ ~misled => ~InCharge(q)
                              /\ ~outlived => ~Alive(q)
    BY <2>1, ProgramOfProcess DEF DaemonInv, OnFile, InCharge
  <2>8. \A q \in Pids \ {p} : process'[q] = process[q]
    BY <2>3 DEF DaemonInv, Types
  <2>9. process'[p] = started /\ pidfile'[wanted.program] = p
    BY <2>2, <2>3 DEF DaemonInv, Types
  <2>10. OnFile' /\ UpToDate'
    <3>1. misled' = misled /\ outlived' = outlived /\ wanted' = wanted
      BY <1>7 DEF Start, EndPass
    <3> QED BY <2>2, <2>7, <2>8, <2>9, <3>1 DEF OnFile, UpToDate, InCharge, Alive
  <2> QED BY <2>5, <2>6, <2>10 DEF DaemonInv
<1>8. CASE NothingToStart
  <2>1. ~misled => \A p \in Pids : ~InCharge(p)
    BY <1>8, ProgramOfProcess
       DEF NothingToStart, EndPass, DaemonInv, FilesInUse, OnFile, InCharge, ToSet
  <2> QED BY <1>8, <2>1 DEF NothingToStart, EndPass, DaemonInv, Types, FilesInUse, Waiting,
                            OnFile, UpToDate, InCharge, Alive
<1>9. CASE StartFails
  BY <1>9 DEF StartFails, EndPass, DaemonInv, Types, FilesInUse, Waiting, OnFile, UpToDate,
              InCharge, Alive
<1>10. CASE Killed
  BY <1>10 DEF Killed, DaemonInv, Types, FilesInUse, Waiting, OnFile, UpToDate, InCharge, Alive
<1>11. ASSUME NEW p \in Pids, NEW tidy \in BOOLEAN, Exit(p, tidy) PROVE DaemonInv'
  <2> DEFINE d == process[p].program
  <2>1. Alive(p) /\ d \in Program
    BY <1>11, ProgramOfProcess DEF Exit, DaemonInv
  <2>2. process'[p] = NoProcess /\ \A q \in Pids \ {p} : process'[q] = process[q]
    BY <1>11 DEF Exit, DaemonInv, Types
  <2>3. \A e \in Program : pidfile'[e] # pidfile[e] => tidy /\ e = d /\ pidfile'[e] = Nothing
    BY <1>11, <2>1 DEF Exit, DaemonInv, Types
  <2>4. Types'
    BY <1>11, <2>1 DEF Exit, DaemonInv, Types, Processes
  <2>5. FilesInUse'
    BY <1>11, <2>3 DEF Exit, DaemonInv, FilesInUse
  <2>6. \A q \in Pids : Alive(q)' => Alive(q) /\ q # p /\ process'[q] = process[q]
    BY <2>2 DEF Alive
  <2>7. \A q \in Pids : InCharge(q)' => InCharge(q) /\ Alive(q)'
    BY <2>6 DEF InCharge
  <2>8. Waiting'
    <3>1. signalled # Nothing => Head(toStop) \in Program
      BY HeadAndTail DEF DaemonInv, Types, Waiting
    <3>2. ~InCharge(Nothing) /\ signalled \in Pids \cup {Nothing}
      BY DEF InCharge, Alive, DaemonInv, Types
    <3> QED BY <1>11, <2>3, <2>7, <3>1, <3>2 DEF Exit, DaemonInv, Waiting
  <2>9. OnFile'
    <3>1. ASSUME NEW q \in Pids, q # p, Alive(q), pidfile[process[q].program] = q,
                 pidfile'[process[q].program] # q
          PROVE  misled' /\ ~(pidfile[d] = p)
      BY <1>11, <2>1, <2>3, <3>1, ProgramOfProcess DEF Exit, DaemonInv
    <3> QED BY <1>11, <2>1, <2>6, <2>7, <3>1 DEF Exit, DaemonInv, OnFile
  <2>10. UpToDate'
    BY <1>11, <2>6, <2>7 DEF Exit, DaemonInv, UpToDate
  <2> QED BY <2>4, <2>5, <2>8, <2>9, <2>10 DEF DaemonInv
<1>12. CASE UNCHANGED daemonVars
  BY <1>12 DEF daemonVars, DaemonInv, Types, FilesInUse, Waiting, OnFile, UpToDate, InCharge,
               Alive
<1> QED BY <1>1, <1>3, <1>4, <1>5, <1>6, <1>7, <1>8, <1>9, <1>10, <1>11, <1>12
        DEF DaemonNext, Proceed

LEMMA DaemonInvariant == DaemonSpec => []DaemonInv
<1>1. DaemonInit => DaemonInv
  BY DaemonAssumption
     DEF DaemonInit, DaemonInv, Types, FilesInUse, Waiting, OnFile, UpToDate, InCharge, Alive,
         Processes, Services
<1> QED BY <1>1, DaemonStep, PTL DEF DaemonSpec

(* Programs that leave within the wait never overlap: StopPidfile has seen *)
(* the old one's end before the new one starts.                            *)
THEOREM ProgramsTakeTurns == DaemonSpec => []OneAtATime
<1>1. DaemonInv => OneAtATime
  BY ProgramOfProcess, DaemonAssumption DEF DaemonInv, FilesInUse, OnFile, OneAtATime
<1> QED BY <1>1, DaemonInvariant, PTL

(* However passes, kills, crashes and slow ends fall, no second program is *)
(* left in charge, and the one that is can be found by its pidfile.        *)
THEOREM OneProgramServes == DaemonSpec => []OneInCharge
<1>1. DaemonInv => OneInCharge
  BY ProgramOfProcess, DaemonAssumption
     DEF DaemonInv, FilesInUse, OnFile, OneInCharge, InCharge
<1> QED BY <1>1, DaemonInvariant, PTL

(* What serves after a pass without an error has the settings wanted last. *)
THEOREM ServiceIsUpToDate == DaemonSpec => []UpToDate
BY DaemonInvariant, PTL DEF DaemonInv
=============================================================================
