----------------------------- MODULE AccessRule -----------------------------
(***************************************************************************)
(* The rule of an access-list entry: how the words after "permit" or       *)
(* "deny" are parsed (cli.parseACE), checked (config.ACE.Validate) and     *)
(* written again (cli.formatACE).                                          *)
(*                                                                         *)
(* A word is a tuple that begins with its form: "word", "num", "dotted"    *)
(* (A.B.C.D), "colon" (an IPv6 address) or "prefix" (family, address and   *)
(* length).  Names of ports and of ICMP types stand for their numbers.     *)
(***************************************************************************)
EXTENDS Integers, Sequences, SequencesExt

CONSTANTS
  AddrBits,   \* length of an address, 32 and 128 in the code
  MaxPort     \* 65535 in the code

ASSUME AccessRuleAssumption == AddrBits \in Nat \ {0} /\ MaxPort \in Nat \ {0}

Word(w) == <<"word", w>>
Num(n) == <<"num", n>>
Dotted(a) == <<"dotted", a>>
Colon(a) == <<"colon", a>>
PrefixWord(family, a, bits) == <<"prefix", family, a, bits>>

(* Addresses in a rule: any, or a prefix of one of the families.           *)
Anywhere == <<"any">>
Prefix(family, a, bits) == <<family, a, bits>>
Masked(family, a, bits) == a % 2 ^ (AddrBits - bits) = 0
Family(address) == Head(address)

Parsed(value, rest) == [ok |-> TRUE, value |-> value, rest |-> rest]
Failed == [ok |-> FALSE, value |-> <<>>, rest |-> <<>>]

AddressOf(word) == IF word[1] = "dotted" THEN Prefix("v4", word[2], AddrBits)
                                         ELSE Prefix("v6", word[2], AddrBits)

(* WildcardToBits: the lengths whose wildcard mask this is.                *)
WildcardBits(mask) == {b \in 0 .. AddrBits : mask = 2 ^ (AddrBits - b) - 1}

(* aceParser.addr                                                          *)
ParseAddress(words) ==
  IF words = <<>> THEN Failed
  ELSE LET first == Head(words)
           rest == Tail(words)
       IN
       IF first \in {Word("any"), Word("any4"), Word("any6")} THEN Parsed(Anywhere, rest)
       ELSE IF first = Word("host")
         THEN IF rest # <<>> /\ Head(rest)[1] \in {"dotted", "colon"}
              THEN Parsed(AddressOf(Head(rest)), Tail(rest)) ELSE Failed
       ELSE IF first[1] = "prefix"
         THEN IF Masked(first[2], first[3], first[4]) THEN Parsed(Tail(first), rest) ELSE Failed
       ELSE IF first[1] = "dotted" /\ rest # <<>> /\ Head(rest)[1] = "dotted"
         THEN LET lengths == WildcardBits(Head(rest)[2])
                  fit == {b \in lengths : Masked("v4", first[2], b)}
              IN  IF fit = {} THEN Failed
                  ELSE Parsed(Prefix("v4", first[2], CHOOSE b \in fit : TRUE), Tail(rest))
       ELSE IF first[1] \in {"dotted", "colon"} THEN Parsed(AddressOf(first), rest)
       ELSE Failed

(* aceParser.ports: none, a port, or a range.                              *)
ParsePorts(words) ==
  LET op == IF words = <<>> THEN Word("") ELSE Head(words)
      port(i) == IF Len(words) >= i /\ words[i][1] = "num" /\ words[i][2] <= MaxPort
                 THEN {words[i][2]} ELSE {}
      lo == port(2)
      low == CHOOSE p \in lo : TRUE
      hi == IF port(3) = {} THEN -1 ELSE CHOOSE p \in port(3) : TRUE
  IN
  IF op \notin {Word(w) : w \in {"eq", "gt", "lt", "range", "neq"}} THEN Parsed(<<>>, words)
  ELSE IF op = Word("neq") \/ lo = {} THEN Failed
  ELSE
  CASE op = Word("eq") -> Parsed(<<low>>, SubSeq(words, 3, Len(words)))
    [] op = Word("gt") -> IF low >= MaxPort THEN Failed
                          ELSE Parsed(<<low + 1, MaxPort>>, SubSeq(words, 3, Len(words)))
    [] op = Word("lt") -> IF low <= 1 THEN Failed
                          ELSE Parsed(<<1, low - 1>>, SubSeq(words, 3, Len(words)))
    [] OTHER -> IF hi < low THEN Failed
                ELSE Parsed(IF hi = low THEN <<low>> ELSE <<low, hi>>,
                            SubSeq(words, 4, Len(words)))

(* Other names and numbers of a protocol; another number is kept.          *)
Protocol(word) ==
  CASE word \in {Word("ip"), Word("ipv6")} -> "ip"
    [] word \in {Word("tcp"), Num(6)} -> "tcp"
    [] word \in {Word("udp"), Num(17)} -> "udp"
    [] word \in {Word("icmp"), Num(1)} -> "icmp"
    [] word \in {Word("icmpv6"), Word("ipv6-icmp"), Num(58)} -> "icmpv6"
    [] word = Num(47) -> "47"
    [] OTHER -> "unknown"

(* ACE.Validate, but for the sequence number.                              *)
ValidRule(action, r) ==
  LET families == {Family(a) : a \in {r.source, r.destination} \ {Anywhere}} IN
  /\ families # {"v4", "v6"}
  /\ r.protocol = "icmp" => "v6" \notin families
  /\ r.protocol = "icmpv6" => "v4" \notin families
  /\ r.protocol \notin {"tcp", "udp"} => r.sport = <<>> /\ r.dport = <<>>
  /\ r.icmp # <<>> => r.protocol \in {"icmp", "icmpv6"}
  /\ r.stateless => action = "permit"

(* The addresses, each followed by its ports.                              *)
ParseParts(hasPorts, words) ==
  LET joined(state, part) ==
        IF state.ok /\ part.ok THEN Parsed(Append(state.value, part.value), part.rest)
                               ELSE Failed
      parse(state, isAddress) ==
        joined(state, IF isAddress THEN ParseAddress(state.rest)
                      ELSE IF hasPorts THEN ParsePorts(state.rest)
                      ELSE Parsed(<<>>, state.rest))
  IN  FoldLeft(parse, Parsed(<<>>, words), <<TRUE, FALSE, TRUE, FALSE>>)

(* The type of an ICMP message, the flags, and the whole.                  *)
RuleOf(action, protocol, parts) ==
  LET typed == /\ protocol \in {"icmp", "icmpv6"} /\ parts.rest # <<>>
               /\ Head(parts.rest) \notin {Word("log"), Word("stateless")}
      flags == IF typed THEN Tail(parts.rest) ELSE parts.rest
      rule == [protocol |-> protocol, source |-> parts.value[1], sport |-> parts.value[2],
               destination |-> parts.value[3], dport |-> parts.value[4],
               icmp |-> IF typed THEN Tail(Head(parts.rest)) ELSE <<>>,
               log |-> Contains(flags, Word("log")),
               stateless |-> Contains(flags, Word("stateless"))]
  IN
  IF /\ parts.ok
     /\ typed => Head(parts.rest)[1] = "num"
     /\ ToSet(flags) \subseteq {Word("log"), Word("stateless")}
     /\ ValidRule(action, rule)
  THEN Parsed(rule, <<>>) ELSE Failed

(* parseACE                                                                *)
ParseRule(action, words) ==
  LET protocol == IF words = <<>> THEN "unknown" ELSE Protocol(Head(words)) IN
  IF protocol = "unknown" THEN Failed
  ELSE RuleOf(action, protocol, ParseParts(protocol \in {"tcp", "udp"}, Tail(words)))

(* fmtAddr, fmtPorts, formatACE                                            *)
FormatAddress(a) ==
  IF a = Anywhere THEN <<Word("any")>>
  ELSE LET host == IF Family(a) = "v4" THEN Dotted(a[2]) ELSE Colon(a[2]) IN
       IF a[3] = AddrBits THEN <<Word("host"), host>>
       ELSE IF Family(a) = "v4" THEN <<host, Dotted(2 ^ (AddrBits - a[3]) - 1)>>
       ELSE <<PrefixWord(a[1], a[2], a[3])>>

FormatPorts(p) ==
  IF p = <<>> THEN <<>>
  ELSE IF p[1] = p[Len(p)] THEN <<Word("eq"), Num(p[1])>>
  ELSE <<Word("range"), Num(p[1]), Num(p[2])>>

FormatRule(r) ==
  <<IF r.protocol = "47" THEN Num(47) ELSE Word(r.protocol)>>
  \o FormatAddress(r.source) \o FormatPorts(r.sport)
  \o FormatAddress(r.destination) \o FormatPorts(r.dport)
  \o (IF r.icmp = <<>> THEN <<>> ELSE <<Num(r.icmp[1])>>)
  \o (IF r.log THEN <<Word("log")>> ELSE <<>>)
  \o (IF r.stateless THEN <<Word("stateless")>> ELSE <<>>)
=============================================================================
