--------------------------- MODULE PrivateAddress ---------------------------
(***************************************************************************)
(* isPrivateOrLoopbackIp of services/cimd.ts: whether a host may not be    *)
(* fetched from.  An IPv6 address is a sequence of eight 16-bit groups, an *)
(* IPv4 address one of two (its octets in pairs), and a spelling is the    *)
(* way an IPv6 literal is written: what stands before and behind its "::", *)
(* if it has one, and whether its last two groups are a dotted quad.       *)
(***************************************************************************)
EXTENDS Integers, Sequences, SequencesExt, FiniteSets

Group == 0 .. 65535
Address4 == [1 .. 2 -> Group]
Address6 == [1 .. 8 -> Group]

Octets(a, b, c, d) == <<a * 256 + b, c * 256 + d>>
Zeros(n) == [i \in 1 .. n |-> 0]

Range4(a, b, c, d, prefix) == [subnet |-> Octets(a, b, c, d), prefix |-> prefix]
Range6(head, last, prefix) == [subnet |-> <<head>> \o Zeros(6) \o <<last>>, prefix |-> prefix]

\* PRIVATE_ADDRESS_RANGES.
PrivateRanges4 ==
    {Range4(0, 0, 0, 0, 8), Range4(10, 0, 0, 0, 8), Range4(100, 64, 0, 0, 10),
     Range4(127, 0, 0, 0, 8), Range4(169, 254, 0, 0, 16), Range4(172, 16, 0, 0, 12),
     Range4(192, 0, 0, 0, 24), Range4(192, 168, 0, 0, 16), Range4(198, 18, 0, 0, 15),
     Range4(224, 0, 0, 0, 4), Range4(240, 0, 0, 0, 4)}

PrivateRanges6 ==
    {Range6(0, 1, 128), Range6(0, 0, 128), Range6(65152, 0, 10), Range6(65216, 0, 10),
     Range6(64512, 0, 7), Range6(65280, 0, 8)}

\* net.BlockList: the first `prefix` bits of the address are those of the subnet.
InSubnet(groups, range) ==
    \A i \in DOMAIN range.subnet :
       LET left == range.prefix - 16 * (i - 1)
           unit == IF left >= 16 THEN 1 ELSE IF left <= 0 THEN 65536 ELSE 2 ^ (16 - left) IN
       groups[i] \div unit = range.subnet[i] \div unit

Blocked4(groups) == \E range \in PrivateRanges4 : InSubnet(groups, range)

\* net.BlockList asks the IPv4 rules about an IPv4-mapped address (::ffff:a.b.c.d).
Mapped(groups) == SubSeq(groups, 1, 6) = Zeros(5) \o <<65535>>

Blocked6(groups) ==
    \/ \E range \in PrivateRanges6 : InSubnet(groups, range)
    \/ Mapped(groups) /\ Blocked4(SubSeq(groups, 7, 8))

\* The groups of a dotted quad, if there is one.
Ipv4ToGroups(quad) == IF quad = <<>> THEN <<>> ELSE Octets(quad[1], quad[2], quad[3], quad[4])

\* Fault: a dotted quad is one group of the eight.
Missing_QuadIsOne(spelling) ==
    8 - Len(spelling.head) - Len(spelling.tail) - (IF spelling.quad = <<>> THEN 0 ELSE 1)

\* What "::" stands for.
Missing(spelling) ==
    8 - Len(spelling.head) - Len(spelling.tail) - Len(Ipv4ToGroups(spelling.quad))

\* expandIpv6Groups: <<>> if it cannot make eight groups of the spelling.
ExpandIpv6Groups(spelling) ==
    LET gap == IF spelling.elided /\ Missing(spelling) > 0 THEN Zeros(Missing(spelling)) ELSE <<>>
        groups == spelling.head \o gap \o spelling.tail \o Ipv4ToGroups(spelling.quad) IN
    IF Len(groups) = 8 THEN groups ELSE <<>>

\* extractEmbeddedIpv4: behind 64:ff9b::/96 (NAT64), or inside 2002::/16 (6to4).
ExtractEmbeddedIpv4(spelling) ==
    LET groups == ExpandIpv6Groups(spelling) IN
    IF groups = <<>> THEN <<>>
    ELSE IF SubSeq(groups, 1, 6) = <<100, 65435>> \o Zeros(4) THEN SubSeq(groups, 7, 8)
    ELSE IF groups[1] = 8194 THEN SubSeq(groups, 2, 3)
    ELSE <<>>

\* isPrivateOrLoopbackIp.  `address` has its groups and, for IPv6, the spelling
\* in which it was given; net.BlockList reads every spelling.
IsPrivateOrLoopback(address) ==
    IF address.version = 4 THEN Blocked4(address.groups)
    ELSE LET embedded == ExtractEmbeddedIpv4(address.spelling) IN
         IF embedded # <<>> THEN Blocked4(embedded) ELSE Blocked6(address.groups)

-----------------------------------------------------------------------------
(* The addresses that are meant, by their first octets and groups.         *)

ReservedOctets(a, b, c) ==
    \/ a \in {0, 10, 127} \cup 224 .. 255
    \/ a = 100 /\ b \in 64 .. 127
    \/ a = 169 /\ b = 254
    \/ a = 172 /\ b \in 16 .. 31
    \/ a = 192 /\ (b = 168 \/ (b = 0 /\ c = 0))
    \/ a = 198 /\ b \in {18, 19}

Reserved4(groups) ==
    ReservedOctets(groups[1] \div 256, groups[1] % 256, groups[2] \div 256)

\* The IPv4 addresses that an IPv6 address is another notation of.
Carried(groups) ==
    IF SubSeq(groups, 1, 6) \in {Zeros(5) \o <<65535>>, <<100, 65435>> \o Zeros(4)}
    THEN {SubSeq(groups, 7, 8)}
    ELSE IF groups[1] = 8194 THEN {SubSeq(groups, 2, 3)} ELSE {}

Reserved6(groups) ==
    \/ groups[1] \in 64512 .. 65023 \cup 65152 .. 65535
    \/ SubSeq(groups, 1, 7) = Zeros(7) /\ groups[8] \in {0, 1}
    \/ \E inner \in Carried(groups) : Reserved4(inner)

Reserved(address) ==
    IF address.version = 4 THEN Reserved4(address.groups) ELSE Reserved6(address.groups)

\* Every way to write an IPv6 address: with "::" for a run of its zeros or
\* without, and with a dotted quad for its last two groups or without.
Spellings(groups) ==
    LET octets == <<groups[7] \div 256, groups[7] % 256, groups[8] \div 256, groups[8] % 256>>
        runs == {run \in (1 .. 8) \X (1 .. 8) :
                    run[1] <= run[2] /\ \A i \in run[1] .. run[2] : groups[i] = 0} IN
         {[head |-> groups, elided |-> FALSE, tail |-> <<>>, quad |-> <<>>],
          [head |-> SubSeq(groups, 1, 6), elided |-> FALSE, tail |-> <<>>, quad |-> octets]}
    \cup {[head |-> SubSeq(groups, 1, run[1] - 1), elided |-> TRUE,
           tail |-> SubSeq(groups, run[2] + 1, 8), quad |-> <<>>] : run \in runs}
    \cup {[head |-> SubSeq(groups, 1, run[1] - 1), elided |-> TRUE,
           tail |-> SubSeq(groups, run[2] + 1, 6), quad |-> octets] :
             run \in {r \in runs : r[2] <= 6}}
=============================================================================
