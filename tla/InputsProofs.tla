---------------------------- MODULE InputsProofs ----------------------------
(***************************************************************************)
(* Theorems about Inputs, for inputs of every size.                        *)
(*                                                                         *)
(* Every address is judged as the address blocks say (AddressesJudged), in *)
(* all of its spellings: the ranges of PRIVATE_ADDRESS_RANGES as intervals *)
(* of groups, the expansion of "::", and the notations that carry an IPv4  *)
(* address.  Every example is found that is asked for clearly              *)
(* (ExamplesFound): slashes around a path, and a path cut off a branch.    *)
(* Every command line is understood (CommandLinesUnderstood): what the     *)
(* loop knows after each of its rounds.  Every query is told from a forged *)
(* one (QueriesGenuine): a stable sort by groups.                          *)
(***************************************************************************)
EXTENDS Inputs, FiniteSetTheorems, SequenceTheorems, WellFoundedInduction, TLAPS

LEMMA GroupBounds == \A n \in Group : n \in Nat /\ n < 65536
BY DEF Group

LEMMA Groups4 ==
    ASSUME NEW g \in Address4
    PROVE  g[1] \in Nat /\ g[1] < 65536 /\ g[2] \in Nat /\ g[2] < 65536
<1>1. g[1] \in Group /\ g[2] \in Group
  BY DEF Address4
<1> QED
  BY <1>1, GroupBounds

-----------------------------------------------------------------------------
(* Ranges as intervals.                                                    *)

\* What a prefix of a subnet lets vary in a group that begins `left` bits
\* before its end.
Unit(left) == IF left >= 16 THEN 1 ELSE IF left <= 0 THEN 65536 ELSE 2 ^ (16 - left)

LEMMA Units ==
    /\ Unit(4) = 4096 /\ Unit(7) = 512 /\ Unit(8) = 256 /\ Unit(10) = 64
    /\ Unit(12) = 16 /\ Unit(15) = 2
    /\ \A left \in Int : (left >= 16 => Unit(left) = 1) /\ (left <= 0 => Unit(left) = 65536)
<1>1. 2 ^ (16 - 4) = 4096 /\ 2 ^ (16 - 7) = 512 /\ 2 ^ (16 - 8) = 256
      /\ 2 ^ (16 - 10) = 64 /\ 2 ^ (16 - 12) = 16 /\ 2 ^ (16 - 15) = 2
  OBVIOUS
<1> QED
  BY <1>1 DEF Unit

\* net.BlockList's comparison, group by group.
LEMMA Subnet4 ==
    ASSUME NEW g \in Address4, NEW a, NEW b, NEW c, NEW d, NEW p \in Int
    PROVE  InSubnet(g, Range4(a, b, c, d, p))
              <=> /\ g[1] \div Unit(p) = (a * 256 + b) \div Unit(p)
                  /\ g[2] \div Unit(p - 16) = (c * 256 + d) \div Unit(p - 16)
<1> DEFINE range == Range4(a, b, c, d, p)
<1>1. /\ range.prefix = p /\ DOMAIN range.subnet = {1, 2}
      /\ range.subnet[1] = a * 256 + b /\ range.subnet[2] = c * 256 + d
  BY DEF Range4, Octets
<1>2. InSubnet(g, range)
        <=> \A i \in {1, 2} :
               g[i] \div Unit(p - 16 * (i - 1)) = range.subnet[i] \div Unit(p - 16 * (i - 1))
  BY <1>1 DEF InSubnet, Unit
<1>3. p - 16 * (1 - 1) = p /\ p - 16 * (2 - 1) = p - 16
  OBVIOUS
<1> QED
  BY <1>1, <1>2, <1>3

\* Quotients as intervals.
LEMMA Quotient ==
    ASSUME NEW n \in Nat, NEW unit \in Nat \ {0}, NEW q \in Nat
    PROVE  n \div unit = q <=> q * unit <= n /\ n < q * unit + unit
OBVIOUS

\* Numbers that agree in all but their last bits lie between two multiples.
LEMMA Aligned ==
    ASSUME NEW x \in Nat, NEW n \in Nat, NEW unit \in Nat \ {0}, n % unit = 0
    PROVE  x \div unit = n \div unit <=> n <= x /\ x < n + unit
<1> DEFINE q == n \div unit
<1>1. q \in Nat /\ q * unit = n
  OBVIOUS
<1> HIDE DEF q
<1>2. x \div unit = q <=> q * unit <= x /\ x < q * unit + unit
  BY <1>1, Quotient
<1> QED
  BY <1>1, <1>2 DEF q

\* The intervals of a group that the rules for IPv4 block, and the one that
\* depends on the group behind it.
Intervals4(n, m) ==
    \/ n < 256 \/ (2560 <= n /\ n < 2816) \/ (25664 <= n /\ n < 25728)
    \/ (32512 <= n /\ n < 32768) \/ n = 43518 \/ n = 49320
    \/ (44048 <= n /\ n < 44064) \/ n = 50706 \/ n = 50707 \/ 57344 <= n
    \/ n = 49152 /\ m < 256

\* A rule that ends inside the first group, and its subnet's first address.
ShortRule(a, b, p) ==
    /\ a \in Nat /\ b \in Nat /\ p \in 0 .. 16
    /\ Unit(p) \in Nat \ {0} /\ (a * 256 + b) % Unit(p) = 0

\* It looks at that group only.
LEMMA FirstGroup4 ==
    ASSUME NEW g \in Address4, NEW a, NEW b, NEW p, ShortRule(a, b, p)
    PROVE  InSubnet(g, Range4(a, b, 0, 0, p))
              <=> a * 256 + b <= g[1] /\ g[1] < a * 256 + b + Unit(p)
<1>1. PICK n \in Nat : n = a * 256 + b
  BY DEF ShortRule
<1>2. p \in Int /\ Unit(p) \in Nat \ {0} /\ n % Unit(p) = 0
  BY <1>1 DEF ShortRule
<1>3. Unit(p - 16) = 65536
  BY DEF Unit, ShortRule
<1>4. g[1] \in Nat /\ g[2] \in Nat /\ g[2] < 65536
  BY Groups4
<1>5. g[2] \div 65536 = 0 /\ (0 * 256 + 0) \div 65536 = 0
  BY <1>4
<1>6. InSubnet(g, Range4(a, b, 0, 0, p)) <=> g[1] \div Unit(p) = n \div Unit(p)
  BY <1>1, <1>2, <1>3, <1>5, Subnet4
<1>7. g[1] \div Unit(p) = n \div Unit(p) <=> n <= g[1] /\ g[1] < n + Unit(p)
  BY <1>2, <1>4, Aligned
<1> QED
  BY <1>1, <1>6, <1>7

LEMMA ShortRules ==
    /\ ShortRule(0, 0, 8) /\ ShortRule(10, 0, 8) /\ ShortRule(127, 0, 8)
    /\ ShortRule(100, 64, 10) /\ ShortRule(169, 254, 16) /\ ShortRule(192, 168, 16)
    /\ ShortRule(172, 16, 12) /\ ShortRule(198, 18, 15)
    /\ ShortRule(224, 0, 4) /\ ShortRule(240, 0, 4)
<1>1. /\ Unit(4) = 4096 /\ Unit(8) = 256 /\ Unit(10) = 64 /\ Unit(12) = 16
      /\ Unit(15) = 2 /\ Unit(16) = 1
  BY Units
<1>2. ShortRule(0, 0, 8) /\ ShortRule(10, 0, 8) /\ ShortRule(127, 0, 8)
  BY <1>1 DEF ShortRule
<1>3. ShortRule(100, 64, 10) /\ ShortRule(172, 16, 12) /\ ShortRule(198, 18, 15)
  BY <1>1 DEF ShortRule
<1>4. ShortRule(169, 254, 16) /\ ShortRule(192, 168, 16)
  BY <1>1 DEF ShortRule
<1>5. ShortRule(224, 0, 4) /\ ShortRule(240, 0, 4)
  BY <1>1 DEF ShortRule
<1> QED
  BY <1>2, <1>3, <1>4, <1>5

LEMMA BlockedIntervals ==
    ASSUME NEW g \in Address4
    PROVE  Blocked4(g) <=> Intervals4(g[1], g[2])
<1>1. g[1] \in Nat /\ g[1] < 65536 /\ g[2] \in Nat /\ g[2] < 65536
  BY Groups4
<1>2. /\ Unit(4) = 4096 /\ Unit(8) = 256 /\ Unit(10) = 64 /\ Unit(12) = 16
      /\ Unit(15) = 2 /\ Unit(16) = 1
  BY Units
<1>3. InSubnet(g, Range4(0, 0, 0, 0, 8)) <=> 0 <= g[1] /\ g[1] < 256
  BY <1>2, ShortRules, FirstGroup4
<1>4. InSubnet(g, Range4(10, 0, 0, 0, 8)) <=> 2560 <= g[1] /\ g[1] < 2816
  BY <1>2, ShortRules, FirstGroup4
<1>5. InSubnet(g, Range4(127, 0, 0, 0, 8)) <=> 32512 <= g[1] /\ g[1] < 32768
  BY <1>2, ShortRules, FirstGroup4
<1>6. InSubnet(g, Range4(100, 64, 0, 0, 10)) <=> 25664 <= g[1] /\ g[1] < 25728
  BY <1>2, ShortRules, FirstGroup4
<1>7. InSubnet(g, Range4(169, 254, 0, 0, 16)) <=> 43518 <= g[1] /\ g[1] < 43519
  BY <1>2, ShortRules, FirstGroup4
<1>8. InSubnet(g, Range4(192, 168, 0, 0, 16)) <=> 49320 <= g[1] /\ g[1] < 49321
  BY <1>2, ShortRules, FirstGroup4
<1>9. InSubnet(g, Range4(172, 16, 0, 0, 12)) <=> 44048 <= g[1] /\ g[1] < 44064
  BY <1>2, ShortRules, FirstGroup4
<1>10. InSubnet(g, Range4(198, 18, 0, 0, 15)) <=> 50706 <= g[1] /\ g[1] < 50708
  BY <1>2, ShortRules, FirstGroup4
<1>11. InSubnet(g, Range4(224, 0, 0, 0, 4)) <=> 57344 <= g[1] /\ g[1] < 61440
  BY <1>2, ShortRules, FirstGroup4
<1>12. InSubnet(g, Range4(240, 0, 0, 0, 4)) <=> 61440 <= g[1] /\ g[1] < 65536
  BY <1>2, ShortRules, FirstGroup4
<1>13. InSubnet(g, Range4(192, 0, 0, 0, 24)) <=> g[1] = 49152 /\ g[2] < 256
  <2>1. (192 * 256 + 0) \div 1 = 49152 /\ (0 * 256 + 0) \div 256 = 0 /\ g[1] \div 1 = g[1]
    BY <1>1
  <2>2. Unit(24) = 1 /\ Unit(24 - 16) = 256
    BY Units, 24 - 16 = 8
  <2>3. g[2] \div 256 = 0 <=> g[2] < 256
    BY <1>1
  <2> QED
    BY <2>1, <2>2, <2>3, Subnet4
<1>14. Blocked4(g) <=>
        \/ InSubnet(g, Range4(0, 0, 0, 0, 8)) \/ InSubnet(g, Range4(10, 0, 0, 0, 8))
        \/ InSubnet(g, Range4(100, 64, 0, 0, 10)) \/ InSubnet(g, Range4(127, 0, 0, 0, 8))
        \/ InSubnet(g, Range4(169, 254, 0, 0, 16)) \/ InSubnet(g, Range4(172, 16, 0, 0, 12))
        \/ InSubnet(g, Range4(192, 0, 0, 0, 24)) \/ InSubnet(g, Range4(192, 168, 0, 0, 16))
        \/ InSubnet(g, Range4(198, 18, 0, 0, 15)) \/ InSubnet(g, Range4(224, 0, 0, 0, 4))
        \/ InSubnet(g, Range4(240, 0, 0, 0, 4))
  BY ZenonT(60) DEF Blocked4, PrivateRanges4
<1> QED
  BY <1>1, <1>3, <1>4, <1>5, <1>6, <1>7, <1>8, <1>9, <1>10, <1>11, <1>12, <1>13, <1>14
  DEF Intervals4

\* What is meant by them, by the same groups.
LEMMA MeantIntervals ==
    ASSUME NEW n \in Nat, n < 65536, NEW m \in Nat
    PROVE  ReservedOctets(n \div 256, n % 256, m \div 256) <=> Intervals4(n, m)
<1>1. n \div 256 \in Nat /\ n % 256 \in 0 .. 255
  OBVIOUS
<1>2. (n \div 256) * 256 + (n % 256) = n
  OBVIOUS
<1>3. PICK a \in Nat, b \in 0 .. 255 : a = n \div 256 /\ b = n % 256 /\ a * 256 + b = n
  BY <1>1, <1>2
<1>4. PICK c \in Nat : c = m \div 256 /\ (c = 0 <=> m < 256)
  OBVIOUS
<1>5. ReservedOctets(a, b, c) <=> Intervals4(n, m)
  BY <1>3, <1>4 DEF ReservedOctets, Intervals4
<1> QED
  BY <1>3, <1>4, <1>5

LEMMA ReservedIntervals ==
    ASSUME NEW g \in Address4
    PROVE  Reserved4(g) <=> Intervals4(g[1], g[2])
<1>1. g[1] \in Nat /\ g[1] < 65536 /\ g[2] \in Nat
  BY Groups4
<1> QED
  BY <1>1, MeantIntervals DEF Reserved4

\* The rules for IPv4 are what is meant, for every address.
LEMMA JudgedInFour ==
    ASSUME NEW g \in Address4
    PROVE  Blocked4(g) <=> Reserved4(g)
BY BlockedIntervals, ReservedIntervals

-----------------------------------------------------------------------------
(* IPv6: rules.                                                            *)

LEMMA Groups6 ==
    ASSUME NEW g \in Address6, NEW i \in 1 .. 8
    PROVE  g[i] \in Group /\ g[i] \in Nat /\ g[i] < 65536
<1>1. g[i] \in Group
  BY DEF Address6
<1> QED
  BY <1>1, GroupBounds

LEMMA Subnet6 ==
    ASSUME NEW head, NEW last, NEW p
    PROVE  LET range == Range6(head, last, p) IN
           /\ range.prefix = p /\ DOMAIN range.subnet = 1 .. 8
           /\ range.subnet[1] = head /\ range.subnet[8] = last
           /\ \A i \in 2 .. 7 : range.subnet[i] = 0
<1> DEFINE subnet == <<head>> \o Zeros(6) \o <<last>>
<1>1. Zeros(6) \in Seq({0}) /\ Len(Zeros(6)) = 6 /\ \A i \in 1 .. 6 : Zeros(6)[i] = 0
  BY DEF Zeros
<1>2. /\ DOMAIN subnet = 1 .. 8
      /\ \A i \in 1 .. 8 : subnet[i] = IF i = 1 THEN head ELSE IF i = 8 THEN last ELSE 0
  BY <1>1
<1> QED
  BY <1>2 DEF Range6

\* One host.
LEMMA WholeAddress6 ==
    ASSUME NEW g \in Address6, NEW last \in Nat
    PROVE  InSubnet(g, Range6(0, last, 128)) <=> g[8] = last /\ \A i \in 1 .. 7 : g[i] = 0
<1> DEFINE range == Range6(0, last, 128)
<1>1. \A i \in 1 .. 8 : 128 - 16 * (i - 1) \in Int /\ 128 - 16 * (i - 1) >= 16
  OBVIOUS
<1>2. \A i \in 1 .. 8 : Unit(128 - 16 * (i - 1)) = 1
  BY <1>1, Units
<1>3. /\ range.prefix = 128 /\ DOMAIN range.subnet = 1 .. 8
      /\ range.subnet[8] = last /\ \A i \in 1 .. 7 : range.subnet[i] = 0
  <2>1. range.subnet[1] = 0 /\ \A i \in 2 .. 7 : range.subnet[i] = 0
    BY Subnet6
  <2> QED
    BY <2>1, Subnet6
<1> HIDE DEF range
<1>4. InSubnet(g, range)
        <=> \A i \in 1 .. 8 : g[i] \div Unit(128 - 16 * (i - 1))
                                = range.subnet[i] \div Unit(128 - 16 * (i - 1))
  BY <1>3 DEF InSubnet, Unit
<1>5. InSubnet(g, range) <=> \A i \in 1 .. 8 : g[i] \div 1 = range.subnet[i] \div 1
  BY <1>2, <1>4
<1>6. \A i \in 1 .. 8 : g[i] \div 1 = g[i] /\ range.subnet[i] \div 1 = range.subnet[i]
  <2>1. \A n \in Nat : n \div 1 = n
    OBVIOUS
  <2>2. \A i \in 1 .. 8 : g[i] \in Nat /\ range.subnet[i] \in Nat
    BY <1>3, Groups6
  <2> QED
    BY <2>1, <2>2
<1>7. InSubnet(g, range) <=> \A i \in 1 .. 8 : g[i] = range.subnet[i]
  BY <1>5, <1>6
<1> QED
  BY <1>3, <1>7 DEF range

LEMMA FirstGroup6 ==
    ASSUME NEW g \in Address6, NEW head, NEW p, ShortRule(0, head, p)
    PROVE  InSubnet(g, Range6(head, 0, p)) <=> head <= g[1] /\ g[1] < head + Unit(p)
<1> DEFINE range == Range6(head, 0, p)
<1>1. p \in 0 .. 16 /\ head \in Nat /\ Unit(p) \in Nat \ {0} /\ head % Unit(p) = 0
  BY DEF ShortRule
<1>2. \A i \in 2 .. 8 : Unit(p - 16 * (i - 1)) = 65536
  <2>1. \A i \in 2 .. 8 : p - 16 * (i - 1) \in Int /\ p - 16 * (i - 1) <= 0
    BY <1>1
  <2> QED
    BY <2>1, Units
<1>3. /\ range.prefix = p /\ DOMAIN range.subnet = 1 .. 8
      /\ range.subnet[1] = head /\ \A i \in 2 .. 8 : range.subnet[i] = 0
  <2>1. range.subnet[8] = 0 /\ \A i \in 2 .. 7 : range.subnet[i] = 0
    BY Subnet6
  <2> QED
    BY <2>1, Subnet6
<1> HIDE DEF range
<1>4. InSubnet(g, range)
        <=> \A i \in 1 .. 8 : g[i] \div Unit(p - 16 * (i - 1))
                                = range.subnet[i] \div Unit(p - 16 * (i - 1))
  BY <1>3 DEF InSubnet, Unit
<1>5. \A i \in 2 .. 8 : g[i] \div Unit(p - 16 * (i - 1))
                          = range.subnet[i] \div Unit(p - 16 * (i - 1))
  <2>1. \A n \in Nat : n < 65536 => n \div 65536 = 0
    OBVIOUS
  <2>2. \A i \in 2 .. 8 : g[i] \in Nat /\ g[i] < 65536
    BY Groups6
  <2> QED
    BY <1>2, <1>3, <2>1, <2>2
<1>6. InSubnet(g, range) <=> g[1] \div Unit(p) = head \div Unit(p)
  <2>1. p - 16 * (1 - 1) = p
    BY <1>1
  <2>2. \A i \in 1 .. 8 : i = 1 \/ i \in 2 .. 8
    OBVIOUS
  <2> QED
    BY <1>3, <1>4, <1>5, <2>1, <2>2
<1>7. g[1] \in Nat
  BY Groups6
<1> QED
  BY <1>1, <1>6, <1>7, Aligned DEF range

\* What the rules for IPv6 block before an IPv4 address is looked for.
Blocks6(g) ==
    \/ (64512 <= g[1] /\ g[1] < 65024) \/ 65152 <= g[1]
    \/ (\A i \in 1 .. 7 : g[i] = 0) /\ g[8] \in {0, 1}

LEMMA BlockedBlocks ==
    ASSUME NEW g \in Address6
    PROVE  (\E range \in PrivateRanges6 : InSubnet(g, range)) <=> Blocks6(g)
<1>1. g[1] \in Nat /\ g[1] < 65536
  BY Groups6
<1>2. Unit(7) = 512 /\ Unit(8) = 256 /\ Unit(10) = 64
  BY Units
<1>3. /\ ShortRule(0, 65152, 10) /\ ShortRule(0, 65216, 10)
      /\ ShortRule(0, 64512, 7) /\ ShortRule(0, 65280, 8)
  BY <1>2 DEF ShortRule
<1>4. /\ InSubnet(g, Range6(0, 1, 128)) <=> g[8] = 1 /\ \A i \in 1 .. 7 : g[i] = 0
      /\ InSubnet(g, Range6(0, 0, 128)) <=> g[8] = 0 /\ \A i \in 1 .. 7 : g[i] = 0
  BY WholeAddress6
<1>5. InSubnet(g, Range6(65152, 0, 10)) <=> 65152 <= g[1] /\ g[1] < 65216
  BY <1>2, <1>3, FirstGroup6
<1>6. InSubnet(g, Range6(65216, 0, 10)) <=> 65216 <= g[1] /\ g[1] < 65280
  BY <1>2, <1>3, FirstGroup6
<1>7. InSubnet(g, Range6(64512, 0, 7)) <=> 64512 <= g[1] /\ g[1] < 65024
  BY <1>2, <1>3, FirstGroup6
<1>8. InSubnet(g, Range6(65280, 0, 8)) <=> 65280 <= g[1] /\ g[1] < 65536
  BY <1>2, <1>3, FirstGroup6
<1>9. (\E range \in PrivateRanges6 : InSubnet(g, range)) <=>
        \/ InSubnet(g, Range6(0, 1, 128)) \/ InSubnet(g, Range6(0, 0, 128))
        \/ InSubnet(g, Range6(65152, 0, 10)) \/ InSubnet(g, Range6(65216, 0, 10))
        \/ InSubnet(g, Range6(64512, 0, 7)) \/ InSubnet(g, Range6(65280, 0, 8))
  BY DEF PrivateRanges6
<1> QED
  BY <1>1, <1>4, <1>5, <1>6, <1>7, <1>8, <1>9 DEF Blocks6

-----------------------------------------------------------------------------
(* IPv6: spellings and notations.                                          *)

LEMMA Sequences6 ==
    ASSUME NEW g \in Address6
    PROVE  g \in Seq(Group) /\ Len(g) = 8 /\ SubSeq(g, 1, 8) = g
<1>1. g \in Seq(Group) /\ Len(g) = 8
  <2>1. g = [i \in 1 .. 8 |-> g[i]] /\ \A i \in 1 .. 8 : g[i] \in Group
    BY DEF Address6
  <2> QED
    BY <2>1
<1> QED
  BY <1>1, SubSeqFull

LEMMA Zeroes ==
    ASSUME NEW n \in Nat
    PROVE  Zeros(n) \in Seq(Group) /\ Len(Zeros(n)) = n /\ \A i \in 1 .. n : Zeros(n)[i] = 0
BY DEF Zeros, Group

LEMMA Parts6 ==
    ASSUME NEW g \in Address6, NEW m \in 1 .. 9, NEW n \in 0 .. 8
    PROVE  /\ SubSeq(g, m, n) \in Seq(Group)
           /\ Len(SubSeq(g, m, n)) = IF m <= n THEN n - m + 1 ELSE 0
           /\ \A i \in 1 .. n - m + 1 : SubSeq(g, m, n)[i] = g[m + i - 1]
<1>1. \A i \in m .. n : g[i] \in Group
  BY Groups6
<1> QED
  BY <1>1, SubSeqProperties

LEMMA RunOfZeros ==
    ASSUME NEW g \in Address6, NEW i \in 1 .. 8, NEW j \in i .. 8, \A k \in i .. j : g[k] = 0
    PROVE  SubSeq(g, i, j) = Zeros(j - i + 1)
<1> DEFINE n == j - i + 1
<1>1. n \in Nat /\ i \in 1 .. 9 /\ j \in 0 .. 8 /\ i <= j
  OBVIOUS
<1>2. /\ SubSeq(g, i, j) \in Seq(Group) /\ Len(SubSeq(g, i, j)) = n
      /\ \A k \in 1 .. n : SubSeq(g, i, j)[k] = g[i + k - 1]
  BY <1>1, Parts6
<1>3. \A k \in 1 .. n : g[i + k - 1] = 0
  <2>1. \A k \in 1 .. n : i + k - 1 \in i .. j
    BY <1>1
  <2> QED
    BY <2>1
<1>4. Zeros(n) \in Seq(Group) /\ Len(Zeros(n)) = n /\ \A k \in 1 .. n : Zeros(n)[k] = 0
  BY <1>1, Zeroes
<1> QED
  BY <1>2, <1>3, <1>4, SeqEqual

\* Filling the gap of "::" gives back the first m groups.
LEMMA GapFilled ==
    ASSUME NEW g \in Address6, NEW m \in 1 .. 8, NEW i \in 1 .. m, NEW j \in i .. m,
           \A k \in i .. j : g[k] = 0
    PROVE  (SubSeq(g, 1, i - 1) \o Zeros(j - i + 1)) \o SubSeq(g, j + 1, m) = SubSeq(g, 1, m)
<1>1. g \in Seq(Group) /\ Len(g) = 8
  BY Sequences6
<1>2. SubSeq(g, i, j) = Zeros(j - i + 1)
  <2>1. i \in 1 .. 8 /\ j \in i .. 8
    OBVIOUS
  <2> QED
    BY <2>1, RunOfZeros
<1>3. SubSeq(g, 1, i - 1) \o SubSeq(g, i, j) = SubSeq(g, 1, j)
  <2>1. /\ i - 1 \in 1 - 1 .. Len(g) /\ j \in i - 1 .. Len(g)
        /\ 1 \in 1 .. Len(g) + 1 /\ (i - 1) + 1 = i
    BY <1>1
  <2>2. SubSeq(g, 1, i - 1) \o SubSeq(g, (i - 1) + 1, j) = SubSeq(g, 1, j)
    BY <1>1, <2>1, ConcatAdjacentSubSeq
  <2> QED
    BY <2>1, <2>2
<1>4. SubSeq(g, 1, j) \o SubSeq(g, j + 1, m) = SubSeq(g, 1, m)
  <2>1. j \in 1 - 1 .. Len(g) /\ m \in j .. Len(g) /\ 1 \in 1 .. Len(g) + 1
    BY <1>1
  <2> QED
    BY <1>1, <2>1, ConcatAdjacentSubSeq
<1> QED
  BY <1>2, <1>3, <1>4

LEMMA LastTwo ==
    ASSUME NEW g \in Address6
    PROVE  /\ Octets(g[7] \div 256, g[7] % 256, g[8] \div 256, g[8] % 256) = SubSeq(g, 7, 8)
           /\ SubSeq(g, 1, 6) \o SubSeq(g, 7, 8) = g
<1>1. g \in Seq(Group) /\ Len(g) = 8 /\ SubSeq(g, 1, 8) = g
  BY Sequences6
<1>2. SubSeq(g, 1, 6) \o SubSeq(g, 6 + 1, 8) = SubSeq(g, 1, 8)
  <2>1. 1 \in 1 .. Len(g) + 1 /\ 6 \in 1 - 1 .. Len(g) /\ 8 \in 6 .. Len(g)
    BY <1>1
  <2> QED
    BY <1>1, <2>1, ConcatAdjacentSubSeq
<1>3. SubSeq(g, 7, 8) = <<g[7], g[8]>>
  <2>1. /\ SubSeq(g, 7, 8) \in Seq(Group) /\ Len(SubSeq(g, 7, 8)) = 2
        /\ SubSeq(g, 7, 8)[1] = g[7] /\ SubSeq(g, 7, 8)[2] = g[8]
    BY Parts6
  <2>2. <<g[7], g[8]>> \in Seq(Group) /\ Len(<<g[7], g[8]>>) = 2
    BY Groups6
  <2>3. \A i \in 1 .. 2 : SubSeq(g, 7, 8)[i] = <<g[7], g[8]>>[i]
    BY <2>1
  <2> QED
    BY <2>1, <2>2, <2>3, SeqEqual
<1>4. \A n \in Nat : (n \div 256) * 256 + (n % 256) = n
  OBVIOUS
<1>5. Octets(g[7] \div 256, g[7] % 256, g[8] \div 256, g[8] % 256) = <<g[7], g[8]>>
  BY <1>4, Groups6 DEF Octets
<1> QED
  BY <1>1, <1>2, <1>3, <1>5

\* expandIpv6Groups undoes every spelling.
LEMMA Expanded ==
    ASSUME NEW g \in Address6, NEW s \in Spellings(g)
    PROVE  ExpandIpv6Groups(s) = g
<1> DEFINE quad == <<g[7] \div 256, g[7] % 256, g[8] \div 256, g[8] % 256>>
           Plain == s.head \o (IF s.elided /\ Missing(s) > 0 THEN Zeros(Missing(s)) ELSE <<>>)
                      \o s.tail \o Ipv4ToGroups(s.quad)
<1>1. g \in Seq(Group) /\ Len(g) = 8 /\ SubSeq(g, 1, 8) = g
  BY Sequences6
<1>2. quad # <<>> /\ Ipv4ToGroups(quad) = SubSeq(g, 7, 8) /\ Ipv4ToGroups(<<>>) = <<>>
  BY LastTwo DEF Ipv4ToGroups
<1>3. SubSeq(g, 1, 6) \in Seq(Group) /\ SubSeq(g, 7, 8) \in Seq(Group)
      /\ Len(SubSeq(g, 1, 6)) = 6 /\ Len(SubSeq(g, 7, 8)) = 2
  BY Parts6
<1> HIDE DEF quad
<1>4. CASE s = [head |-> g, elided |-> FALSE, tail |-> <<>>, quad |-> <<>>]
  <2>1. Plain = g \o <<>> \o <<>> \o <<>>
    BY <1>2, <1>4
  <2>2. Plain = g
    BY <1>1, <2>1, ConcatEmptySeq
  <2> QED
    BY <1>1, <2>2 DEF ExpandIpv6Groups
<1>5. CASE s = [head |-> SubSeq(g, 1, 6), elided |-> FALSE, tail |-> <<>>, quad |-> quad]
  <2>1. Plain = SubSeq(g, 1, 6) \o <<>> \o <<>> \o SubSeq(g, 7, 8)
    BY <1>2, <1>5
  <2>2. Plain = g
    BY <1>3, <2>1, ConcatEmptySeq, LastTwo
  <2> QED
    BY <1>1, <2>2 DEF ExpandIpv6Groups
<1>6. ASSUME NEW i \in 1 .. 8, NEW j \in i .. 8, \A k \in i .. j : g[k] = 0,
             s = [head |-> SubSeq(g, 1, i - 1), elided |-> TRUE,
                  tail |-> SubSeq(g, j + 1, 8), quad |-> <<>>]
      PROVE  ExpandIpv6Groups(s) = g
  <2>1. Len(SubSeq(g, 1, i - 1)) = i - 1 /\ Len(SubSeq(g, j + 1, 8)) = 8 - j
    <3>1. 1 \in 1 .. 9 /\ i - 1 \in 0 .. 8 /\ j + 1 \in 1 .. 9 /\ 8 \in 0 .. 8
      OBVIOUS
    <3> QED
      BY <3>1, Parts6
  <2>2. Missing(s) = j - i + 1 /\ j - i + 1 > 0
    BY <1>2, <1>6, <2>1 DEF Missing
  <2>3. Plain = ((SubSeq(g, 1, i - 1) \o Zeros(j - i + 1)) \o SubSeq(g, j + 1, 8)) \o <<>>
    BY <1>2, <1>6, <2>2
  <2>4. (SubSeq(g, 1, i - 1) \o Zeros(j - i + 1)) \o SubSeq(g, j + 1, 8) = g
    <3>1. 8 \in 1 .. 8
      OBVIOUS
    <3>2. (SubSeq(g, 1, i - 1) \o Zeros(j - i + 1)) \o SubSeq(g, j + 1, 8) = SubSeq(g, 1, 8)
      BY <1>6, <3>1, GapFilled, Zenon
    <3> QED
      BY <1>1, <3>2
  <2>5. Plain = g
    BY <1>1, <2>3, <2>4, ConcatEmptySeq
  <2> QED
    BY <1>1, <2>5 DEF ExpandIpv6Groups
<1>7. ASSUME NEW i \in 1 .. 6, NEW j \in i .. 6, \A k \in i .. j : g[k] = 0,
             s = [head |-> SubSeq(g, 1, i - 1), elided |-> TRUE,
                  tail |-> SubSeq(g, j + 1, 6), quad |-> quad]
      PROVE  ExpandIpv6Groups(s) = g
  <2>1. Len(SubSeq(g, 1, i - 1)) = i - 1 /\ Len(SubSeq(g, j + 1, 6)) = 6 - j
    <3>1. 1 \in 1 .. 9 /\ i - 1 \in 0 .. 8 /\ j + 1 \in 1 .. 9 /\ 6 \in 0 .. 8
      OBVIOUS
    <3> QED
      BY <3>1, Parts6
  <2>2. Missing(s) = j - i + 1 /\ j - i + 1 > 0
    <3>1. Missing(s) = 8 - Len(SubSeq(g, 1, i - 1)) - Len(SubSeq(g, j + 1, 6))
                         - Len(SubSeq(g, 7, 8))
      BY <1>2, <1>7 DEF Missing
    <3> QED
      BY <1>3, <2>1, <3>1
  <2>3. Plain = ((SubSeq(g, 1, i - 1) \o Zeros(j - i + 1)) \o SubSeq(g, j + 1, 6))
                   \o SubSeq(g, 7, 8)
    BY <1>2, <1>7, <2>2
  <2>4. (SubSeq(g, 1, i - 1) \o Zeros(j - i + 1)) \o SubSeq(g, j + 1, 6) = SubSeq(g, 1, 6)
    <3>1. 6 \in 1 .. 8
      OBVIOUS
    <3> QED
      BY <1>7, <3>1, GapFilled, Zenon
  <2>5. Plain = g
    BY <2>3, <2>4, LastTwo
  <2> QED
    BY <1>1, <2>5 DEF ExpandIpv6Groups
<1>8. \/ s = [head |-> g, elided |-> FALSE, tail |-> <<>>, quad |-> <<>>]
      \/ s = [head |-> SubSeq(g, 1, 6), elided |-> FALSE, tail |-> <<>>, quad |-> quad]
      \/ \E run \in (1 .. 8) \X (1 .. 8) :
            /\ run[1] <= run[2] /\ \A i \in run[1] .. run[2] : g[i] = 0
            /\ \/ s = [head |-> SubSeq(g, 1, run[1] - 1), elided |-> TRUE,
                       tail |-> SubSeq(g, run[2] + 1, 8), quad |-> <<>>]
               \/ /\ run[2] <= 6
                  /\ s = [head |-> SubSeq(g, 1, run[1] - 1), elided |-> TRUE,
                          tail |-> SubSeq(g, run[2] + 1, 6), quad |-> quad]
  BY ZenonT(60) DEF Spellings, quad
<1>9. ASSUME NEW run \in (1 .. 8) \X (1 .. 8),
             run[1] <= run[2], \A i \in run[1] .. run[2] : g[i] = 0,
             \/ s = [head |-> SubSeq(g, 1, run[1] - 1), elided |-> TRUE,
                     tail |-> SubSeq(g, run[2] + 1, 8), quad |-> <<>>]
             \/ /\ run[2] <= 6
                /\ s = [head |-> SubSeq(g, 1, run[1] - 1), elided |-> TRUE,
                        tail |-> SubSeq(g, run[2] + 1, 6), quad |-> quad]
      PROVE  ExpandIpv6Groups(s) = g
  <2>1. PICK i \in 1 .. 8, j \in 1 .. 8 : i = run[1] /\ j = run[2]
    OBVIOUS
  <2>2. j \in i .. 8 /\ (j <= 6 => i \in 1 .. 6 /\ j \in i .. 6)
    BY <1>9, <2>1
  <2>3. \A k \in i .. j : g[k] = 0
    BY <1>9, <2>1
  <2>4. CASE s = [head |-> SubSeq(g, 1, i - 1), elided |-> TRUE,
                  tail |-> SubSeq(g, j + 1, 8), quad |-> <<>>]
    BY <1>6, <2>2, <2>3, <2>4
  <2>5. CASE j <= 6 /\ s = [head |-> SubSeq(g, 1, i - 1), elided |-> TRUE,
                            tail |-> SubSeq(g, j + 1, 6), quad |-> quad]
    BY <1>7, <2>2, <2>3, <2>5
  <2> QED
    BY <1>9, <2>1, <2>4, <2>5
<1> QED
  BY <1>4, <1>5, <1>8, <1>9

\* The notations, by the groups that tell them.
LEMMA Notations6 ==
    ASSUME NEW g \in Address6
    PROVE  /\ SubSeq(g, 1, 6) = <<100, 65435>> \o Zeros(4) => g[1] = 100
           /\ Mapped(g) => g[1] = 0
           /\ SubSeq(g, 1, 7) = Zeros(7) <=> \A i \in 1 .. 7 : g[i] = 0
           /\ SubSeq(g, 7, 8) \in Address4 /\ SubSeq(g, 2, 3) \in Address4
           /\ SubSeq(g, 7, 8) # <<>> /\ SubSeq(g, 2, 3) # <<>>
<1>1. SubSeq(g, 1, 6)[1] = g[1]
  BY Parts6
<1>2. (<<100, 65435>> \o Zeros(4))[1] = 100
  BY Zeroes
<1>3. (Zeros(5) \o <<65535>>)[1] = 0
  BY Zeroes
<1>4. SubSeq(g, 1, 7) = Zeros(7) <=> \A i \in 1 .. 7 : g[i] = 0
  <2>1. /\ SubSeq(g, 1, 7) \in Seq(Group) /\ Len(SubSeq(g, 1, 7)) = 7
        /\ \A i \in 1 .. 7 : SubSeq(g, 1, 7)[i] = g[1 + i - 1]
    BY Parts6
  <2>2. \A i \in 1 .. 7 : 1 + i - 1 = i
    OBVIOUS
  <2>3. Zeros(7) \in Seq(Group) /\ Len(Zeros(7)) = 7 /\ \A i \in 1 .. 7 : Zeros(7)[i] = 0
    BY Zeroes
  <2>4. ASSUME \A i \in 1 .. 7 : g[i] = 0 PROVE SubSeq(g, 1, 7) = Zeros(7)
    BY <2>1, <2>2, <2>3, <2>4, SeqEqual
  <2>5. ASSUME SubSeq(g, 1, 7) = Zeros(7) PROVE \A i \in 1 .. 7 : g[i] = 0
    BY <2>1, <2>2, <2>3, <2>5
  <2> QED
    BY <2>4, <2>5
<1>5. ASSUME NEW i \in 1 .. 7, NEW j, j = i + 1
      PROVE  SubSeq(g, i, j) \in Address4 /\ SubSeq(g, i, j) # <<>>
  <2>1. i \in 1 .. 9 /\ j \in 0 .. 8 /\ i <= j /\ j - i + 1 = 2
    BY <1>5
  <2>2. SubSeq(g, i, j) \in Seq(Group) /\ Len(SubSeq(g, i, j)) = 2
    BY <2>1, Parts6
  <2>3. SubSeq(g, i, j) \in [1 .. 2 -> Group]
    BY <2>2, LenProperties
  <2>4. SubSeq(g, i, j) # <<>>
    BY <2>2, Len(<<>>) = 0, 2 # 0, Zenon
  <2> QED
    BY <2>3, <2>4 DEF Address4
<1>6. SubSeq(g, 7, 8) \in Address4 /\ SubSeq(g, 7, 8) # <<>>
  BY <1>5, 8 = 7 + 1
<1>7. SubSeq(g, 2, 3) \in Address4 /\ SubSeq(g, 2, 3) # <<>>
  BY <1>5, 3 = 2 + 1
<1>8. SubSeq(g, 1, 6) = <<100, 65435>> \o Zeros(4) => g[1] = 100
  BY <1>1, <1>2
<1>9. Mapped(g) => g[1] = 0
  BY <1>1, <1>3 DEF Mapped
<1> QED
  BY <1>4, <1>6, <1>7, <1>8, <1>9

\* An IPv6 address is judged by the IPv4 address that it carries, or else by its
\* own groups.
LEMMA JudgedInSix ==
    ASSUME NEW g \in Address6, NEW s \in Spellings(g)
    PROVE  IsPrivateOrLoopback([kind |-> "address", version |-> 6, groups |-> g, spelling |-> s])
              <=> Reserved6(g)
<1> DEFINE embedded == ExtractEmbeddedIpv4(s)
           prefix == SubSeq(g, 1, 6)
           map == Zeros(5) \o <<65535>>
           nat64 == <<100, 65435>> \o Zeros(4)
           Nat64 == prefix = nat64
           Outer == IF embedded # <<>> THEN Blocked4(embedded) ELSE Blocked6(g)
<1>1. ExpandIpv6Groups(s) = g /\ g # <<>>
  BY Expanded, Sequences6
<1>2. embedded = IF Nat64 THEN SubSeq(g, 7, 8)
                 ELSE IF g[1] = 8194 THEN SubSeq(g, 2, 3) ELSE <<>>
  <2>1. CASE Nat64
    BY <1>1, <2>1 DEF ExtractEmbeddedIpv4
  <2>2. CASE ~Nat64 /\ g[1] = 8194
    BY <1>1, <2>2 DEF ExtractEmbeddedIpv4
  <2>3. CASE ~Nat64 /\ g[1] # 8194
    BY <1>1, <2>3 DEF ExtractEmbeddedIpv4
  <2> HIDE DEF embedded, Nat64
  <2> QED
    BY <2>1, <2>2, <2>3
<1>3. Mapped(g) <=> prefix = map
  BY DEF Mapped
<1>4. Carried(g) = IF Mapped(g) \/ Nat64 THEN {SubSeq(g, 7, 8)}
                   ELSE IF g[1] = 8194 THEN {SubSeq(g, 2, 3)} ELSE {}
  <2>1. Carried(g) = IF prefix \in {map, nat64} THEN {SubSeq(g, 7, 8)}
                     ELSE IF g[1] = 8194 THEN {SubSeq(g, 2, 3)} ELSE {}
    BY DEF Carried
  <2> HIDE DEF prefix, map, nat64
  <2>2. prefix \in {map, nat64} <=> Mapped(g) \/ Nat64
    BY <1>3
  <2> HIDE DEF Nat64
  <2> QED
    BY <2>1, <2>2
<1>5. /\ Blocked4(SubSeq(g, 7, 8)) <=> Reserved4(SubSeq(g, 7, 8))
      /\ Blocked4(SubSeq(g, 2, 3)) <=> Reserved4(SubSeq(g, 2, 3))
  BY JudgedInFour, Notations6
<1>6. Blocked6(g) <=> Blocks6(g) \/ (Mapped(g) /\ Blocked4(SubSeq(g, 7, 8)))
  BY BlockedBlocks DEF Blocked6
<1>7. Reserved6(g) <=> Blocks6(g) \/ \E inner \in Carried(g) : Reserved4(inner)
  <2>1. g[1] \in Nat /\ g[1] < 65536
    BY Groups6
  <2>2. g[1] \in 64512 .. 65023 \cup 65152 .. 65535
           <=> (64512 <= g[1] /\ g[1] < 65024) \/ 65152 <= g[1]
    BY <2>1
  <2> QED
    BY <2>2, Notations6 DEF Reserved6, Blocks6
<1>8. g[1] \in {100, 8194} => ~Blocks6(g)
  BY DEF Blocks6
<1>9. /\ Nat64 => g[1] = 100
      /\ Mapped(g) => g[1] = 0
      /\ SubSeq(g, 7, 8) # <<>> /\ SubSeq(g, 2, 3) # <<>>
  BY Notations6
<1> HIDE DEF embedded, Nat64
<1>10. Outer <=> Reserved6(g)
  <2>1. CASE Nat64
    <3>1. embedded = SubSeq(g, 7, 8) /\ embedded # <<>> /\ g[1] = 100
      BY <1>2, <1>9, <2>1
    <3>2. Carried(g) = {SubSeq(g, 7, 8)} /\ ~Blocks6(g)
      BY <1>4, <1>8, <2>1, <3>1
    <3> QED
      BY <1>5, <1>7, <3>1, <3>2
  <2>2. CASE ~Nat64 /\ g[1] = 8194
    <3>1. embedded = SubSeq(g, 2, 3) /\ embedded # <<>> /\ ~Mapped(g)
      BY <1>2, <1>9, <2>2
    <3>2. Carried(g) = {SubSeq(g, 2, 3)} /\ ~Blocks6(g)
      BY <1>4, <1>8, <2>2, <3>1
    <3> QED
      BY <1>5, <1>7, <3>1, <3>2
  <2>3. CASE ~Nat64 /\ g[1] # 8194
    <3>1. embedded = <<>> /\ Carried(g) = IF Mapped(g) THEN {SubSeq(g, 7, 8)} ELSE {}
      BY <1>2, <1>4, <2>3
    <3> QED
      BY <1>5, <1>6, <1>7, <3>1
  <2> QED
    BY <2>1, <2>2, <2>3
<1> QED
  BY <1>10 DEF IsPrivateOrLoopback, embedded

-----------------------------------------------------------------------------
(* Every address that is judged.                                           *)

LEMMA JudgedAsMeant ==
    ASSUME NEW i \in Inputs, i.kind = "address"
    PROVE  IsPrivateOrLoopback(i) <=> Reserved(i)
<1>1. CASE i \in AddressInputs4
  <2>1. i.version = 4 /\ i.groups \in Address4
    <3>1. i.version = 4 /\ i.groups \in Addresses4
      BY <1>1 DEF AddressInputs4
    <3> QED
      BY <3>1, AddressAssumption
  <2> QED
    BY <2>1, JudgedInFour DEF IsPrivateOrLoopback, Reserved
<1>2. ASSUME NEW g \in Addresses6, NEW s \in Spellings(g),
             i = [kind |-> "address", version |-> 6, groups |-> g, spelling |-> s]
      PROVE  IsPrivateOrLoopback(i) <=> Reserved(i)
  <2>1. g \in Address6
    BY AddressAssumption
  <2>2. Reserved(i) <=> Reserved6(g)
    BY <1>2 DEF Reserved
  <2> QED
    BY <1>2, <2>1, <2>2, JudgedInSix
<1>3. \/ i \in AddressInputs4
      \/ \E g \in Addresses6 : \E s \in Spellings(g) :
            i = [kind |-> "address", version |-> 6, groups |-> g, spelling |-> s]
  <2>1. i \notin CommandLineInputs /\ i \notin QueryInputs
    BY DEF CommandLineInputs, QueryInputs
  <2>2. ASSUME i \in ExampleInputs PROVE FALSE
    <3>1. \A want : \A x \in AskedFor(want) : x.kind = "example"
      BY DEF AskedFor
    <3>2. i.kind = "example"
      BY <2>2, <3>1 DEF ExampleInputs
    <3> QED
      BY <3>2
  <2>3. i \in AddressInputs6 =>
           \E g \in Addresses6 : \E s \in Spellings(g) :
              i = [kind |-> "address", version |-> 6, groups |-> g, spelling |-> s]
    BY DEF AddressInputs6
  <2> QED
    BY <2>1, <2>2, <2>3 DEF Inputs
<1> QED
  BY <1>1, <1>2, <1>3

\* An address is blocked exactly if it is reserved, whichever address it is and
\* however it is spelled (isPrivateOrLoopbackIp).
THEOREM AddressesJudgedHolds == Spec => []AddressesJudged
<1> DEFINE Inv == input \in Inputs /\ AddressesJudged
<1>1. Init => Inv
  BY DEF Init, NotYet, AddressesJudged
<1>2. Inv /\ [Next]_vars => Inv'
  <2> SUFFICES ASSUME Inv, [Next]_vars PROVE Inv'
    OBVIOUS
  <2>1. ASSUME NEW kind, NEW result, Decided(kind, result), kind # "address" PROVE Inv'
    BY <2>1 DEF Decided, AddressesJudged
  <2>2. ASSUME JudgeAddress PROVE Inv'
    <3>1. input' = input /\ output'.result = IsPrivateOrLoopback(input)
      BY <2>2 DEF JudgeAddress, Decided
    <3>2. IsPrivateOrLoopback(input) <=> Reserved(input)
      BY <2>2, JudgedAsMeant DEF JudgeAddress
    <3> QED
      BY <3>1, <3>2 DEF AddressesJudged
  <2>3. ASSUME UNCHANGED vars PROVE Inv'
    BY <2>3 DEF vars, AddressesJudged
  <2> QED
    BY <2>1, <2>2, <2>3 DEF Next, ReadCommandLine, FindExample, CheckQuery
<1> QED
  BY <1>1, <1>2, PTL DEF Spec

-----------------------------------------------------------------------------
(* Examples.  Names of any length, and slashes around them.                *)

\* The texts between slashes.
Segment == STRING \cup {"", "tree"}

\* The text that is left between two slashes, or beside one at an end.
Nothing == ""

LEMMA NameProperties ==
    ASSUME NEW p \in Name
    PROVE  /\ p \in Seq(Segment) /\ p # <<>> /\ Len(p) \in Nat /\ Len(p) > 0
           /\ DOMAIN p = 1 .. Len(p) /\ \A i \in 1 .. Len(p) : p[i] \in Segment /\ p[i] # Nothing
<1> DEFINE S == STRING \ {""}
<1>1. p \in Seq(S) /\ p # <<>>
  BY DEF Name
<1>2. S \subseteq Segment /\ Nothing \notin S
  BY DEF Segment, Nothing
<1> HIDE DEF S
<1>3. p \in [1 .. Len(p) -> S] /\ Len(p) \in Nat /\ DOMAIN p = 1 .. Len(p)
  BY <1>1, LenProperties
<1>4. p \in Seq(Segment)
  BY <1>1, <1>2, SeqMonotonic
<1>5. Len(p) # 0
  BY <1>1
<1> QED
  BY <1>1, <1>2, <1>3, <1>4, <1>5

LEMMA RootProperties == Root \in Seq(Segment) /\ Len(Root) = 1 /\ Root[1] = Nothing
<1>1. Nothing \in Segment /\ Root = <<Nothing>>
  BY DEF Segment, Nothing, Root
<1> QED
  BY <1>1

LEMMA ExtremesAre ==
    ASSUME NEW S \in SUBSET Int, NEW a \in S, NEW b \in S, \A x \in S : a <= x /\ x <= b
    PROVE  Min(S) = a /\ Max(S) = b
<1>1. \A x \in S : (\A y \in S : x <= y) => x = a
  OBVIOUS
<1>2. \A x \in S : (\A y \in S : x >= y) => x = b
  OBVIOUS
<1>3. Min(S) = a
  BY <1>1 DEF Min
<1>4. Max(S) = b
  BY <1>2 DEF Max
<1> QED
  BY <1>3, <1>4

LEMMA StrippedPlain == \A p \in Name : Stripped(p) = p
<1> SUFFICES ASSUME NEW p \in Name PROVE Stripped(p) = p
  OBVIOUS
<1> DEFINE parts == {i \in DOMAIN p : p[i] # Nothing}
<1>1. parts = 1 .. Len(p) /\ Len(p) \in Nat /\ Len(p) > 0 /\ p \in Seq(Segment)
  BY NameProperties
<1> HIDE DEF parts
<1>2. Min(parts) = 1 /\ Max(parts) = Len(p) /\ parts # {}
  <2>1. /\ parts \in SUBSET Int /\ 1 \in parts /\ Len(p) \in parts
        /\ \A x \in parts : 1 <= x /\ x <= Len(p)
    BY <1>1
  <2> QED
    BY <2>1, ExtremesAre
<1>3. SubSeq(p, 1, Len(p)) = p
  BY <1>1, SubSeqFull
<1> QED
  BY <1>2, <1>3 DEF Stripped, parts, Nothing

LEMMA StrippedSlashed == \A p \in Name : Stripped(Root \o p \o Root) = p
<1> SUFFICES ASSUME NEW p \in Name PROVE Stripped(Root \o p \o Root) = p
  OBVIOUS
<1> DEFINE s == (Root \o p) \o Root
           n == Len(p)
           parts == {i \in DOMAIN s : s[i] # Nothing}
<1>1. /\ p \in Seq(Segment) /\ n \in Nat /\ n > 0
      /\ \A i \in 1 .. n : p[i] \in Segment /\ p[i] # Nothing
  BY NameProperties
<1>2. Root \in Seq(Segment) /\ Len(Root) = 1 /\ Root[1] = Nothing
  BY RootProperties
<1>3. /\ Root \o p \in Seq(Segment) /\ Len(Root \o p) = n + 1
      /\ \A i \in 1 .. n + 1 : (Root \o p)[i] = IF i <= 1 THEN Root[i] ELSE p[i - 1]
  <2>1. /\ Root \o p \in Seq(Segment) /\ Len(Root \o p) = Len(Root) + n
        /\ \A i \in 1 .. Len(Root) + n :
              (Root \o p)[i] = IF i <= Len(Root) THEN Root[i] ELSE p[i - Len(Root)]
    BY <1>1, <1>2, ConcatProperties
  <2>2. Len(Root) + n = n + 1
    BY <1>1, <1>2
  <2> HIDE DEF n
  <2> QED
    BY <1>2, <2>1, <2>2
<1>4. /\ s \in Seq(Segment) /\ Len(s) = n + 2 /\ DOMAIN s = 1 .. n + 2
      /\ \A i \in 1 .. n + 2 :
            s[i] = IF i <= n + 1 THEN (Root \o p)[i] ELSE Root[i - (n + 1)]
  BY <1>1, <1>2, <1>3, ConcatProperties, LenProperties
<1> HIDE DEF s, n
<1>5. s[1] = Nothing /\ s[n + 2] = Nothing /\ \A i \in 1 .. n : s[i + 1] = p[i]
  <2>1. /\ 1 \in 1 .. n + 2 /\ 1 \in 1 .. n + 1 /\ 1 <= n + 1
        /\ n + 2 \in 1 .. n + 2 /\ ~(n + 2 <= n + 1) /\ (n + 2) - (n + 1) = 1
    BY <1>1
  <2>2. s[1] = Nothing
    BY <1>2, <1>3, <1>4, <2>1
  <2>3. s[n + 2] = Nothing
    BY <1>2, <1>4, <2>1
  <2>4. ASSUME NEW i \in 1 .. n PROVE s[i + 1] = p[i]
    <3>1. /\ i + 1 \in 1 .. n + 2 /\ i + 1 \in 1 .. n + 1 /\ i + 1 <= n + 1
          /\ ~(i + 1 <= 1) /\ (i + 1) - 1 = i
      BY <1>1
    <3>2. s[i + 1] = (Root \o p)[i + 1] /\ (Root \o p)[i + 1] = p[(i + 1) - 1]
      BY <1>3, <1>4, <3>1
    <3> QED
      BY <3>1, <3>2
  <2> QED
    BY <2>2, <2>3, <2>4
<1>6. parts = 2 .. n + 1
  <2>1. ASSUME NEW i \in 2 .. n + 1 PROVE s[i] # Nothing
    <3>1. i - 1 \in 1 .. n /\ s[(i - 1) + 1] = p[i - 1]
      BY <1>1, <1>5
    <3> QED
      BY <1>1, <3>1
  <2> QED
    BY <1>1, <1>4, <1>5, <2>1
<1> HIDE DEF parts
<1>7. Min(parts) = 2 /\ Max(parts) = n + 1 /\ parts # {}
  <2>1. /\ parts \in SUBSET Int /\ 2 \in parts /\ n + 1 \in parts
        /\ \A x \in parts : 2 <= x /\ x <= n + 1
    BY <1>1, <1>6
  <2>2. n + 1 \in Int
    BY <1>1
  <2> QED
    BY <2>1, <2>2, ExtremesAre
<1>8. SubSeq(s, 2, n + 1) = p
  <2> DEFINE t == SubSeq(s, 2, n + 1)
  <2>1. \A i \in 2 .. n + 1 : s[i] \in Segment
    BY <1>1, <1>4
  <2>2. /\ t \in Seq(Segment) /\ Len(t) = n
        /\ \A i \in 1 .. n : t[i] = s[i + 1]
    <3>1. /\ t \in Seq(Segment) /\ Len(t) = IF 2 <= n + 1 THEN (n + 1) - 2 + 1 ELSE 0
          /\ \A i \in 1 .. (n + 1) - 2 + 1 : t[i] = s[2 + i - 1]
      BY <1>1, <2>1, SubSeqProperties
    <3> HIDE DEF t
    <3> QED
      BY <1>1, <3>1
  <2> HIDE DEF t
  <2>3. \A i \in 1 .. n : t[i] = p[i]
    BY <1>5, <2>2
  <2>4. t = p
    BY <1>1, <2>2, <2>3, SeqEqual DEF n
  <2> QED
    BY <2>4 DEF t
<1> QED
  BY <1>7, <1>8 DEF Stripped, parts, s, Nothing

\* A path is cut off the end of a branch and itself.
LEMMA CutOffAtEnd ==
    ASSUME NEW b \in Name, NEW p \in Name
    PROVE  CutOff(b \o p, p) = b
<1> DEFINE t == b \o p
           m == Len(b)
           n == Len(p)
<1>1. b \in Seq(Segment) /\ p \in Seq(Segment) /\ m \in Nat /\ m > 0 /\ n \in Nat /\ n > 0
  BY NameProperties
<1>2. /\ t \in Seq(Segment) /\ Len(t) = m + n
      /\ \A i \in 1 .. m + n : t[i] = IF i <= m THEN b[i] ELSE p[i - m]
  BY <1>1, ConcatProperties
<1> HIDE DEF t
<1>3. IsSuffix(p, t)
  <2> DEFINE x == Reverse(p)
             y == Reverse(t)
  <2>1. x \in Seq(Segment) /\ Len(x) = n /\ \A i \in 1 .. n : x[i] = p[(n - i) + 1]
    <3>1. x = [i \in 1 .. n |-> p[(n - i) + 1]]
      BY DEF Reverse
    <3>2. \A i \in 1 .. n : (n - i) + 1 \in 1 .. n
      BY <1>1
    <3>3. \A i \in 1 .. n : p[(n - i) + 1] \in Segment
      BY <3>2, NameProperties
    <3> HIDE DEF n, x
    <3> QED
      BY <1>1, <3>1, <3>3
  <2>2. y \in Seq(Segment) /\ Len(y) = m + n /\ \A i \in 1 .. m + n : y[i] = t[(m + n - i) + 1]
    <3>1. y = [i \in 1 .. m + n |-> t[(m + n - i) + 1]]
      BY <1>2 DEF Reverse
    <3>2. \A i \in 1 .. m + n : (m + n - i) + 1 \in 1 .. m + n
      BY <1>1
    <3>3. \A i \in 1 .. m + n : t[(m + n - i) + 1] \in Segment
      BY <1>2, <3>2
    <3> HIDE DEF n, m, y
    <3> QED
      BY <1>1, <3>1, <3>3
  <2> HIDE DEF x, y, m, n
  <2>3. ASSUME NEW i \in 1 .. n PROVE x[i] = y[i]
    <3> DEFINE j == (m + n - i) + 1
    <3>1. /\ j \in 1 .. m + n /\ ~(j <= m) /\ i \in 1 .. m + n
          /\ j - m = (n - i) + 1
      BY <1>1
    <3>2. y[i] = t[j] /\ x[i] = p[(n - i) + 1]
      BY <2>1, <2>2, <3>1
    <3> HIDE DEF j
    <3>3. t[j] = p[j - m]
      BY <1>2, <3>1
    <3> QED
      BY <3>1, <3>2, <3>3
  <2> DEFINE u == SubSeq(x, 1, n)
             v == SubSeq(y, 1, n)
  <2>4. u = x
    BY <2>1, SubSeqFull
  <2>5. v \in Seq(Segment) /\ Len(v) = n /\ \A i \in 1 .. n : v[i] = y[i]
    <3>1. \A i \in 1 .. n : y[i] \in Segment
      BY <1>1, <2>2
    <3>2. /\ v \in Seq(Segment) /\ Len(v) = IF 1 <= n THEN n - 1 + 1 ELSE 0
          /\ \A i \in 1 .. n - 1 + 1 : v[i] = y[1 + i - 1]
      BY <1>1, <3>1, SubSeqProperties
    <3> HIDE DEF v
    <3> QED
      BY <1>1, <3>2
  <2> HIDE DEF u, v
  <2>6. v = x
    <3>1. Len(v) = Len(x) /\ \A i \in 1 .. Len(v) : v[i] = x[i]
      BY <2>1, <2>3, <2>5
    <3> QED
      BY <2>1, <2>5, <3>1, SeqEqual
  <2>7. Len(x) = n /\ Len(x) <= Len(y)
    BY <1>1, <2>1, <2>2
  <2>8. IsPrefix(x, y)
    BY <2>4, <2>6, <2>7 DEF IsPrefix, u, v
  <2> QED
    BY <2>8 DEF IsSuffix, x, y
<1>4. SubSeq(t, 1, m) = b
  <2>1. SubSeq(t, 1, m) = SubSeq(b, 1, m)
    BY <1>1, SubSeqOfConcat1 DEF t
  <2> QED
    BY <1>1, <2>1, SubSeqFull
<1>5. Len(t) - n = m /\ n < Len(t)
  BY <1>1, <1>2
<1>6. CutOff(t, p) = b
  BY <1>3, <1>4, <1>5 DEF CutOff
<1> QED
  BY <1>6 DEF t

-----------------------------------------------------------------------------
(* Examples: a tree URL has the branch and the path in one.                *)

LEMMA InFront ==
    ASSUME NEW S, NEW x \in S, NEW s \in Seq(S)
    PROVE  /\ <<x>> \o s \in Seq(S) /\ Len(<<x>> \o s) = Len(s) + 1
           /\ Head(<<x>> \o s) = x /\ Tail(<<x>> \o s) = s
           /\ \A i \in 1 .. Len(s) : (<<x>> \o s)[i + 1] = s[i]
OBVIOUS

LEMMA Behind ==
    ASSUME NEW S, NEW x \in S, NEW s \in Seq(S)
    PROVE  /\ s \o <<x>> \in Seq(S) /\ s \o <<x>> # <<>>
           /\ Last(s \o <<x>>) = x /\ Front(s \o <<x>>) = s
<1>1. s \o <<x>> \in Seq(S) /\ Len(s \o <<x>>) = Len(s) + 1 /\ Len(s) \in Nat
  OBVIOUS
<1>2. Last(s \o <<x>>) = x
  BY <1>1 DEF Last
<1>3. SubSeq(s \o <<x>>, 1, Len(s)) = s
  <2>1. CASE Len(s) = 0
    <3>1. SubSeq(s \o <<x>>, 1, 0) = <<>> /\ s = <<>>
      BY <2>1, SubSeqEmpty
    <3> QED
      BY <2>1, <3>1
  <2>2. CASE Len(s) # 0
    <3>1. 1 \in 1 .. Len(s) /\ Len(s) \in 1 .. Len(s) /\ <<x>> \in Seq(S)
      BY <1>1, <2>2
    <3>2. SubSeq(s \o <<x>>, 1, Len(s)) = SubSeq(s, 1, Len(s))
      BY <3>1, SubSeqOfConcat1
    <3> QED
      BY <3>2, SubSeqFull
  <2> QED
    BY <2>1, <2>2
<1>4. (Len(s) + 1) - 1 = Len(s)
  BY <1>1
<1>5. Front(s \o <<x>>) = s
  BY <1>1, <1>3, <1>4 DEF Front
<1> QED
  BY <1>1, <1>2, <1>5

\* A branch and the path behind it are a name again.
LEMMA NamesJoined ==
    ASSUME NEW b \in Name, NEW p \in Name
    PROVE  b \o p \in Name
<1> DEFINE S == STRING \ {""}
<1>1. b \in Seq(S) /\ p \in Seq(S) /\ b # <<>>
  BY DEF Name
<1> HIDE DEF S
<1>2. b \o p \in Seq(S) /\ b \o p # <<>>
  BY <1>1
<1> QED
  BY <1>2 DEF Name, S

\* The flag says the path, whatever slashes are around it.
LEMMA FlagStripped ==
    ASSUME NEW want, want.path \in Name, want.flagged, want.slashed \in BOOLEAN
    PROVE  ExamplePath(want) # NoPath /\ Stripped(ExamplePath(want)) = want.path
<1>1. CASE ~want.slashed
  <2>1. ExamplePath(want) = want.path
    BY <1>1 DEF ExamplePath
  <2> QED
    BY <2>1, StrippedPlain, NameProperties DEF NoPath
<1>2. CASE want.slashed
  <2>1. ExamplePath(want) = Root \o want.path \o Root
    BY <1>2 DEF ExamplePath
  <2>2. Root \o want.path \o Root # <<>>
    <3>1. Root \in Seq(Segment) /\ Root # <<>>
      <4>1. Len(Root) # Len(<<>>)
        BY RootProperties
      <4> QED
        BY <4>1, RootProperties
    <3>2. Root \o want.path \in Seq(Segment)
      BY <3>1, NameProperties
    <3> QED
      BY <3>1, <3>2, ConcatEqualIffEmpty
  <2> QED
    BY <2>1, <2>2, StrippedSlashed DEF NoPath
<1> QED
  BY <1>1, <1>2

\* The parts of the URL of a tree: what is behind "tree" is a name, and perhaps
\* a slash.
LEMMA TreeParts ==
    ASSUME NEW named \in Name, NEW end \in {<<>>, Root}, NEW combined, combined = named \o end,
           NEW parts, parts = <<"tree">> \o combined
    PROVE  /\ Tail(parts) = combined
           /\ parts \notin {<<>>, Root} /\ parts[1] = "tree" /\ ~(Len(parts) < 2)
           /\ parts[2] # Nothing
           /\ (IF Last(combined) = Nothing THEN Front(combined) ELSE combined) = named
<1>1. /\ named \in Seq(Segment) /\ Len(named) \in Nat /\ Len(named) > 0
      /\ \A i \in 1 .. Len(named) : named[i] # Nothing
  BY NameProperties
<1>2. /\ end \in Seq(Segment) /\ Len(end) \in Nat /\ "tree" \in Segment
      /\ Nothing \in Segment /\ Nothing # "tree" /\ Root = <<Nothing>>
  <2>1. Root \in Seq(Segment) /\ <<>> \in Seq(Segment)
    BY RootProperties
  <2>2. end \in Seq(Segment)
    BY <2>1
  <2>3. "tree" \in Segment /\ Nothing \in Segment /\ Nothing # "tree" /\ Root = <<Nothing>>
    BY DEF Segment, Nothing, Root
  <2> QED
    BY <2>2, <2>3
<1>3. /\ combined \in Seq(Segment) /\ Len(combined) = Len(named) + Len(end)
      /\ \A i \in 1 .. Len(named) + Len(end) :
            combined[i] = IF i <= Len(named) THEN named[i] ELSE end[i - Len(named)]
  BY <1>1, <1>2, ConcatProperties
<1>4. /\ parts \in Seq(Segment) /\ Len(parts) = Len(combined) + 1
      /\ Head(parts) = "tree" /\ Tail(parts) = combined
      /\ \A i \in 1 .. Len(combined) : parts[i + 1] = combined[i]
  BY <1>2, <1>3, InFront
<1>5. 1 \in 1 .. Len(combined) /\ 1 \in 1 .. Len(named) /\ 1 <= Len(named) /\ ~(Len(parts) < 2)
  BY <1>1, <1>2, <1>3, <1>4
<1>6. parts[2] # Nothing
  <2>1. combined[1] = named[1] /\ named[1] # Nothing
    BY <1>1, <1>3, <1>5
  <2>2. parts[1 + 1] = combined[1]
    BY <1>4, <1>5
  <2>3. parts[1 + 1] = parts[2]
    OBVIOUS
  <2> QED
    BY <2>1, <2>2, <2>3
<1>7. parts # <<>> /\ parts # Root /\ parts[1] = "tree"
  <2>1. parts # <<>> /\ parts[1] = Head(parts)
    BY <1>1, <1>2, <1>3, <1>4
  <2>2. Root[1] = Nothing
    BY RootProperties
  <2> QED
    BY <1>2, <1>4, <2>1, <2>2
<1>8. (IF Last(combined) = Nothing THEN Front(combined) ELSE combined) = named
  <2>1. CASE end = Root
    <3>1. Last(combined) = Nothing /\ Front(combined) = named
      BY <1>1, <1>2, <2>1, Behind
    <3> QED
      BY <3>1
  <2>2. CASE end = <<>>
    <3>1. combined = named
      BY <1>1, <2>2, ConcatEmptySeq
    <3>2. Len(named) \in 1 .. Len(named)
      BY <1>1
    <3>3. Last(named) # Nothing
      BY <1>1, <3>2 DEF Last
    <3> QED
      BY <3>1, <3>3
  <2>3. end = <<>> \/ end = Root
    OBVIOUS
  <2> QED
    BY <2>1, <2>2, <2>3
<1> QED
  BY <1>4, <1>5, <1>6, <1>7, <1>8

\* A branch is found in the URL of a tree: beside the path, in front of it, and
\* whether or not the URL ends with a slash.
LEMMA TreeFound ==
    ASSUME NEW want \in Want, want.kind = "tree", Clear(want)
    PROVE  ParseTarget(TextOf(want), ExamplePath(want))
              = [subpath |-> want.path, ref |-> "explicit", name |-> want.branch]
<1>1. /\ want.branch \in Name /\ want.path \in Name /\ want.inUrl \in BOOLEAN
      /\ want.slash \in BOOLEAN /\ want.flagged \in BOOLEAN /\ want.slashed \in BOOLEAN
  BY DEF Want
<1>2. PICK b \in Name, p \in Name, end \in {<<>>, Root} :
         b = want.branch /\ p = want.path /\ end = IF want.slash THEN Root ELSE <<>>
  BY <1>1
<1>3. PICK named \in Name : named = IF want.inUrl THEN b \o p ELSE b
  BY NamesJoined
<1>4. PICK combined, parts : combined = named \o end /\ parts = <<"tree">> \o combined
  OBVIOUS
<1>5. /\ b \in Seq(Segment) /\ p \in Seq(Segment) /\ named \in Seq(Segment)
      /\ end \in Seq(Segment) /\ <<"tree">> \in Seq(Segment) /\ <<>> \in Seq(Segment)
  <2>1. b \in Seq(Segment) /\ p \in Seq(Segment) /\ named \in Seq(Segment)
    BY NameProperties
  <2>2. Root \in Seq(Segment) /\ <<>> \in Seq(Segment)
    BY RootProperties
  <2>3. end \in Seq(Segment)
    BY <2>2
  <2>4. "tree" \in Segment
    BY DEF Segment
  <2> QED
    BY <2>1, <2>2, <2>3, <2>4
<1>6. TextOf(want).kind = "github" /\ TextOf(want).parts = parts
  <2>1. TextOf(want).kind = "github"
        /\ TextOf(want).parts = ((<<"tree">> \o b) \o (IF want.inUrl THEN p ELSE <<>>)) \o end
    BY <1>2 DEF TextOf
  <2>2. CASE want.inUrl
    <3>1. (<<"tree">> \o b) \o p = <<"tree">> \o named
      BY <1>3, <1>5, <2>2, ConcatAssociative
    <3>2. (<<"tree">> \o named) \o end = <<"tree">> \o (named \o end)
      BY <1>5, ConcatAssociative
    <3> QED
      BY <1>4, <2>1, <2>2, <3>1, <3>2
  <2>3. CASE ~want.inUrl
    <3>1. <<"tree">> \o b \in Seq(Segment)
      BY <1>5, ConcatProperties
    <3>2. (<<"tree">> \o b) \o <<>> = <<"tree">> \o named
      BY <1>3, <2>3, <3>1, ConcatEmptySeq
    <3>3. (<<"tree">> \o named) \o end = <<"tree">> \o (named \o end)
      BY <1>5, ConcatAssociative
    <3> QED
      BY <1>4, <2>1, <2>3, <3>2, <3>3
  <2> QED
    BY <1>1, <2>2, <2>3
<1>7. /\ Tail(parts) = combined
      /\ parts \notin {<<>>, Root} /\ parts[1] = "tree" /\ ~(Len(parts) < 2)
      /\ parts[2] # Nothing
      /\ (IF Last(combined) = Nothing THEN Front(combined) ELSE combined) = named
  BY <1>4, TreeParts
<1>8. PICK flag : flag = ExamplePath(want)
  OBVIOUS
<1>9. ParseTarget(TextOf(want), flag)
         = IF flag = NoPath
           THEN [subpath |-> IF Tail(combined) = <<>> THEN Root ELSE Tail(combined),
                 ref |-> "explicit", name |-> <<Head(combined)>>]
           ELSE [subpath |-> Stripped(flag), ref |-> "explicit",
                 name |-> CutOff(named, Stripped(flag))]
  BY <1>6, <1>7, Zenon DEF ParseTarget, Nothing
<1>10. CASE want.flagged
  <2>1. flag # NoPath /\ Stripped(flag) = p
    BY <1>1, <1>2, <1>8, <1>10, FlagStripped
  <2>2. CutOff(named, p) = b
    <3>1. CASE want.inUrl
      BY <1>3, <3>1, CutOffAtEnd
    <3>2. CASE ~want.inUrl
      <4>1. ~(Len(p) < Len(b) /\ IsSuffix(p, b))
        BY <1>2, <1>10, <3>2 DEF Clear
      <4> QED
        BY <1>3, <3>2, <4>1 DEF CutOff
    <3> QED
      BY <1>1, <3>1, <3>2
  <2> QED
    BY <1>2, <1>8, <1>9, <2>1, <2>2
<1>11. CASE ~want.flagged
  <2>1. flag = NoPath /\ Len(b) = 1 /\ want.inUrl /\ ~want.slash
    BY <1>2, <1>8, <1>11 DEF ExamplePath, Clear
  <2>2. b[1] \in Segment
    BY <2>1, NameProperties
  <2>3. b = <<b[1]>>
    BY <1>5, <2>1
  <2>4. combined = <<b[1]>> \o p
    <3>1. combined = named /\ named = b \o p
      BY <1>2, <1>3, <1>4, <1>5, <2>1, ConcatEmptySeq
    <3> QED
      BY <2>3, <3>1
  <2>5. Head(combined) = b[1] /\ Tail(combined) = p
    BY <1>5, <2>2, <2>4, InFront
  <2>6. p # <<>>
    BY NameProperties
  <2> QED
    BY <1>2, <1>8, <1>9, <2>1, <2>3, <2>5, <2>6
<1> QED
  BY <1>1, <1>10, <1>11

\* What is asked for is found, if it is clear and GitHub says so.
LEMMA FoundAsMeant ==
    ASSUME NEW want \in Want, Clear(want), NEW truth \in Truth, NEW answer \in Answers(want, truth)
    PROVE  SourceMeant(want, truth, answer,
                       ResolveRef(ParseTarget(TextOf(want), ExamplePath(want)), answer))
<1> DEFINE target == ParseTarget(TextOf(want), ExamplePath(want))
<1>1. \A subpath, ref : [subpath |-> subpath, ref |-> ref] # Refused
  <2>1. \A subpath, ref : DOMAIN [subpath |-> subpath, ref |-> ref] = {"subpath", "ref"}
    OBVIOUS
  <2>2. DOMAIN Refused = {"refused"}
    BY DEF Refused
  <2> QED
    BY <2>1, <2>2
<1>2. CASE want.kind = "named"
  <2>1. target = [subpath |-> <<"examples">> \o want.path, ref |-> "latest-release"]
    BY <1>2 DEF TextOf, ParseTarget
  <2>2. /\ target # Refused /\ target.ref = "latest-release"
        /\ target.subpath = <<"examples">> \o want.path
    BY <1>1, <2>1
  <2> HIDE DEF target
  <2>3. ResolveRef(target, answer) = LatestRelease(target, answer)
    BY <2>2 DEF ResolveRef
  <2>4. \/ answer = [status |-> 0, name |-> NoPath] \/ answer = [status |-> 403, name |-> NoPath]
        \/ answer = [status |-> IF truth.release = NoPath THEN 404 ELSE 200, name |-> truth.release]
    BY <1>2 DEF Answers
  <2>5. /\ LatestRelease(target, answer)
              = CASE answer.status = 404 -> [subpath |-> target.subpath, ref |-> FallbackRef]
                  [] answer.status = 200 ->
                        [subpath |-> target.subpath,
                         ref |-> IF answer.name = NoPath THEN FallbackRef ELSE answer.name]
                  [] OTHER -> Refused
    BY DEF LatestRelease
  <2>6. CASE answer.status \in {0, 403}
    <3>1. LatestRelease(target, answer) = Refused
      BY <2>5, <2>6
    <3> QED
      BY <1>2, <2>3, <2>6, <3>1 DEF SourceMeant, target
  <2>7. CASE answer = [status |-> IF truth.release = NoPath THEN 404 ELSE 200,
                       name |-> truth.release]
    <3>1. answer.status = IF truth.release = NoPath THEN 404 ELSE 200
      BY <2>7
    <3>2. answer.name = truth.release
      BY <2>7
    <3>3. LatestRelease(target, answer)
             = [subpath |-> target.subpath,
                ref |-> IF truth.release = NoPath THEN FallbackRef ELSE truth.release]
      BY <2>5, <3>1, <3>2
    <3>4. LatestRelease(target, answer) = MeantSource(want, truth)
      BY <1>2, <2>2, <3>3 DEF MeantSource
    <3> QED
      BY <1>2, <2>3, <3>1, <3>4 DEF SourceMeant, target
  <2> QED
    BY <2>4, <2>6, <2>7 DEF target
<1>3. CASE want.kind = "root"
  <2>1. /\ want.path \in Name /\ want.flagged \in BOOLEAN /\ want.slashed \in BOOLEAN
        /\ want.slash \in BOOLEAN
    BY <1>3 DEF Want
  <2>2. TextOf(want) = [kind |-> "github", parts |-> IF want.slash THEN Root ELSE <<>>]
    BY <1>3 DEF TextOf
  <2>3. TextOf(want).kind = "github" /\ TextOf(want).parts \in {<<>>, Root}
    BY <2>1, <2>2
  <2> DEFINE place == IF want.flagged THEN want.path ELSE Root
  <2>4. target = [subpath |-> IF ExamplePath(want) = NoPath THEN Root
                              ELSE Stripped(ExamplePath(want)),
                  ref |-> "default-branch"]
    BY <2>3, Zenon DEF ParseTarget
  <2>5. (IF ExamplePath(want) = NoPath THEN Root ELSE Stripped(ExamplePath(want))) = place
    <3>1. CASE want.flagged
      BY <2>1, <3>1, FlagStripped
    <3>2. CASE ~want.flagged
      <4>1. ExamplePath(want) = NoPath
        BY <3>2 DEF ExamplePath
      <4> QED
        BY <3>2, <4>1
    <3> QED
      BY <2>1, <3>1, <3>2
  <2>6. target # Refused /\ target.ref = "default-branch" /\ target.subpath = place
    BY <1>1, <2>4, <2>5
  <2> HIDE DEF target, place
  <2>7. ResolveRef(target, answer)
           = IF answer.status = 200 /\ answer.name # NoPath
             THEN [subpath |-> place, ref |-> answer.name]
             ELSE Refused
    BY <2>6 DEF ResolveRef
  <2>8. /\ answer.status # 200 \/ answer.name = truth.branch
        /\ truth.branch # NoPath
    <3>1. truth.branch \in Name
      BY DEF Truth
    <3>2. truth.branch # NoPath
      BY <3>1, NameProperties DEF NoPath
    <3>3. \/ answer = [status |-> 0, name |-> NoPath] \/ answer = [status |-> 403, name |-> NoPath]
          \/ answer = [status |-> 200, name |-> truth.branch]
          \/ answer = [status |-> 404, name |-> NoPath]
      BY <1>3 DEF Answers
    <3> QED
      BY <3>2, <3>3
  <2>9. MeantSource(want, truth) = [subpath |-> place, ref |-> truth.branch]
    BY <1>3 DEF MeantSource, place
  <2>10. CASE answer.status = 200
    BY <2>7, <2>8, <2>9, <2>10 DEF SourceMeant, target
  <2>11. CASE answer.status # 200
    BY <1>3, <2>7, <2>11 DEF SourceMeant, target
  <2> QED
    BY <2>10, <2>11
<1>4. CASE want.kind = "tree"
  <2>1. target = [subpath |-> want.path, ref |-> "explicit", name |-> want.branch]
    BY <1>4, TreeFound
  <2>2. DOMAIN target = {"subpath", "ref", "name"} /\ DOMAIN Refused = {"refused"}
    BY <2>1 DEF Refused
  <2>3. /\ target # Refused /\ target.ref = "explicit"
        /\ target.subpath = want.path /\ target.name = want.branch
    BY <2>1, <2>2
  <2> HIDE DEF target
  <2>4. ResolveRef(target, answer) = [subpath |-> want.path, ref |-> want.branch]
    BY <2>3 DEF ResolveRef
  <2> QED
    BY <1>4, <2>4 DEF SourceMeant, MeantSource, target
<1>5. want.kind \in {"named", "root", "tree"}
  BY DEF Want
<1> QED
  BY <1>2, <1>3, <1>4, <1>5

\* An input that is an example says what is wanted, and what GitHub has.
LEMMA ExamplesOnly ==
    ASSUME NEW i \in Inputs, i.kind = "example"
    PROVE  /\ i.want \in Want /\ Clear(i.want) /\ i.truth \in Truth
           /\ i.answer \in Answers(i.want, i.truth)
<1>1. i \in ExampleInputs
  <2>1. i \notin CommandLineInputs /\ i \notin QueryInputs /\ i \notin AddressInputs4
    BY DEF CommandLineInputs, QueryInputs, AddressInputs4
  <2>2. i \notin AddressInputs6
    BY DEF AddressInputs6
  <2> QED
    BY <2>1, <2>2 DEF Inputs
<1>2. PICK want \in Wants : Clear(want) /\ i \in AskedFor(want)
  BY <1>1 DEF ExampleInputs
<1>3. PICK truth \in Truths :
         i \in [kind : {"example"}, want : {want}, truth : {truth}, answer : Answers(want, truth)]
  BY <1>2 DEF AskedFor
<1>4. i.want = want /\ i.truth = truth /\ i.answer \in Answers(want, truth)
  BY <1>3
<1> QED
  BY <1>2, <1>4, ExampleAssumption

\* The example that is downloaded is the one that was asked for, however long its
\* names are and however they are written; or there is none, because GitHub did
\* not say (parseExampleTarget, resolveRef).
THEOREM ExamplesFoundHolds == Spec => []ExamplesFound
<1> DEFINE Inv == input \in Inputs /\ ExamplesFound
<1>1. Init => Inv
  BY DEF Init, NotYet, ExamplesFound
<1>2. Inv /\ [Next]_vars => Inv'
  <2> SUFFICES ASSUME Inv, [Next]_vars PROVE Inv'
    OBVIOUS
  <2>1. ASSUME NEW kind, NEW result, Decided(kind, result), kind # "example" PROVE Inv'
    BY <2>1 DEF Decided, ExamplesFound
  <2>2. ASSUME FindExample PROVE Inv'
    <3>1. /\ input' = input /\ input.kind = "example"
          /\ output'.result = ResolveRef(ParseTarget(TextOf(input.want), ExamplePath(input.want)),
                                         input.answer)
      BY <2>2 DEF FindExample, Decided
    <3>2. SourceMeant(input.want, input.truth, input.answer, output'.result)
      BY <3>1, ExamplesOnly, FoundAsMeant
    <3> QED
      BY <3>1, <3>2 DEF ExamplesFound
  <2>3. ASSUME UNCHANGED vars PROVE Inv'
    BY <2>3 DEF vars, ExamplesFound
  <2> QED
    BY <2>1, <2>2, <2>3 DEF Next, ReadCommandLine, JudgeAddress, CheckQuery
<1> QED
  BY <1>1, <1>2, PTL DEF Spec

-----------------------------------------------------------------------------
(* Induction over data.  The rounds of a loop and the pairs of a query are *)
(* any number.                                                             *)

LEMMA Smallest ==
    ASSUME NEW T \in SUBSET Nat, T # {}
    PROVE  \E n \in T : \A m \in T : n <= m
<1>1. \E n \in T : \A m \in T : ~(<<m, n>> \in OpToRel(<, Nat))
  BY NatLessThanWellFounded, WFMin
<1>2. PICK n \in T : \A m \in T : ~(<<m, n>> \in OpToRel(<, Nat))
  BY <1>1
<1>3. \A m \in T : ~(m < n)
  BY <1>2 DEF OpToRel
<1> QED
  BY <1>3

\* Induction, for a set of numbers.
LEMMA Counting ==
    ASSUME NEW T, 0 \in T, \A n \in Nat : n \in T => n + 1 \in T
    PROVE  Nat \subseteq T
<1> DEFINE Bad == Nat \ T
<1>1. SUFFICES ASSUME Bad # {} PROVE FALSE
  OBVIOUS
<1>2. PICK n \in Bad : \A m \in Bad : n <= m
  BY <1>1, Smallest
<1>3. n \in Nat /\ n \notin T /\ n # 0
  OBVIOUS
<1>4. n - 1 \in Nat /\ ~(n <= n - 1) /\ (n - 1) + 1 = n
  BY <1>3
<1>5. n - 1 \in T
  BY <1>2, <1>4
<1> QED
  BY <1>3, <1>4, <1>5

\* Induction, for a set of sequences.
LEMMA Growing ==
    ASSUME NEW S, NEW T, <<>> \in T, \A s \in Seq(S), x \in S : s \in T => Append(s, x) \in T
    PROVE  Seq(S) \subseteq T
<1> DEFINE Fine == {n \in Nat : \A s \in Seq(S) : Len(s) = n => s \in T}
<1>1. 0 \in Fine
  <2>1. ASSUME NEW s \in Seq(S), Len(s) = 0 PROVE s = <<>>
    BY <2>1
  <2> QED
    BY <2>1
<1>2. ASSUME NEW n \in Nat, n \in Fine PROVE n + 1 \in Fine
  <2>1. ASSUME NEW s \in Seq(S), Len(s) = n + 1 PROVE s \in T
    <3> DEFINE t == SubSeq(s, 1, n)
    <3>1. t \in Seq(S) /\ Len(t) = n /\ \A i \in 1 .. n : t[i] = s[i]
      BY <2>1
    <3>2. s[n + 1] \in S
      BY <2>1
    <3>3. s = Append(t, s[n + 1])
      BY <2>1, <3>1, <3>2
    <3>4. t \in T
      BY <1>2, <3>1
    <3> HIDE DEF t
    <3> QED
      BY <3>1, <3>2, <3>3, <3>4
  <2> QED
    BY <2>1
<1>3. Nat \subseteq Fine
  <2> HIDE DEF Fine
  <2> QED
    BY <1>1, <1>2, Counting
<1> QED
  BY <1>3

-----------------------------------------------------------------------------
(* Command lines.  The loop of parseArgs, round by round.                  *)

\* The loop's rounds, one after another.
LEMMA Rounds ==
    ASSUME NEW S, NEW argv \in Seq(S)
    PROVE  Loop(argv) = [i \in 0 .. Len(argv) |->
                           IF i = 0 THEN Begin ELSE Take(Loop(argv)[i - 1], argv[i])]
<1> DEFINE Is(f, n) == f = [i \in 0 .. n |-> IF i = 0 THEN Begin ELSE Take(f[i - 1], argv[i])]
           Bad == {n \in Nat : \A f : ~Is(f, n)}
<1>1. Bad = {}
  <2> SUFFICES ASSUME Bad # {} PROVE FALSE
    OBVIOUS
  <2>1. PICK n \in Bad : \A m \in Bad : n <= m
    BY Smallest
  <2>2. n \in Nat /\ \A f : ~Is(f, n)
    OBVIOUS
  <2>3. CASE n = 0
    <3>1. Is([i \in 0 .. 0 |-> Begin], 0)
      OBVIOUS
    <3> QED
      BY <2>2, <2>3, <3>1
  <2>4. CASE n # 0
    <3>1. n - 1 \in Nat
      BY <2>2, <2>4
    <3>2. n - 1 \notin Bad
      <4> HIDE DEF Bad
      <4> QED
        BY <2>1, <2>2
    <3>3. PICK f : Is(f, n - 1)
      BY <3>1, <3>2
    <3> DEFINE g == [i \in 0 .. n |-> IF i <= n - 1 THEN f[i] ELSE Take(f[n - 1], argv[n])]
    <3>4. ASSUME NEW i \in 0 .. n
          PROVE g[i] = IF i = 0 THEN Begin ELSE Take(g[i - 1], argv[i])
      <4>1. CASE i = n
        BY <4>1, <2>4, <3>1
      <4>2. CASE i # n
        <5>1. i \in 0 .. n - 1 /\ f[i] = IF i = 0 THEN Begin ELSE Take(f[i - 1], argv[i])
          BY <4>2, <3>3, <2>2
        <5> QED
          BY <5>1, <2>2
      <4> QED
        BY <4>1, <4>2
    <3>5. g = [i \in 0 .. n |-> g[i]]
      OBVIOUS
    <3> HIDE DEF g
    <3>6. Is(g, n)
      BY <3>4, <3>5
    <3> QED
      BY <2>2, <3>6
  <2> QED
    BY <2>3, <2>4
<1>2. \E f : Is(f, Len(argv))
  BY <1>1
<1> QED
  BY <1>2 DEF Loop

-----------------------------------------------------------------------------
Word == STRING \cup {""}

Fields == {"example", "examplePath"}

Flag(a) == Head(a) \in DOMAIN ValueFlags

\* What a part of a command line, up to i, says if it is well formed.
Sense(argv, i) ==
    /\ \A j \in 1 .. i : Flag(argv[j]) => Tail(argv[j]) # Empty
    /\ \A j \in 1 .. i : IsValue(argv, j) => argv[j] # Empty /\ ~Dashed(argv[j])
    /\ \A j \in 1 .. i : Head(argv[j]) \notin UnknownFlags
    /\ \A j, k \in 1 .. i : j \in Directories(argv) /\ k \in Directories(argv) => j = k

\* The flags of a field up to i that have got their value.
Served(argv, i, field) == {j \in FlagsFor(argv, field) : j <= i /\ (j = i => ~Bare(argv, j))}

SaysUpTo(argv, i, names) == \E j \in 1 .. i : Head(argv[j]) \in names

Latest(argv, i, field, value) ==
    \/ Served(argv, i, field) = {} /\ value = Null
    \/ \E j \in Served(argv, i, field) :
          (\A k \in Served(argv, i, field) : k <= j) /\ value = ValueOf(argv, j)

Place(argv, i, value) ==
    \/ (\A j \in 1 .. i : j \notin Directories(argv)) /\ value = Null
    \/ \E j \in 1 .. i : j \in Directories(argv) /\ value = argv[j]

Heard(argv, i, args) ==
    /\ Latest(argv, i, "example", args.example)
    /\ Latest(argv, i, "examplePath", args.examplePath)
    /\ Place(argv, i, args.targetDir)
    /\ args.git <=> ~SaysUpTo(argv, i, {"--no-git"})
    /\ args.help <=> SaysUpTo(argv, i, HelpFlags)
    /\ args.version <=> SaysUpTo(argv, i, VersionFlags)

LoopState == [args : [targetDir : Seq(Word), example : Seq(Word), examplePath : Seq(Word),
                      git : BOOLEAN, help : BOOLEAN, version : BOOLEAN],
              awaiting : Fields \cup {"nothing"}, threw : BOOLEAN]

Progress(argv, i, loop) ==
    /\ loop \in LoopState
    /\ loop.threw <=> ~Sense(argv, i)
    /\ Sense(argv, i) =>
          /\ loop.awaiting = IF i # 0 /\ Bare(argv, i) THEN ValueFlags[Head(argv[i])] ELSE "nothing"
          /\ Heard(argv, i, loop.args)

LEMMA ArgumentParts ==
    ASSUME NEW a \in Argument
    PROVE  /\ Head(a) \in Word /\ Tail(a) \in Seq(Word) /\ a \in Seq(Word) /\ a # Null
           /\ Head(a) = a[1]
           /\ Len(a) = 1 <=> Tail(a) = Null
<1>1. a \in Seq(STRING) /\ a # <<>>
  BY DEF Argument
<1> DEFINE S == STRING
<1>s. S \subseteq Word /\ a \in Seq(S)
  BY <1>1 DEF Word
<1> HIDE DEF S
<1>2. a \in Seq(Word)
  BY <1>s, SeqMonotonic
<1>3. Len(a) \in Nat \ {0} /\ Len(Tail(a)) = Len(a) - 1 /\ Tail(a) \in Seq(Word)
  BY <1>1, <1>2
<1>4. Len(a) = 1 <=> Tail(a) = <<>>
  <2>1. ASSUME NEW t \in Seq(Word) PROVE Len(t) = 0 <=> t = <<>>
    OBVIOUS
  <2> QED
    BY <1>3, <2>1
<1> QED
  BY <1>1, <1>2, <1>3, <1>4 DEF Null

LEMMA BareIs ==
    ASSUME NEW S, NEW argv \in Seq(Argument), NEW j \in DOMAIN argv
    PROVE  /\ argv[j] \in Argument
           /\ Bare(argv, j) <=> Flag(argv[j]) /\ Tail(argv[j]) = Null
<1>1. argv[j] \in Argument
  OBVIOUS
<1> QED
  BY <1>1, ArgumentParts DEF Bare, Flag

LEMMA EmptyText == Empty \in Seq(Word) /\ Empty # Null
<1> DEFINE nothing == ""
<1>1. nothing \in Word
  BY DEF Word
<1> HIDE DEF nothing
<1>2. <<nothing>> \in Seq(Word) /\ <<nothing>> # <<>>
  BY <1>1
<1> QED
  BY <1>2 DEF Empty, Null, nothing

LEMMA BeginProgress == ASSUME NEW argv \in Seq(Argument) PROVE Progress(argv, 0, Begin)
<1>1. Begin \in LoopState
  BY DEF Begin, LoopState, NoArgs, Null
<1>2. Sense(argv, 0)
  BY DEF Sense
<1>3. \A field \in Fields : Served(argv, 0, field) = {}
  BY DEF Served, FlagsFor
<1>4. Heard(argv, 0, NoArgs)
  BY <1>3 DEF Heard, Latest, Place, NoArgs, SaysUpTo, Fields
<1> QED
  BY <1>1, <1>2, <1>4 DEF Progress, Begin


\* What one more argument adds to the sense of those before it.
LEMMA SenseStep ==
    ASSUME NEW argv \in Seq(Argument), NEW i \in 1 .. Len(argv)
    PROVE  Sense(argv, i) <=>
              /\ Sense(argv, i - 1)
              /\ Flag(argv[i]) => Tail(argv[i]) # Empty
              /\ IsValue(argv, i) => argv[i] # Empty /\ ~Dashed(argv[i])
              /\ Head(argv[i]) \notin UnknownFlags
              /\ i \in Directories(argv) => \A j \in 1 .. i - 1 : j \notin Directories(argv)
<1>1. \A j : j \in 1 .. i <=> j \in 1 .. i - 1 \/ j = i
  OBVIOUS
<1>2. i \notin 1 .. i - 1
  OBVIOUS
<1> QED
  BY <1>1, <1>2, Zenon DEF Sense

LEMMA ServedStep ==
    ASSUME NEW argv \in Seq(Argument), NEW i \in 1 .. Len(argv), NEW field
    PROVE  /\ \A j : j \in Served(argv, i, field) <=>
                 \/ j \in Served(argv, i - 1, field)
                 \/ j = i - 1 /\ i - 1 \in FlagsFor(argv, field) /\ Bare(argv, i - 1)
                 \/ j = i /\ i \in FlagsFor(argv, field) /\ ~Bare(argv, i)
           /\ \A j \in Served(argv, i - 1, field) : j \in Nat /\ j <= i - 1
<1>1. FlagsFor(argv, field) \subseteq Nat
  BY DEF FlagsFor
<1>2. ASSUME NEW j \in Nat
      PROVE  /\ j <= i <=> j <= i - 1 \/ j = i
             /\ j = i => ~(j <= i - 1) /\ j # i - 1
             /\ j = i - 1 => j <= i /\ j # i
  OBVIOUS
<1> QED
  BY <1>1, <1>2, Zenon DEF Served

LEMMA LatestSame ==
    ASSUME NEW argv, NEW i, NEW field, NEW value,
           Latest(argv, i - 1, field, value), Served(argv, i, field) = Served(argv, i - 1, field)
    PROVE  Latest(argv, i, field, value)
BY DEF Latest

LEMMA LatestNew ==
    ASSUME NEW argv, NEW i \in Nat, NEW field, NEW n \in {i - 1, i},
           Served(argv, i, field) = Served(argv, i - 1, field) \cup {n},
           \A j \in Served(argv, i - 1, field) : j \in Nat /\ j <= i - 1
    PROVE  Latest(argv, i, field, ValueOf(argv, n))
<1>1. n <= n /\ i - 1 <= n
  OBVIOUS
<1>2. \A j \in Served(argv, i, field) : j <= n
  <2> SUFFICES ASSUME NEW j \in Served(argv, i, field), j # n PROVE j <= n
    BY <1>1
  <2>1. j \in Nat /\ j <= i - 1
    OBVIOUS
  <2> QED
    BY <1>1, <2>1
<1> QED
  BY <1>2 DEF Latest


LEMMA TakeTyped ==
    ASSUME NEW loop \in LoopState, NEW field \in Fields, NEW value \in Seq(Word)
    PROVE  /\ Value(loop, field, value) \in LoopState
           /\ Value(loop, field, value).threw = loop.threw
           /\ Value(loop, field, value).awaiting = "nothing"
           /\ Value(loop, field, value).args =
                IF field = "example" THEN [loop.args EXCEPT !.example = value]
                ELSE [loop.args EXCEPT !.examplePath = value]
<1>1. CASE field = "example"
  BY <1>1 DEF Value, LoopState, Fields
<1>2. CASE field = "examplePath"
  BY <1>2 DEF Value, LoopState, Fields
<1> QED
  BY <1>1, <1>2 DEF Fields

\* An argument that is a value.
LEMMA ValueRound ==
    ASSUME NEW argv \in Seq(Argument), NEW i \in 1 .. Len(argv), NEW loop,
           Progress(argv, i - 1, loop), ~loop.threw, loop.awaiting # "nothing"
    PROVE  Progress(argv, i, Take(loop, argv[i]))
<1> DEFINE a == argv[i]
           f == loop.awaiting
<1> HIDE DEF f
<1>1. /\ loop \in LoopState /\ Sense(argv, i - 1) /\ i - 1 # 0 /\ Bare(argv, i - 1)
      /\ f = ValueFlags[Head(argv[i - 1])] /\ f \in Fields
      /\ Heard(argv, i - 1, loop.args)
  BY DEF Progress, LoopState, f
<1>2. i - 1 \in DOMAIN argv /\ i \in DOMAIN argv /\ Len(argv) \in Nat
  BY <1>1
<1>3. IsValue(argv, i) /\ i \notin Directories(argv)
  BY <1>1, <1>2 DEF IsValue, Directories
<1>4. Take(loop, a) = TakeValue(loop, a)
  BY DEF Take
<1>5. CASE a = Empty \/ Dashed(a)
  <2>1. Take(loop, a) = Threw(loop) /\ Threw(loop) \in LoopState /\ Threw(loop).threw
    BY <1>1, <1>4, <1>5 DEF TakeValue, Threw, LoopState
  <2>2. ~Sense(argv, i)
    BY <1>3, <1>5, SenseStep
  <2> QED
    BY <2>1, <2>2 DEF Progress
<1>6. CASE ~(a = Empty \/ Dashed(a))
  <2>1. Take(loop, a) = Value(loop, f, a)
    BY <1>4, <1>6 DEF TakeValue, f
  <2>2. a \in Argument /\ a \in Seq(Word) /\ ~Flag(a) /\ ~Bare(argv, i)
        /\ Head(a) \notin Options /\ Head(a) \notin UnknownFlags
    BY <1>2, <1>6, ArgumentParts, BareIs DEF Dashed, Flag, Options
  <2>3. Sense(argv, i)
    BY <1>1, <1>3, <1>6, <2>2, SenseStep
  <2>4. \A g : i \notin FlagsFor(argv, g)
    BY <2>2 DEF FlagsFor, Flag
  <2>5. \A g \in Fields : i - 1 \in FlagsFor(argv, g) <=> g = f
    BY <1>1, <1>2 DEF FlagsFor, Bare
  <2>6. ValueOf(argv, i - 1) = a
    BY <1>1, <1>2 DEF ValueOf
  <2>7. ASSUME NEW g \in Fields, g # f PROVE Served(argv, i, g) = Served(argv, i - 1, g)
    <3>1. i - 1 \notin FlagsFor(argv, g)
      BY <2>5, <2>7
    <3>2. \A j : j \in Served(argv, i, g) <=> j \in Served(argv, i - 1, g)
      BY <3>1, <2>4, ServedStep, Zenon
    <3> QED
      BY <3>2 DEF Served
  <2>8. Served(argv, i, f) = Served(argv, i - 1, f) \cup {i - 1}
    BY <1>1, <2>4, <2>5, ServedStep
  <2>9. Latest(argv, i, f, a)
    <3>1. i \in Nat /\ i - 1 \in {i - 1, i}
      OBVIOUS
    <3>2. \A j \in Served(argv, i - 1, f) : j \in Nat /\ j <= i - 1
      BY ServedStep, Zenon
    <3>3. Latest(argv, i, f, ValueOf(argv, i - 1))
      BY <3>1, <3>2, <2>8, LatestNew, Zenon
    <3> QED
      BY <3>3, <2>6
  <2>10. Place(argv, i, loop.args.targetDir)
    BY <1>1, <1>3 DEF Heard, Place
  <2>11. \A names : names \subseteq Options =>
                       (SaysUpTo(argv, i, names) <=> SaysUpTo(argv, i - 1, names))
    BY <2>2 DEF SaysUpTo
  <2>12. Heard(argv, i, Value(loop, f, a).args)
    <3>1. \A g \in Fields \ {f} : \A v : Latest(argv, i - 1, g, v) => Latest(argv, i, g, v)
      BY <2>7, LatestSame
    <3>2. /\ {"--no-git"} \subseteq Options
          /\ HelpFlags \subseteq Options
          /\ VersionFlags \subseteq Options
      BY DEF Options
    <3> DEFINE new == Value(loop, f, a).args
    <3>3. /\ new.targetDir = loop.args.targetDir /\ new.git = loop.args.git
          /\ new.help = loop.args.help /\ new.version = loop.args.version
          /\ f = "example" => new.example = a /\ new.examplePath = loop.args.examplePath
          /\ f # "example" => new.example = loop.args.example /\ new.examplePath = a
      <4>1. new = IF f = "example" THEN [loop.args EXCEPT !.example = a]
                                     ELSE [loop.args EXCEPT !.examplePath = a]
        <5>1. loop \in LoopState /\ f \in Fields /\ a \in Seq(Word)
          BY <1>1, <2>2
        <5> QED
          BY <5>1, TakeTyped
      <4> QED
        BY <1>1, <4>1 DEF LoopState
    <3> HIDE DEF new
    <3>4. Latest(argv, i, "example", new.example) /\ Latest(argv, i, "examplePath", new.examplePath)
      BY <1>1, <2>9, <3>1, <3>3 DEF Heard, Fields
    <3> QED
      BY <1>1, <2>10, <2>11, <3>2, <3>3, <3>4 DEF Heard, new
  <2> QED
    <3>1. /\ Value(loop, f, a) \in LoopState
          /\ Value(loop, f, a).threw = loop.threw /\ Value(loop, f, a).awaiting = "nothing"
      <4>1. loop \in LoopState /\ f \in Fields /\ a \in Seq(Word)
        BY <1>1, <2>2
      <4> HIDE DEF a
      <4> QED
        BY <4>1, TakeTyped
    <3> QED
      BY <2>1, <2>2, <2>3, <2>12, <3>1 DEF Progress
<1> QED
  BY <1>5, <1>6


\* What holds at any argument that is not a value.
LEMMA NoValueRound ==
    ASSUME NEW argv \in Seq(Argument), NEW i \in 1 .. Len(argv), NEW loop,
           Progress(argv, i - 1, loop), ~loop.threw, loop.awaiting = "nothing"
    PROVE  /\ loop \in LoopState /\ Sense(argv, i - 1) /\ Heard(argv, i - 1, loop.args)
           /\ ~IsValue(argv, i)
           /\ \A field : i - 1 \in FlagsFor(argv, field) => ~Bare(argv, i - 1)
<1>1. loop \in LoopState /\ Sense(argv, i - 1) /\ Heard(argv, i - 1, loop.args)
  BY DEF Progress
<1>2. ASSUME i - 1 \in DOMAIN argv PROVE ~Bare(argv, i - 1)
  <2>1. i - 1 # 0
    BY <1>2
  <2>2. SUFFICES ASSUME Bare(argv, i - 1) PROVE FALSE
    OBVIOUS
  <2>3. ValueFlags[Head(argv[i - 1])] = "nothing"
    BY <1>1, <2>1, <2>2 DEF Progress
  <2>4. Head(argv[i - 1]) \in DOMAIN ValueFlags
    BY <1>2, <2>2, BareIs DEF Flag
  <2> QED
    BY <2>3, <2>4 DEF ValueFlags
<1> QED
  BY <1>1, <1>2 DEF IsValue, FlagsFor

\* An argument that is no value flag and no value leaves the fields as they are.
LEMMA FieldsKept ==
    ASSUME NEW argv \in Seq(Argument), NEW i \in 1 .. Len(argv), NEW loop,
           Progress(argv, i - 1, loop), ~loop.threw, loop.awaiting = "nothing",
           NEW field, NEW value, Latest(argv, i - 1, field, value),
           i \notin FlagsFor(argv, field) \/ Bare(argv, i)
    PROVE  Latest(argv, i, field, value)
<1>1. i - 1 \in FlagsFor(argv, field) => ~Bare(argv, i - 1)
  BY NoValueRound
<1>2. \A j : j \in Served(argv, i, field) <=> j \in Served(argv, i - 1, field)
  BY <1>1, ServedStep, Zenon
<1>3. Served(argv, i, field) = Served(argv, i - 1, field)
  BY <1>2 DEF Served
<1> QED
  BY <1>3, LatestSame

\* A flag that has a value.
LEMMA FlagRound ==
    ASSUME NEW argv \in Seq(Argument), NEW i \in 1 .. Len(argv), NEW loop,
           Progress(argv, i - 1, loop), ~loop.threw, loop.awaiting = "nothing", Flag(argv[i])
    PROVE  Progress(argv, i, Take(loop, argv[i]))
<1> DEFINE a == argv[i]
           f == ValueFlags[Head(a)]
<1>1. /\ loop \in LoopState /\ Sense(argv, i - 1) /\ Heard(argv, i - 1, loop.args)
      /\ ~IsValue(argv, i)
  BY NoValueRound
<1>2. i \in DOMAIN argv /\ Len(argv) \in Nat /\ a \in Argument /\ Tail(a) \in Seq(Word)
  BY ArgumentParts
<1>3. Bare(argv, i) <=> Tail(a) = Null
  BY <1>2, BareIs
<1>4. /\ f \in Fields /\ \A g : i \in FlagsFor(argv, g) <=> g = f
      /\ Dashed(a) /\ Head(a) \notin UnknownFlags
      /\ Head(a) \notin {"--no-git"} \cup HelpFlags \cup VersionFlags
  BY <1>2, UnknownAssumption
     DEF Flag, ValueFlags, Fields, FlagsFor, Dashed, Options, HelpFlags, VersionFlags
<1>5. Take(loop, a) = TakeValueFlag(loop, f, Tail(a))
  <2>1. Head(a) \notin {"--no-git"} \cup HelpFlags \cup VersionFlags
    BY <1>4
  <2> QED
    BY <1>4, <2>1 DEF Take, Flag
<1> HIDE DEF f
<1>6. i \notin Directories(argv)
  BY <1>4 DEF Directories
<1>7. \A v : Place(argv, i - 1, v) => Place(argv, i, v)
  BY <1>6 DEF Place
<1>8. \A names : names \subseteq {"--no-git"} \cup HelpFlags \cup VersionFlags
                    => (SaysUpTo(argv, i, names) <=> SaysUpTo(argv, i - 1, names))
  <2> SUFFICES ASSUME NEW names \in SUBSET ({"--no-git"} \cup HelpFlags \cup VersionFlags)
               PROVE  SaysUpTo(argv, i, names) <=> SaysUpTo(argv, i - 1, names)
    OBVIOUS
  <2>1. Head(a) \notin names
    BY <1>4
  <2>2. \A j : j \in 1 .. i <=> j \in 1 .. i - 1 \/ j = i
    OBVIOUS
  <2> QED
    BY <2>1, <2>2, Zenon DEF SaysUpTo
<1>9. Tail(a) # Empty => Sense(argv, i)
  BY <1>1, <1>4, <1>6, SenseStep
<1>10. CASE Tail(a) = Null
  <2>1. Take(loop, a) = [loop EXCEPT !.awaiting = f]
    BY <1>5, <1>10, EmptyText DEF TakeValueFlag
  <2>2. Sense(argv, i)
    BY <1>9, <1>10, EmptyText
  <2>3. Heard(argv, i, loop.args)
    <3>1. \A g, v : Latest(argv, i - 1, g, v) => Latest(argv, i, g, v)
      BY <1>3, <1>10, FieldsKept
    <3> QED
      BY <1>1, <1>7, <1>8, <3>1 DEF Heard
  <2>4. /\ Take(loop, a) \in LoopState /\ Take(loop, a).args = loop.args
        /\ Take(loop, a).awaiting = f /\ Take(loop, a).threw = FALSE
    BY <1>1, <1>4, <2>1 DEF LoopState
  <2> QED
    BY <1>3, <1>10, <2>2, <2>3, <2>4 DEF Progress, f
<1>11. CASE Tail(a) = Empty
  <2>1. Take(loop, a) = Threw(loop) /\ Threw(loop) \in LoopState /\ Threw(loop).threw
    BY <1>1, <1>5, <1>11, EmptyText DEF TakeValueFlag, Threw, LoopState
  <2>2. ~Sense(argv, i)
    BY <1>11, SenseStep
  <2> QED
    BY <2>1, <2>2 DEF Progress
<1>12. CASE Tail(a) # Null /\ Tail(a) # Empty
  <2>1. Take(loop, a) = Value(loop, f, Tail(a))
    BY <1>5, <1>12 DEF TakeValueFlag
  <2> DEFINE new == Value(loop, f, Tail(a))
  <2>2. /\ new \in LoopState /\ new.threw = loop.threw /\ new.awaiting = "nothing"
        /\ new.args = IF f = "example" THEN [loop.args EXCEPT !.example = Tail(a)]
                      ELSE [loop.args EXCEPT !.examplePath = Tail(a)]
    <3>1. loop \in LoopState /\ f \in Fields /\ Tail(a) \in Seq(Word)
      BY <1>1, <1>2, <1>4
    <3> HIDE DEF a
    <3> QED
      BY <3>1, TakeTyped
  <2> HIDE DEF new
  <2>3. /\ new.args.targetDir = loop.args.targetDir /\ new.args.git = loop.args.git
        /\ new.args.help = loop.args.help /\ new.args.version = loop.args.version
        /\ f = "example" => /\ new.args.example = Tail(a)
                            /\ new.args.examplePath = loop.args.examplePath
        /\ f # "example" => /\ new.args.example = loop.args.example
                            /\ new.args.examplePath = Tail(a)
    BY <1>1, <2>2 DEF LoopState
  <2>4. Latest(argv, i, f, Tail(a))
    <3>1. i \in Nat /\ i \in {i - 1, i}
      OBVIOUS
    <3>2. \A j \in Served(argv, i - 1, f) : j \in Nat /\ j <= i - 1
      BY ServedStep, Zenon
    <3>3. \A j : j \in Served(argv, i, f) <=> j \in Served(argv, i - 1, f) \/ j = i
      <4>1. i - 1 \in FlagsFor(argv, f) => ~Bare(argv, i - 1)
        BY NoValueRound
      <4> QED
        BY <4>1, <1>3, <1>4, <1>12, ServedStep, Zenon
    <3>4. Served(argv, i, f) = Served(argv, i - 1, f) \cup {i}
      BY <3>3
    <3>5. Latest(argv, i, f, ValueOf(argv, i))
      BY <3>1, <3>2, <3>4, LatestNew, Zenon
    <3>6. ValueOf(argv, i) = Tail(a)
      BY <1>3, <1>12 DEF ValueOf
    <3> QED
      BY <3>5, <3>6
  <2>5. \A g, v : g # f /\ Latest(argv, i - 1, g, v) => Latest(argv, i, g, v)
    BY <1>4, FieldsKept
  <2>6. Latest(argv, i, "example", new.args.example)
        /\ Latest(argv, i, "examplePath", new.args.examplePath)
    BY <1>1, <1>4, <2>3, <2>4, <2>5 DEF Heard, Fields
  <2>7. Heard(argv, i, new.args)
    BY <1>1, <1>7, <1>8, <2>3, <2>6 DEF Heard
  <2>8. Take(loop, a) = new
    BY <2>1 DEF new
  <2>9. Sense(argv, i) /\ ~Bare(argv, i)
    BY <1>3, <1>9, <1>12
  <2> QED
    BY <2>2, <2>7, <2>8, <2>9 DEF Progress
<1> QED
  BY <1>10, <1>11, <1>12


\* The kinds of arguments exclude each other.
LEMMA Kinds ==
    ASSUME NEW a
    PROVE  /\ Flag(a) =>
                 Head(a) \notin HelpFlags \cup VersionFlags \cup {"--no-git"} \cup UnknownFlags
           /\ Head(a) \in HelpFlags =>
                 Head(a) \notin VersionFlags \cup {"--no-git"} \cup UnknownFlags
           /\ Head(a) \in VersionFlags => Head(a) \notin {"--no-git"} \cup UnknownFlags
           /\ Head(a) = "--no-git" => Head(a) \notin UnknownFlags
           /\ Dashed(a) <=> \/ Flag(a) \/ Head(a) \in HelpFlags \/ Head(a) \in VersionFlags
                            \/ Head(a) = "--no-git" \/ Head(a) \in UnknownFlags
BY UnknownAssumption DEF Flag, Dashed, Options, ValueFlags, HelpFlags, VersionFlags

\* An argument that stands for itself, as an option or as the directory.
LEMMA PlainRound ==
    ASSUME NEW argv \in Seq(Argument), NEW i \in 1 .. Len(argv), NEW loop,
           Progress(argv, i - 1, loop), ~loop.threw, loop.awaiting = "nothing", ~Flag(argv[i])
    PROVE  Progress(argv, i, Take(loop, argv[i]))
<1> DEFINE a == argv[i]
           name == Head(a)
<1>1. /\ loop \in LoopState /\ Sense(argv, i - 1) /\ Heard(argv, i - 1, loop.args)
      /\ ~IsValue(argv, i)
  BY NoValueRound
<1>2. /\ i \in DOMAIN argv /\ Len(argv) \in Nat /\ a \in Argument /\ a \in Seq(Word) /\ a # Null
      /\ ~Bare(argv, i) /\ \A g : i \notin FlagsFor(argv, g)
  <2>1. i \in DOMAIN argv /\ Len(argv) \in Nat /\ a \in Argument
    OBVIOUS
  <2> QED
    BY <2>1, ArgumentParts, BareIs DEF FlagsFor, Flag
<1>3. \A g, v : Latest(argv, i - 1, g, v) => Latest(argv, i, g, v)
  BY <1>2, FieldsKept
<1>4. \A names : SaysUpTo(argv, i, names) <=> SaysUpTo(argv, i - 1, names) \/ name \in names
  <2>1. \A j : j \in 1 .. i <=> j \in 1 .. i - 1 \/ j = i
    OBVIOUS
  <2> QED
    BY <2>1, Zenon DEF SaysUpTo
<1>5. i \in Directories(argv) <=> ~Dashed(a)
  BY <1>1, <1>2 DEF Directories
<1>6. Dashed(a) => \A v : Place(argv, i - 1, v) => Place(argv, i, v)
  BY <1>5 DEF Place
<1>7. Sense(argv, i) <=> /\ name \notin UnknownFlags
                         /\ ~Dashed(a) => \A j \in 1 .. i - 1 : j \notin Directories(argv)
  BY <1>1, <1>5, SenseStep
<1>8. CASE name \in HelpFlags \/ name \in VersionFlags \/ name = "--no-git"
  <2> DEFINE new == Take(loop, a)
  <2>1. /\ new \in LoopState /\ new.threw = FALSE /\ new.awaiting = "nothing"
        /\ new.args.targetDir = loop.args.targetDir /\ new.args.example = loop.args.example
        /\ new.args.examplePath = loop.args.examplePath
        /\ new.args.git <=> loop.args.git /\ name # "--no-git"
        /\ new.args.help <=> loop.args.help \/ name \in HelpFlags
        /\ new.args.version <=> loop.args.version \/ name \in VersionFlags
    <3>1. CASE name \in HelpFlags
      <4>1. new = [loop EXCEPT !.args.help = TRUE]
        BY <3>1, Kinds DEF Take, Flag
      <4>2. /\ [loop EXCEPT !.args.help = TRUE] \in LoopState
            /\ new.threw = loop.threw /\ new.awaiting = loop.awaiting
            /\ new.args = [loop.args EXCEPT !.help = TRUE]
        BY <1>1, <4>1 DEF LoopState
      <4>3. /\ new.args.help = TRUE /\ new.args.git = loop.args.git
            /\ new.args.version = loop.args.version
            /\ new.args.targetDir = loop.args.targetDir /\ new.args.example = loop.args.example
            /\ new.args.examplePath = loop.args.examplePath
        BY <1>1, <4>2 DEF LoopState
      <4>4. name \in HelpFlags /\ name \notin VersionFlags /\ name # "--no-git"
        BY <3>1, Kinds
      <4>5. loop.threw = FALSE
        BY <1>1 DEF LoopState
      <4> HIDE DEF new, name
      <4> QED
        BY <4>1, <4>2, <4>3, <4>4, <4>5
    <3>2. CASE name \in VersionFlags
      <4>1. new = [loop EXCEPT !.args.version = TRUE]
        BY <3>2, Kinds DEF Take, Flag
      <4>2. /\ [loop EXCEPT !.args.version = TRUE] \in LoopState
            /\ new.threw = loop.threw /\ new.awaiting = loop.awaiting
            /\ new.args = [loop.args EXCEPT !.version = TRUE]
        BY <1>1, <4>1 DEF LoopState
      <4>3. /\ new.args.version = TRUE /\ new.args.git = loop.args.git
            /\ new.args.help = loop.args.help
            /\ new.args.targetDir = loop.args.targetDir /\ new.args.example = loop.args.example
            /\ new.args.examplePath = loop.args.examplePath
        BY <1>1, <4>2 DEF LoopState
      <4>4. name \in VersionFlags /\ name \notin HelpFlags /\ name # "--no-git"
        BY <3>2, Kinds
      <4>5. loop.threw = FALSE
        BY <1>1 DEF LoopState
      <4> HIDE DEF new, name
      <4> QED
        BY <4>1, <4>2, <4>3, <4>4, <4>5
    <3>3. CASE name = "--no-git"
      <4>1. new = [loop EXCEPT !.args.git = FALSE]
        BY <3>3, Kinds DEF Take, Flag
      <4>2. /\ [loop EXCEPT !.args.git = FALSE] \in LoopState
            /\ new.threw = loop.threw /\ new.awaiting = loop.awaiting
            /\ new.args = [loop.args EXCEPT !.git = FALSE]
        BY <1>1, <4>1 DEF LoopState
      <4>3. /\ new.args.git = FALSE /\ new.args.help = loop.args.help
            /\ new.args.version = loop.args.version
            /\ new.args.targetDir = loop.args.targetDir /\ new.args.example = loop.args.example
            /\ new.args.examplePath = loop.args.examplePath
        BY <1>1, <4>2 DEF LoopState
      <4>4. name = "--no-git" /\ name \notin HelpFlags /\ name \notin VersionFlags
        BY <3>3, Kinds
      <4>5. loop.threw = FALSE
        BY <1>1 DEF LoopState
      <4> HIDE DEF new, name
      <4> QED
        BY <4>1, <4>2, <4>3, <4>4, <4>5
    <3> QED
      BY <1>8, <3>1, <3>2, <3>3
  <2> HIDE DEF new
  <2>2. Dashed(a) /\ Sense(argv, i)
    BY <1>7, <1>8, Kinds
  <2>3. Heard(argv, i, new.args)
    <3>1. Place(argv, i, new.args.targetDir)
      BY <1>1, <1>6, <2>1, <2>2 DEF Heard
    <3>2. Latest(argv, i, "example", new.args.example)
          /\ Latest(argv, i, "examplePath", new.args.examplePath)
      BY <1>1, <1>3, <2>1 DEF Heard
    <3> QED
      BY <1>1, <1>4, <2>1, <3>1, <3>2 DEF Heard
  <2> QED
    BY <1>2, <2>1, <2>2, <2>3 DEF Progress, new
<1>9. CASE name \in UnknownFlags \/ (~Dashed(a) /\ loop.args.targetDir # Null)
  <2>1. Take(loop, a) = Threw(loop)
    BY <1>9, Kinds DEF Take, Flag
  <2>2. Threw(loop) \in LoopState /\ Threw(loop).threw
    BY <1>1 DEF Threw, LoopState
  <2>3. ~Sense(argv, i)
    BY <1>1, <1>7, <1>9 DEF Heard, Place
  <2> QED
    BY <2>1, <2>2, <2>3 DEF Progress
<1>10. CASE ~Dashed(a) /\ loop.args.targetDir = Null
  <2> DEFINE new == Take(loop, a)
  <2>1. new = [loop EXCEPT !.args.targetDir = a]
    BY <1>10, Kinds DEF Take, Flag
  <2>2. /\ new \in LoopState /\ new.threw = FALSE /\ new.awaiting = "nothing"
        /\ new.args.targetDir = a /\ new.args.example = loop.args.example
        /\ new.args.examplePath = loop.args.examplePath
        /\ new.args.git = loop.args.git /\ new.args.help = loop.args.help
        /\ new.args.version = loop.args.version
    BY <1>1, <1>2, <2>1 DEF LoopState
  <2> HIDE DEF new
  <2>3. \A j \in 1 .. i - 1 : j \notin Directories(argv)
    <3>1. \A j \in 1 .. i - 1 : argv[j] # Null
      BY ArgumentParts
    <3> QED
      BY <1>1, <1>10, <3>1 DEF Heard, Place
  <2>4. Sense(argv, i) /\ Place(argv, i, a)
    <3>1. name \notin UnknownFlags
      BY <1>10, Kinds
    <3> QED
      BY <1>5, <1>7, <1>10, <2>3, <3>1 DEF Place
  <2>5. Latest(argv, i, "example", new.args.example)
        /\ Latest(argv, i, "examplePath", new.args.examplePath)
    BY <1>1, <1>3, <2>2 DEF Heard
  <2>6. name \notin {"--no-git"} \cup HelpFlags \cup VersionFlags
    BY <1>10, Kinds
  <2>7. Heard(argv, i, new.args)
    BY <1>1, <1>4, <2>2, <2>4, <2>5, <2>6 DEF Heard
  <2> QED
    BY <1>2, <2>2, <2>4, <2>7 DEF Progress, new
<1> QED
  BY <1>8, <1>9, <1>10, Kinds

LEMMA RoundProgress ==
    ASSUME NEW argv \in Seq(Argument), NEW i \in 1 .. Len(argv), NEW loop,
           Progress(argv, i - 1, loop)
    PROVE  Progress(argv, i, Take(loop, argv[i]))
<1>1. CASE loop.threw
  <2>1. Take(loop, argv[i]) = loop
    BY <1>1 DEF Take
  <2>2. ~Sense(argv, i)
    BY <1>1, SenseStep DEF Progress
  <2> QED
    BY <1>1, <2>1, <2>2 DEF Progress
<1>2. CASE ~loop.threw
  BY <1>2, ValueRound, FlagRound, PlainRound
<1> QED
  BY <1>1, <1>2

LEMMA LoopProgress ==
    ASSUME NEW argv \in Seq(Argument)
    PROVE  Progress(argv, Len(argv), Loop(argv)[Len(argv)])
<1> DEFINE Bad == {i \in 0 .. Len(argv) : ~Progress(argv, i, Loop(argv)[i])}
<1>1. Len(argv) \in Nat /\ Bad \in SUBSET Nat
  OBVIOUS
<1>2. SUFFICES ASSUME Bad # {} PROVE FALSE
  BY <1>1
<1>3. PICK i \in Bad : \A j \in Bad : i <= j
  BY <1>1, <1>2, Smallest
<1>4. i \in 0 .. Len(argv) /\ ~Progress(argv, i, Loop(argv)[i])
  OBVIOUS
<1>5. Loop(argv)[i] = IF i = 0 THEN Begin ELSE Take(Loop(argv)[i - 1], argv[i])
  BY <1>4, Rounds
<1>6. i # 0
  BY <1>4, <1>5, BeginProgress
<1>7. i - 1 \in 0 .. Len(argv) /\ ~(i <= i - 1)
  BY <1>1, <1>4, <1>6
<1>8. Progress(argv, i - 1, Loop(argv)[i - 1])
  <2>1. i - 1 \notin Bad
    BY <1>3, <1>7
  <2> QED
    BY <1>7, <2>1
<1>9. i \in 1 .. Len(argv)
  BY <1>4, <1>6
<1>10. Progress(argv, i, Take(Loop(argv)[i - 1], argv[i]))
  BY <1>8, <1>9, RoundProgress
<1> QED
  BY <1>4, <1>5, <1>6, <1>10


LEMMA AtMostOne ==
    ASSUME NEW D, IsFiniteSet(D)
    PROVE  Cardinality(D) <= 1 <=> \A j, k \in D : j = k
<1>1. CASE D = {}
  BY <1>1, FS_EmptySet
<1>2. ASSUME NEW x, D = {x} PROVE Cardinality(D) = 1
  BY <1>2, FS_Singleton
<1>3. ASSUME NEW x \in D, NEW y \in D, x # y PROVE ~(Cardinality(D) <= 1)
  <2>1. IsFiniteSet({x}) /\ Cardinality({x}) = 1
    BY FS_Singleton
  <2>2. y \notin {x}
    BY <1>3
  <2> DEFINE Both == {x} \cup {y}
  <2>3. Cardinality(Both) = IF y \in {x} THEN Cardinality({x}) ELSE Cardinality({x}) + 1
    BY ONLY <2>1, FS_AddElement, ZenonT(30)
  <2>4. Both \subseteq D
    BY <1>3
  <2> HIDE DEF Both
  <2>5. Cardinality(Both) <= Cardinality(D) /\ Cardinality(D) \in Nat
    BY <2>4, FS_Subset, FS_CardinalityType
  <2> QED
    BY <2>1, <2>2, <2>3, <2>5
<1>4. CASE D # {}
  <2>1. PICK x \in D : TRUE
    BY <1>4
  <2>2. (\A j, k \in D : j = k) => D = {x}
    OBVIOUS
  <2> QED
    BY <1>2, <1>3, <2>2
<1> QED
  BY <1>1, <1>4

\* The loop makes sense of a command line, and no flag is left without its value.
Complete(argv) == Sense(argv, Len(argv)) /\ (Len(argv) # 0 => ~Bare(argv, Len(argv)))

\* A flag has a value exactly where a command line is complete.
LEMMA ValuesThere ==
    ASSUME NEW argv \in Seq(Argument)
    PROVE  /\ Complete(argv) =>
                 \A i \in DOMAIN argv : Flag(argv[i]) => ValueOf(argv, i) \notin {Null, Empty}
           /\ (\A i \in DOMAIN argv : Flag(argv[i]) => ValueOf(argv, i) \notin {Null, Empty})
                 => /\ \A i \in DOMAIN argv : Flag(argv[i]) => Tail(argv[i]) # Empty
                    /\ \A i \in DOMAIN argv : IsValue(argv, i) => argv[i] # Empty
                    /\ Len(argv) # 0 => ~Bare(argv, Len(argv))
<1>1. Len(argv) \in Nat /\ DOMAIN argv = 1 .. Len(argv)
  OBVIOUS
<1>2. ASSUME NEW i \in DOMAIN argv
      PROVE  /\ argv[i] # Null
             /\ Bare(argv, i) <=> Flag(argv[i]) /\ Tail(argv[i]) = Null
             /\ ~Bare(argv, i) => ValueOf(argv, i) = Tail(argv[i])
             /\ Bare(argv, i) /\ i # Len(argv) =>
                   i + 1 \in DOMAIN argv /\ ValueOf(argv, i) = argv[i + 1]
             /\ Bare(argv, i) /\ i = Len(argv) => ValueOf(argv, i) = Null
             /\ Bare(argv, i) /\ i # Len(argv) => IsValue(argv, i + 1)
  <2>1. argv[i] # Null /\ (Bare(argv, i) <=> Flag(argv[i]) /\ Tail(argv[i]) = Null)
    BY ArgumentParts, BareIs
  <2>2. i # Len(argv) => i + 1 \in DOMAIN argv
    BY <1>1
  <2>3. i = Len(argv) => i + 1 \notin DOMAIN argv
    BY <1>1
  <2>4. (i + 1) - 1 = i
    BY <1>1
  <2> QED
    BY <2>1, <2>2, <2>3, <2>4 DEF ValueOf, IsValue
<1>3. ASSUME Complete(argv), NEW i \in DOMAIN argv, Flag(argv[i])
      PROVE  ValueOf(argv, i) \notin {Null, Empty}
  <2>1. CASE ~Bare(argv, i)
    BY <1>1, <1>2, <1>3, <2>1 DEF Complete, Sense
  <2>2. CASE Bare(argv, i)
    <3>1. i # Len(argv)
      BY <1>1, <1>3, <2>2 DEF Complete
    <3>2. /\ i + 1 \in DOMAIN argv /\ ValueOf(argv, i) = argv[i + 1]
          /\ IsValue(argv, i + 1) /\ argv[i + 1] # Null
      BY <1>2, <2>2, <3>1
    <3> QED
      BY <1>1, <1>3, <3>2 DEF Complete, Sense
  <2> QED
    BY <2>1, <2>2
<1>4. ASSUME \A i \in DOMAIN argv : Flag(argv[i]) => ValueOf(argv, i) \notin {Null, Empty}
      PROVE  /\ \A i \in DOMAIN argv : Flag(argv[i]) => Tail(argv[i]) # Empty
             /\ \A i \in DOMAIN argv : IsValue(argv, i) => argv[i] # Empty
             /\ Len(argv) # 0 => ~Bare(argv, Len(argv))
  <2>1. ASSUME NEW i \in DOMAIN argv, Flag(argv[i]) PROVE Tail(argv[i]) # Empty
    BY <1>2, <1>4, <2>1, EmptyText
  <2>2. ASSUME NEW i \in DOMAIN argv, IsValue(argv, i) PROVE argv[i] # Empty
    <3>1. i - 1 \in DOMAIN argv /\ Bare(argv, i - 1) /\ i - 1 # Len(argv) /\ (i - 1) + 1 = i
      BY <1>1, <2>2 DEF IsValue
    <3>2. Flag(argv[i - 1]) /\ ValueOf(argv, i - 1) = argv[i]
      BY <1>2, <3>1
    <3> QED
      BY <1>4, <3>1, <3>2
  <2>3. ASSUME Len(argv) # 0 PROVE ~Bare(argv, Len(argv))
    <3>1. Len(argv) \in DOMAIN argv
      BY <1>1, <2>3
    <3> QED
      BY <1>2, <1>4, <3>1
  <2> QED
    BY <2>1, <2>2, <2>3
<1> QED
  BY <1>3, <1>4

FieldFlags(argv) == FlagsFor(argv, "example") \cup FlagsFor(argv, "examplePath")

LEMMA FlagsAreFields ==
    ASSUME NEW argv \in Seq(Argument)
    PROVE  \A i : i \in FieldFlags(argv) <=> i \in DOMAIN argv /\ Flag(argv[i])
BY DEF FieldFlags, FlagsFor, Flag, ValueFlags

LEMMA WellFormedIs ==
    ASSUME NEW argv \in Seq(Argument)
    PROVE  WellFormed(argv) <=>
              /\ Complete(argv)
              /\ FlagsFor(argv, "examplePath") # {} => FlagsFor(argv, "example") # {}
<1>1. Len(argv) \in Nat /\ DOMAIN argv = 1 .. Len(argv)
  OBVIOUS
<1>2. Cardinality(Directories(argv)) <= 1
         <=> \A j, k \in 1 .. Len(argv) :
                j \in Directories(argv) /\ k \in Directories(argv) => j = k
  <2>1. Directories(argv) \subseteq 1 .. Len(argv)
    BY <1>1 DEF Directories
  <2>2. IsFiniteSet(Directories(argv))
    <3>1. IsFiniteSet(1 .. Len(argv))
      BY <1>1, FS_Interval
    <3> QED
      BY <2>1, <3>1, FS_Subset
  <2> QED
    BY <2>1, <2>2, AtMostOne
<1>3. (\A i \in FieldFlags(argv) : ValueOf(argv, i) \notin {Null, Empty})
         <=> \A i \in DOMAIN argv : Flag(argv[i]) => ValueOf(argv, i) \notin {Null, Empty}
  BY FlagsAreFields
<1>4. ASSUME Complete(argv), FlagsFor(argv, "examplePath") # {} => FlagsFor(argv, "example") # {}
      PROVE  WellFormed(argv)
  BY <1>1, <1>2, <1>3, <1>4, ValuesThere DEF WellFormed, Complete, Sense, FieldFlags
<1>5. ASSUME WellFormed(argv) PROVE Complete(argv)
  BY <1>1, <1>2, <1>3, <1>5, ValuesThere DEF WellFormed, Complete, Sense, FieldFlags
<1> QED
  BY <1>4, <1>5 DEF WellFormed

\* A field that is heard is the field that is meant.
LEMMA LatestIsMeant ==
    ASSUME NEW argv \in Seq(Argument), Complete(argv), NEW field, NEW value,
           Latest(argv, Len(argv), field, value)
    PROVE  value = Meant(argv, field)
<1>1. FlagsFor(argv, field) \subseteq 1 .. Len(argv) /\ Len(argv) \in Nat
  BY DEF FlagsFor
<1>2. Served(argv, Len(argv), field) = FlagsFor(argv, field)
  BY <1>1 DEF Served, Complete
<1>3. CASE FlagsFor(argv, field) = {}
  BY <1>2, <1>3 DEF Latest, Meant
<1>4. CASE FlagsFor(argv, field) # {}
  <2>1. PICK j \in FlagsFor(argv, field) :
           (\A k \in FlagsFor(argv, field) : k <= j) /\ value = ValueOf(argv, j)
    BY <1>2, <1>4 DEF Latest
  <2>2. \A i \in FlagsFor(argv, field) : (\A k \in FlagsFor(argv, field) : k <= i) => i = j
    BY <1>1, <2>1
  <2>3. j = CHOOSE i \in FlagsFor(argv, field) : \A k \in FlagsFor(argv, field) : k <= i
    BY <2>1, <2>2
  <2> QED
    BY <1>4, <2>1, <2>3 DEF Meant
<1> QED
  BY <1>3, <1>4

LEMMA UnderstoodAsMeant ==
    ASSUME NEW argv \in Seq(Argument)
    PROVE  Understood(argv, ParseArgs(argv))
<1> DEFINE n == Len(argv)
           end == Loop(argv)[n]
           orphan == end.args.examplePath # Null /\ end.args.example = Null
           stopped == end.threw \/ end.awaiting # "nothing" \/ orphan
<1>1. Progress(argv, n, end)
  BY LoopProgress
<1>2. n \in Nat /\ DOMAIN argv = 1 .. n
  OBVIOUS
<1>3. ParseArgs(argv).threw = stopped /\ (~stopped => ParseArgs(argv).args = end.args)
  BY DEF ParseArgs
<1> HIDE DEF end
<1>4. (end.threw \/ end.awaiting # "nothing") <=> ~Complete(argv)
  <2>1. ASSUME n # 0, Bare(argv, n) PROVE ValueFlags[Head(argv[n])] # "nothing"
    <3>1. Flag(argv[n])
      BY <1>2, <2>1, BareIs
    <3> QED
      BY <3>1 DEF Flag, ValueFlags
  <2> QED
    BY <1>1, <2>1 DEF Progress, Complete
<1>5. ASSUME Complete(argv)
      PROVE  /\ Heard(argv, n, end.args)
             /\ end.args.example = Meant(argv, "example")
             /\ end.args.examplePath = Meant(argv, "examplePath")
  <2>1. Heard(argv, n, end.args)
    BY <1>1, <1>5 DEF Progress, Complete
  <2> QED
    BY <1>5, <2>1, LatestIsMeant DEF Heard
<1>6. ASSUME Complete(argv), NEW field \in Fields
      PROVE  Meant(argv, field) = Null <=> FlagsFor(argv, field) = {}
  <2>1. CASE FlagsFor(argv, field) = {}
    BY <2>1 DEF Meant
  <2>2. CASE FlagsFor(argv, field) # {}
    <3>1. PICK j \in FlagsFor(argv, field) : Meant(argv, field) = ValueOf(argv, j)
      <4>1. Latest(argv, n, field, Meant(argv, field))
        BY <1>5, <1>6 DEF Heard, Fields
      <4>2. Served(argv, n, field) \subseteq FlagsFor(argv, field)
        BY DEF Served
      <4>3. Served(argv, n, field) = {} => FALSE
        BY <1>2, <1>6, <2>2 DEF Served, Complete, FlagsFor
      <4> QED
        BY <4>1, <4>2, <4>3 DEF Latest
    <3>2. j \in DOMAIN argv /\ Flag(argv[j])
      BY DEF FlagsFor, Flag
    <3> QED
      BY <1>6, <2>2, <3>1, <3>2, ValuesThere
  <2> QED
    BY <2>1, <2>2
<1>7. stopped <=> ~WellFormed(argv)
  BY <1>4, <1>5, <1>6, WellFormedIs DEF Fields
<1>8. ASSUME ~stopped
      PROVE  /\ \A field \in {"example", "examplePath"} : end.args[field] = Meant(argv, field)
             /\ end.args.targetDir =
                   IF Directories(argv) = {} THEN Null
                   ELSE argv[CHOOSE i \in Directories(argv) : TRUE]
             /\ end.args.git <=> ~Says(argv, {"--no-git"})
             /\ end.args.help <=> Says(argv, HelpFlags)
             /\ end.args.version <=> Says(argv, VersionFlags)
  <2>1. Complete(argv) /\ Heard(argv, n, end.args)
    BY <1>4, <1>5, <1>8
  <2>2. \A field \in {"example", "examplePath"} : end.args[field] = Meant(argv, field)
    BY <1>5, <2>1
  <2>3. \A names : SaysUpTo(argv, n, names) <=> Says(argv, names)
    BY <1>2 DEF SaysUpTo, Says
  <2>4. end.args.targetDir = IF Directories(argv) = {} THEN Null
                             ELSE argv[CHOOSE i \in Directories(argv) : TRUE]
    <3>1. Directories(argv) \subseteq 1 .. n
      BY <1>2 DEF Directories
    <3>2. CASE Directories(argv) = {}
      BY <2>1, <3>2 DEF Heard, Place
    <3>3. CASE Directories(argv) # {}
      <4>1. PICK j \in Directories(argv) : end.args.targetDir = argv[j]
        BY <2>1, <3>1, <3>3 DEF Heard, Place
      <4>2. \A i \in Directories(argv) : i = j
        BY <2>1, <3>1 DEF Complete, Sense
      <4>3. (CHOOSE i \in Directories(argv) : TRUE) = j
        BY <4>2
      <4> QED
        BY <3>3, <4>1, <4>3
    <3> QED
      BY <3>2, <3>3
  <2> QED
    BY <2>1, <2>2, <2>3, <2>4 DEF Heard
<1> QED
  BY <1>3, <1>7, <1>8 DEF Understood

\* An input that is a command line is a sequence of arguments.
LEMMA CommandLinesOnly ==
    ASSUME NEW i \in Inputs, i.kind = "argv" PROVE i.argv \in Seq(Argument)
<1>1. i \notin QueryInputs /\ i \notin AddressInputs4
  BY DEF QueryInputs, AddressInputs4
<1>2. i \notin AddressInputs6 /\ i \notin ExampleInputs
  BY DEF AddressInputs6, ExampleInputs, AskedFor
<1> QED
  BY <1>1, <1>2, CommandLineAssumption DEF Inputs, CommandLineInputs

\* However long a command line is, every value goes with its flag, nothing is
\* dropped or taken for something else, and what means nothing is refused
\* (parseArgs).
THEOREM CommandLinesUnderstoodHolds == Spec => []CommandLinesUnderstood
<1> DEFINE Inv == input \in Inputs /\ CommandLinesUnderstood
<1>1. Init => Inv
  BY DEF Init, NotYet, CommandLinesUnderstood
<1>2. Inv /\ [Next]_vars => Inv'
  <2> SUFFICES ASSUME Inv, [Next]_vars PROVE Inv'
    OBVIOUS
  <2>1. ASSUME NEW kind, NEW result, Decided(kind, result), kind # "argv" PROVE Inv'
    BY <2>1 DEF Decided, CommandLinesUnderstood
  <2>2. ASSUME ReadCommandLine PROVE Inv'
    <3>1. /\ input' = input /\ input.kind = "argv" /\ output'.result = ParseArgs(input.argv)
      BY <2>2 DEF ReadCommandLine, Decided
    <3>2. Understood(input.argv, output'.result)
      BY <3>1, CommandLinesOnly, UnderstoodAsMeant
    <3> QED
      BY <3>1, <3>2 DEF CommandLinesUnderstood
  <2>3. ASSUME UNCHANGED vars PROVE Inv'
    BY <2>3 DEF vars, CommandLinesUnderstood
  <2> QED
    BY <2>1, <2>2, <2>3 DEF Next, FindExample, JudgeAddress, CheckQuery
<1> QED
  BY <1>1, <1>2, PTL DEF Spec

-----------------------------------------------------------------------------
(* Queries.  Loops that push, and groups behind each other.                *)

\* What a loop pushes, pair by pair.
LEMMA PushedRounds ==
    ASSUME NEW S, NEW s \in Seq(S), NEW wanted
    PROVE  \E f : /\ f = [n \in 0 .. Len(s) |->
                            IF n = 0 THEN <<>>
                            ELSE IF s[n] \in wanted THEN Append(f[n - 1], s[n]) ELSE f[n - 1]]
                  /\ Pushed(s, wanted) = f[Len(s)]
<1> DEFINE Is(f, m) == f = [n \in 0 .. m |->
                              IF n = 0 THEN <<>>
                              ELSE IF s[n] \in wanted THEN Append(f[n - 1], s[n]) ELSE f[n - 1]]
           Fine == {m \in Nat : \E f : Is(f, m)}
<1>1. 0 \in Fine
  <2>1. Is([n \in 0 .. 0 |-> <<>>], 0)
    OBVIOUS
  <2> QED
    BY <2>1
<1>2. ASSUME NEW m \in Nat, m \in Fine PROVE m + 1 \in Fine
  <2>1. PICK f : Is(f, m)
    BY <1>2
  <2> DEFINE g == [n \in 0 .. m + 1 |->
                     IF n <= m THEN f[n]
                     ELSE IF s[m + 1] \in wanted THEN Append(f[m], s[m + 1]) ELSE f[m]]
  <2>2. ASSUME NEW n \in 0 .. m + 1
        PROVE  g[n] = IF n = 0 THEN <<>>
                      ELSE IF s[n] \in wanted THEN Append(g[n - 1], s[n]) ELSE g[n - 1]
    <3>1. CASE n = m + 1
      BY <3>1
    <3>2. CASE n # m + 1
      <4>1. n \in 0 .. m /\ f[n] = IF n = 0 THEN <<>>
                          ELSE IF s[n] \in wanted THEN Append(f[n - 1], s[n]) ELSE f[n - 1]
        <5>1. n \in 0 .. m
          BY <3>2
        <5> QED
          BY <2>1, <5>1
      <4> QED
        BY <4>1
    <3> QED
      BY <3>1, <3>2
  <2>3. g = [n \in 0 .. m + 1 |-> g[n]]
    OBVIOUS
  <2> HIDE DEF g
  <2>4. Is(g, m + 1)
    BY <2>2, <2>3
  <2> QED
    BY <2>4
<1>3. Len(s) \in Fine
  <2> HIDE DEF Fine
  <2> QED
    BY <1>1, <1>2, Counting
<1>4. \E f : Is(f, Len(s))
  BY <1>3
<1> QED
  BY <1>4 DEF Pushed

LEMMA PushedNothing == ASSUME NEW wanted PROVE Pushed(<<>>, wanted) = <<>>
<1> DEFINE s == <<>>
<1>1. s \in Seq({}) /\ Len(s) = 0
  OBVIOUS
<1> HIDE DEF s
<1>2. PICK f : /\ f = [n \in 0 .. Len(s) |->
                         IF n = 0 THEN <<>>
                         ELSE IF s[n] \in wanted THEN Append(f[n - 1], s[n]) ELSE f[n - 1]]
               /\ Pushed(s, wanted) = f[Len(s)]
  BY <1>1, PushedRounds
<1>3. Pushed(s, wanted) = <<>>
  BY <1>1, <1>2
<1> QED
  BY <1>3 DEF s

LEMMA PushedOneMore ==
    ASSUME NEW S, NEW s \in Seq(S), NEW x \in S, NEW wanted
    PROVE  Pushed(Append(s, x), wanted) =
             IF x \in wanted THEN Append(Pushed(s, wanted), x) ELSE Pushed(s, wanted)
<1> DEFINE t == Append(s, x)
           Round(f, u, n) == IF n = 0 THEN <<>>
                             ELSE IF u[n] \in wanted THEN Append(f[n - 1], u[n]) ELSE f[n - 1]
<1>1. /\ t \in Seq(S) /\ Len(s) \in Nat /\ Len(t) = Len(s) + 1 /\ t[Len(s) + 1] = x
      /\ \A n \in 1 .. Len(s) : t[n] = s[n]
  OBVIOUS
<1> HIDE DEF t
<1>2. PICK f : f = [n \in 0 .. Len(s) |-> Round(f, s, n)] /\ Pushed(s, wanted) = f[Len(s)]
  BY PushedRounds
<1>3. PICK g : g = [n \in 0 .. Len(t) |-> Round(g, t, n)] /\ Pushed(t, wanted) = g[Len(t)]
  BY <1>1, PushedRounds
<1> DEFINE Same == {n \in Nat : n <= Len(s) => g[n] = f[n]}
<1>4. 0 \in Same
  BY <1>1, <1>2, <1>3
<1>5. ASSUME NEW n \in Nat, n \in Same PROVE n + 1 \in Same
  <2> SUFFICES ASSUME n + 1 <= Len(s) PROVE g[n + 1] = f[n + 1]
    OBVIOUS
  <2>1. n + 1 \in 1 .. Len(s) /\ n + 1 \in 0 .. Len(s) /\ n + 1 \in 0 .. Len(t) /\ n <= Len(s)
        /\ (n + 1) - 1 = n
    BY <1>1
  <2>2. g[n] = f[n] /\ t[n + 1] = s[n + 1]
    BY <1>1, <1>5, <2>1
  <2>3. f[n + 1] = Round(f, s, n + 1) /\ g[n + 1] = Round(g, t, n + 1)
    BY <1>2, <1>3, <2>1
  <2> QED
    BY <2>1, <2>2, <2>3
<1>6. Len(s) \in Same
  <2> HIDE DEF Same
  <2> QED
    BY <1>1, <1>4, <1>5, Counting
<1>7. g[Len(s)] = f[Len(s)]
  BY <1>1, <1>6
<1>8. g[Len(s) + 1] = Round(g, t, Len(s) + 1)
  <2>1. Len(s) + 1 \in 0 .. Len(t)
    BY <1>1
  <2> HIDE DEF Round
  <2> QED
    BY <1>3, <2>1
<1>9. (Len(s) + 1) - 1 = Len(s) /\ Len(s) + 1 # 0
  BY <1>1
<1> QED
  BY <1>1, <1>2, <1>3, <1>7, <1>8, <1>9 DEF t


\* Facts about what is pushed, each by induction over the pairs.
LEMMA PushedTyped ==
    ASSUME NEW S, NEW wanted
    PROVE  \A s \in Seq(S) : Pushed(s, wanted) \in Seq(S)
<1> DEFINE T == {s \in Seq(S) : Pushed(s, wanted) \in Seq(S)}
<1>1. <<>> \in T
  <2>1. <<>> \in Seq(S)
    OBVIOUS
  <2> QED
    BY <2>1, PushedNothing
<1>2. ASSUME NEW s \in Seq(S), NEW x \in S, s \in T PROVE Append(s, x) \in T
  <2>1. Pushed(s, wanted) \in Seq(S) /\ Append(s, x) \in Seq(S)
    BY <1>2
  <2>2. Pushed(Append(s, x), wanted) =
           IF x \in wanted THEN Append(Pushed(s, wanted), x) ELSE Pushed(s, wanted)
    BY PushedOneMore
  <2>3. Append(Pushed(s, wanted), x) \in Seq(S)
    BY <2>1
  <2> QED
    BY <2>1, <2>2, <2>3
<1> HIDE DEF T
<1>3. Seq(S) \subseteq T
  BY <1>1, <1>2, Growing
<1> QED
  BY <1>3 DEF T

LEMMA PushedJoined ==
    ASSUME NEW S, NEW wanted, NEW s \in Seq(S)
    PROVE  \A t \in Seq(S) : Pushed(s \o t, wanted) = Pushed(s, wanted) \o Pushed(t, wanted)
<1> DEFINE T == {t \in Seq(S) : Pushed(s \o t, wanted) = Pushed(s, wanted) \o Pushed(t, wanted)}
<1>1. <<>> \in T
  <2>1. s \o <<>> = s /\ Pushed(s, wanted) \in Seq(S) /\ <<>> \in Seq(S)
    BY PushedTyped
  <2>2. Pushed(s, wanted) \o <<>> = Pushed(s, wanted)
    BY <2>1
  <2> QED
    BY <2>1, <2>2, PushedNothing
<1>2. ASSUME NEW t \in Seq(S), NEW x \in S, t \in T PROVE Append(t, x) \in T
  <2>1. s \o Append(t, x) = Append(s \o t, x) /\ s \o t \in Seq(S) /\ Append(t, x) \in Seq(S)
    OBVIOUS
  <2>2. Pushed(s, wanted) \in Seq(S) /\ Pushed(t, wanted) \in Seq(S)
    BY PushedTyped
  <2>3. Pushed(s, wanted) \o Append(Pushed(t, wanted), x)
           = Append(Pushed(s, wanted) \o Pushed(t, wanted), x)
    BY <2>2
  <2>4. Pushed(Append(s \o t, x), wanted) =
           IF x \in wanted THEN Append(Pushed(s \o t, wanted), x) ELSE Pushed(s \o t, wanted)
    BY <2>1, PushedOneMore
  <2>5. Pushed(Append(t, x), wanted) =
           IF x \in wanted THEN Append(Pushed(t, wanted), x) ELSE Pushed(t, wanted)
    BY PushedOneMore
  <2>6. Pushed(s \o t, wanted) = Pushed(s, wanted) \o Pushed(t, wanted)
    BY <1>2
  <2> QED
    BY <2>1, <2>3, <2>4, <2>5, <2>6
<1> HIDE DEF T
<1>3. Seq(S) \subseteq T
  BY <1>1, <1>2, Growing
<1> QED
  BY <1>3 DEF T

LEMMA PushedTwice ==
    ASSUME NEW S, NEW first, NEW second
    PROVE  \A s \in Seq(S) : Pushed(Pushed(s, first), second) = Pushed(s, first \cap second)
<1> DEFINE T == {s \in Seq(S) : Pushed(Pushed(s, first), second) = Pushed(s, first \cap second)}
<1>1. <<>> \in T
  BY PushedNothing
<1>2. ASSUME NEW s \in Seq(S), NEW x \in S, s \in T PROVE Append(s, x) \in T
  <2>1. Pushed(s, first) \in Seq(S) /\ Append(s, x) \in Seq(S)
    BY PushedTyped
  <2>2. Pushed(Append(s, x), first) =
           IF x \in first THEN Append(Pushed(s, first), x) ELSE Pushed(s, first)
    BY PushedOneMore
  <2>3. Pushed(Append(s, x), first \cap second) =
           IF x \in first \cap second THEN Append(Pushed(s, first \cap second), x)
           ELSE Pushed(s, first \cap second)
    BY PushedOneMore
  <2>4. Pushed(Append(Pushed(s, first), x), second) =
           IF x \in second THEN Append(Pushed(Pushed(s, first), second), x)
           ELSE Pushed(Pushed(s, first), second)
    BY <2>1, PushedOneMore
  <2>5. Pushed(Pushed(s, first), second) = Pushed(s, first \cap second)
    BY <1>2
  <2>6. Pushed(Pushed(Append(s, x), first), second) = Pushed(Append(s, x), first \cap second)
    <3>1. CASE x \in first
      <4>1. Pushed(Append(s, x), first) = Append(Pushed(s, first), x)
        BY <3>1, <2>2
      <4>2. x \in first \cap second <=> x \in second
        BY <3>1
      <4> QED
        BY <4>1, <4>2, <2>3, <2>4, <2>5, Zenon
    <3>2. CASE x \notin first
      BY <3>2, <2>2, <2>3, <2>5
    <3> QED
      BY <3>1, <3>2
  <2> QED
    BY <2>1, <2>6
<1> HIDE DEF T
<1>3. Seq(S) \subseteq T
  BY <1>1, <1>2, Growing
<1> QED
  BY <1>3 DEF T

\* Who wants nothing, or all, of what there is.
LEMMA PushedNone ==
    ASSUME NEW S, NEW wanted, S \cap wanted = {}
    PROVE  \A s \in Seq(S) : Pushed(s, wanted) = <<>>
<1> DEFINE T == {s \in Seq(S) : Pushed(s, wanted) = <<>>}
<1>1. <<>> \in T
  BY PushedNothing
<1>2. ASSUME NEW s \in Seq(S), NEW x \in S, s \in T PROVE Append(s, x) \in T
  <2>1. x \notin wanted /\ Append(s, x) \in Seq(S) /\ Pushed(s, wanted) = <<>>
    BY <1>2
  <2> QED
    BY <2>1, PushedOneMore
<1> HIDE DEF T
<1>3. Seq(S) \subseteq T
  BY <1>1, <1>2, Growing
<1> QED
  BY <1>3 DEF T


-----------------------------------------------------------------------------
\* The groups of the first m keys, one behind the other.
Groups(pairs, m) == [i \in 1 .. m |-> Pushed(pairs, WithKey(KeyOrder[i]))]

Upto(pairs, m) == FlattenSeq(Groups(pairs, m))

LEMMA FlatNothing == FlattenSeq(<<>>) = <<>>
BY DEF FlattenSeq

LEMMA FlatRounds ==
    ASSUME NEW S, NEW g \in Seq(S), g # <<>>
    PROVE  \E f : /\ f = [n \in 1 .. Len(g) |-> IF n = 1 THEN g[n] ELSE f[n - 1] \o g[n]]
                  /\ FlattenSeq(g) = f[Len(g)]
<1> DEFINE Is(f, m) == f = [n \in 1 .. m |-> IF n = 1 THEN g[n] ELSE f[n - 1] \o g[n]]
           Fine == {m \in Nat : \E f : Is(f, m)}
<1>1. 0 \in Fine
  <2>1. Is([n \in 1 .. 0 |-> <<>>], 0)
    OBVIOUS
  <2> QED
    BY <2>1
<1>2. ASSUME NEW m \in Nat, m \in Fine PROVE m + 1 \in Fine
  <2>1. PICK f : Is(f, m)
    BY <1>2
  <2> DEFINE h == [n \in 1 .. m + 1 |->
                     IF n <= m THEN f[n] ELSE IF n = 1 THEN g[n] ELSE f[m] \o g[n]]
  <2>2. ASSUME NEW n \in 1 .. m + 1
        PROVE  h[n] = IF n = 1 THEN g[n] ELSE h[n - 1] \o g[n]
    <3>1. CASE n = m + 1
      BY <3>1
    <3>2. CASE n # m + 1
      <4>1. n \in 1 .. m /\ f[n] = IF n = 1 THEN g[n] ELSE f[n - 1] \o g[n]
        <5>1. n \in 1 .. m
          BY <3>2
        <5> QED
          BY <2>1, <5>1
      <4> QED
        BY <4>1
    <3> QED
      BY <3>1, <3>2
  <2>3. h = [n \in 1 .. m + 1 |-> h[n]]
    OBVIOUS
  <2> HIDE DEF h
  <2>4. Is(h, m + 1)
    BY <2>2, <2>3
  <2>5. \E next : Is(next, m + 1)
    <3> HIDE DEF Is
    <3> QED
      BY <2>4
  <2>6. m + 1 \in Nat
    OBVIOUS
  <2> HIDE DEF Is
  <2> QED
    BY <2>5, <2>6, Zenon
<1>3. Len(g) \in Fine
  <2> HIDE DEF Fine
  <2> QED
    BY <1>1, <1>2, Counting
<1>4. \E f : Is(f, Len(g))
  BY <1>3
<1>5. Len(g) # 0
  OBVIOUS
<1> QED
  BY <1>4, <1>5 DEF FlattenSeq

LEMMA FlatOneMore ==
    ASSUME NEW S, NEW g \in Seq(Seq(S)), NEW s \in Seq(S)
    PROVE  FlattenSeq(Append(g, s)) = FlattenSeq(g) \o s
<1> DEFINE t == Append(g, s)
           Round(f, u, n) == IF n = 1 THEN u[n] ELSE f[n - 1] \o u[n]
<1>1. /\ t \in Seq(Seq(S)) /\ Len(g) \in Nat /\ Len(t) = Len(g) + 1 /\ t[Len(g) + 1] = s
      /\ \A n \in 1 .. Len(g) : t[n] = g[n]
      /\ t # <<>>
  OBVIOUS
<1> HIDE DEF t
<1>2. PICK h : h = [n \in 1 .. Len(t) |-> Round(h, t, n)] /\ FlattenSeq(t) = h[Len(t)]
  BY <1>1, FlatRounds
<1>3. CASE g = <<>>
  <2>1. Len(g) = 0 /\ FlattenSeq(g) = <<>>
    BY <1>3, FlatNothing
  <2>2. h[1] = s
    BY <1>1, <1>2, <2>1
  <2>3. FlattenSeq(t) = s
    BY <1>1, <1>2, <2>1, <2>2
  <2>4. <<>> \o s = s
    OBVIOUS
  <2> QED
    BY <2>1, <2>3, <2>4 DEF t
<1>4. CASE g # <<>>
  <2>1. PICK f : f = [n \in 1 .. Len(g) |-> Round(f, g, n)] /\ FlattenSeq(g) = f[Len(g)]
    BY <1>4, FlatRounds
  <2> DEFINE Same == {n \in Nat : n \in 1 .. Len(g) => h[n] = f[n]}
  <2>2. 0 \in Same
    OBVIOUS
  <2>3. ASSUME NEW n \in Nat, n \in Same PROVE n + 1 \in Same
    <3> SUFFICES ASSUME n + 1 <= Len(g) PROVE h[n + 1] = f[n + 1]
      OBVIOUS
    <3>1. n + 1 \in 1 .. Len(g) /\ n + 1 \in 1 .. Len(t) /\ (n + 1) - 1 = n /\ t[n + 1] = g[n + 1]
      BY <1>1
    <3>2. f[n + 1] = Round(f, g, n + 1) /\ h[n + 1] = Round(h, t, n + 1)
      BY <1>2, <2>1, <3>1
    <3>3. n # 0 => h[n] = f[n]
      BY <2>3, <3>1
    <3> QED
      BY <3>1, <3>2, <3>3
  <2>4. Len(g) \in Same
    <3> HIDE DEF Same
    <3> QED
      BY <1>1, <2>2, <2>3, Counting
  <2>5. Len(g) # 0
    BY <1>4
  <2>6. h[Len(g)] = f[Len(g)]
    BY <1>1, <2>4, <2>5
  <2>7. h[Len(g) + 1] = Round(h, t, Len(g) + 1)
    <3>1. Len(g) + 1 \in 1 .. Len(t)
      BY <1>1
    <3> HIDE DEF Round
    <3> QED
      BY <1>2, <3>1
  <2>8. (Len(g) + 1) - 1 = Len(g) /\ Len(g) + 1 # 1
    BY <1>1, <2>5
  <2> QED
    BY <1>1, <1>2, <2>1, <2>6, <2>7, <2>8 DEF t
<1> QED
  BY <1>3, <1>4

LEMMA UptoNothing == ASSUME NEW s PROVE Upto(s, 0) = <<>>
<1>1. Groups(s, 0) = <<>>
  BY DEF Groups
<1> QED
  BY <1>1, FlatNothing DEF Upto

LEMMA UptoOneMore ==
    ASSUME NEW S, NEW s \in Seq(S), NEW m \in Nat
    PROVE  Upto(s, m + 1) = Upto(s, m) \o Pushed(s, WithKey(KeyOrder[m + 1]))
<1>1. \A i : Pushed(s, WithKey(KeyOrder[i])) \in Seq(S)
  BY PushedTyped
<1>2. Groups(s, m) \in Seq(Seq(S)) /\ Len(Groups(s, m)) = m
  BY <1>1 DEF Groups
<1>3. Groups(s, m + 1) = Append(Groups(s, m), Pushed(s, WithKey(KeyOrder[m + 1])))
  BY <1>1, <1>2 DEF Groups
<1> QED
  BY <1>1, <1>2, <1>3, FlatOneMore DEF Upto

LEMMA UptoTyped ==
    ASSUME NEW S, NEW s \in Seq(S)
    PROVE  \A m \in Nat : Upto(s, m) \in Seq(S)
<1> DEFINE T == {m \in Nat : Upto(s, m) \in Seq(S)}
<1>1. 0 \in T
  <2>1. <<>> \in Seq(S)
    OBVIOUS
  <2> QED
    BY <2>1, UptoNothing
<1>2. ASSUME NEW m \in Nat, m \in T PROVE m + 1 \in T
  <2>1. Upto(s, m) \in Seq(S) /\ Pushed(s, WithKey(KeyOrder[m + 1])) \in Seq(S)
    BY <1>2, PushedTyped
  <2>2. Upto(s, m + 1) = Upto(s, m) \o Pushed(s, WithKey(KeyOrder[m + 1]))
    BY UptoOneMore
  <2>3. Upto(s, m) \o Pushed(s, WithKey(KeyOrder[m + 1])) \in Seq(S)
    BY <2>1
  <2>4. Upto(s, m + 1) \in Seq(S)
    BY <2>2, <2>3, Zenon
  <2>5. m + 1 \in Nat
    OBVIOUS
  <2> QED
    BY <2>4, <2>5, Zenon
<1> HIDE DEF T
<1>3. Nat \subseteq T
  BY <1>1, <1>2, Counting
<1> QED
  BY <1>3 DEF T


KeysDiffer == \A i, j \in DOMAIN KeyOrder : KeyOrder[i] = KeyOrder[j] => i = j

\* The groups give back what each key was said to be.
LEMMA UptoKeeps ==
    ASSUME KeyOrder \in Seq(STRING), KeysDiffer, NEW S, NEW s \in Seq(S), NEW k \in DOMAIN KeyOrder
    PROVE  \A m \in Nat : m <= Len(KeyOrder) =>
              Pushed(Upto(s, m), WithKey(KeyOrder[k]))
                 = IF k <= m THEN Pushed(s, WithKey(KeyOrder[k])) ELSE <<>>
<1> DEFINE W(i) == WithKey(KeyOrder[i])
           Kept(m) == Pushed(Upto(s, m), W(k)) = IF k <= m THEN Pushed(s, W(k)) ELSE <<>>
           T == {m \in Nat : m <= Len(KeyOrder) => Kept(m)}
<1>1. k \in Nat /\ k > 0 /\ k <= Len(KeyOrder) /\ Len(KeyOrder) \in Nat
  OBVIOUS
<1>2. 0 \in T
  <2>1. Kept(0)
    BY <1>1, UptoNothing, PushedNothing
  <2> HIDE DEF Kept
  <2> QED
    BY <2>1
<1>3. ASSUME NEW m \in Nat, m \in T PROVE m + 1 \in T
  <2> SUFFICES ASSUME m + 1 <= Len(KeyOrder) PROVE Kept(m + 1)
    OBVIOUS
  <2>1. Kept(m) /\ m + 1 \in DOMAIN KeyOrder
    BY <1>1, <1>3
  <2>2. /\ Upto(s, m) \in Seq(S) /\ Pushed(s, W(m + 1)) \in Seq(S)
        /\ Pushed(s, W(k)) \in Seq(S)
    BY UptoTyped, PushedTyped
  <2>3. Upto(s, m + 1) = Upto(s, m) \o Pushed(s, W(m + 1))
    BY UptoOneMore
  <2>4. Pushed(Upto(s, m + 1), W(k)) = Pushed(Upto(s, m), W(k)) \o Pushed(Pushed(s, W(m + 1)), W(k))
    BY <2>2, <2>3, PushedJoined
  <2>5. Pushed(Pushed(s, W(m + 1)), W(k)) = Pushed(s, W(m + 1) \cap W(k))
    BY PushedTwice
  <2>6. CASE k = m + 1
    <3>1. W(m + 1) \cap W(k) = W(k)
      BY <2>6
    <3>2. Pushed(Upto(s, m), W(k)) = <<>> /\ k <= m + 1
      BY <1>1, <2>1, <2>6
    <3>3. <<>> \o Pushed(s, W(k)) = Pushed(s, W(k))
      BY <2>2
    <3> HIDE DEF W
    <3> QED
      BY <2>4, <2>5, <3>1, <3>2, <3>3
  <2>7. CASE k # m + 1
    <3>1. KeyOrder[k] # KeyOrder[m + 1]
      BY <2>1, <2>7 DEF KeysDiffer
    <3>2. W(m + 1) \cap W(k) = {}
      BY <3>1 DEF WithKey
    <3>3. Pushed(s, W(m + 1) \cap W(k)) = <<>>
      BY <3>2, PushedNone
    <3>4. Pushed(Upto(s, m), W(k)) \in Seq(S)
      BY <2>2, PushedTyped
    <3>5. Pushed(Upto(s, m), W(k)) \o <<>> = Pushed(Upto(s, m), W(k))
      BY <3>4
    <3>6. k <= m + 1 <=> k <= m
      BY <1>1, <2>7
    <3> HIDE DEF W
    <3> QED
      BY <2>1, <2>4, <2>5, <3>3, <3>5, <3>6
  <2> QED
    BY <2>6, <2>7
<1> HIDE DEF T, Kept
<1>4. Nat \subseteq T
  BY <1>2, <1>3, Counting
<1> QED
  BY <1>4 DEF T, Kept

\* Pairs that one may sort, and sequences of them that are sorted.
Keyed == {pair \in Rest : \E i \in DOMAIN KeyOrder : KeyOrder[i] = pair.key}

InOrder(text) ==
    \A i, j \in DOMAIN text : \A k, l \in DOMAIN KeyOrder :
       i <= j /\ text[i].key = KeyOrder[k] /\ text[j].key = KeyOrder[l] => k <= l

\* One pair more, of a key that no pair's comes after, ends the groups.
LEMMA UptoAppend ==
    ASSUME KeyOrder \in Seq(STRING), KeysDiffer, NEW t \in Seq(Keyed), NEW x \in Keyed,
           InOrder(Append(t, x)), NEW k \in DOMAIN KeyOrder, KeyOrder[k] = x.key
    PROVE  \A m \in Nat : m <= Len(KeyOrder) =>
              Upto(Append(t, x), m) = IF m < k THEN Upto(t, m) ELSE Append(Upto(t, m), x)
<1> DEFINE W(i) == WithKey(KeyOrder[i])
           Ends(m) == Upto(Append(t, x), m) = IF m < k THEN Upto(t, m) ELSE Append(Upto(t, m), x)
           T == {m \in Nat : m <= Len(KeyOrder) => Ends(m)}
<1>1. k \in Nat /\ k > 0 /\ k <= Len(KeyOrder) /\ Len(KeyOrder) \in Nat
  OBVIOUS
<1>2. 0 \in T
  <2>1. Ends(0)
    BY <1>1, UptoNothing
  <2> HIDE DEF Ends
  <2> QED
    BY <2>1
<1>3. ASSUME NEW m \in Nat, m \in T PROVE m + 1 \in T
  <2> SUFFICES ASSUME m + 1 <= Len(KeyOrder) PROVE Ends(m + 1)
    <3> HIDE DEF Ends
    <3> QED
      OBVIOUS
  <2>1. Ends(m) /\ m + 1 \in DOMAIN KeyOrder /\ Append(t, x) \in Seq(Keyed)
    BY <1>1, <1>3
  <2>2. /\ Upto(t, m) \in Seq(Keyed) /\ Pushed(t, W(m + 1)) \in Seq(Keyed)
        /\ Append(Upto(t, m), x) \in Seq(Keyed)
    <3>1. Upto(t, m) \in Seq(Keyed) /\ Pushed(t, W(m + 1)) \in Seq(Keyed)
      BY UptoTyped, PushedTyped
    <3> QED
      BY <3>1
  <2>3. /\ Upto(t, m + 1) = Upto(t, m) \o Pushed(t, W(m + 1))
        /\ Upto(Append(t, x), m + 1) = Upto(Append(t, x), m) \o Pushed(Append(t, x), W(m + 1))
    BY <2>1, UptoOneMore
  <2>4. Pushed(Append(t, x), W(m + 1)) = IF x \in W(m + 1) THEN Append(Pushed(t, W(m + 1)), x)
                                                          ELSE Pushed(t, W(m + 1))
    BY PushedOneMore
  <2>5. x \in W(m + 1) <=> k = m + 1
    BY <2>1 DEF WithKey, Keyed, KeysDiffer
  <2>6. CASE m + 1 < k
    <3>1. m < k /\ k # m + 1
      BY <1>1, <2>6
    <3> HIDE DEF W
    <3> QED
      BY <2>1, <2>3, <2>4, <2>5, <2>6, <3>1
  <2>7. CASE m + 1 = k
    <3>1. m < k /\ ~(m + 1 < k)
      BY <1>1, <2>7
    <3>2. Upto(t, m) \o Append(Pushed(t, W(m + 1)), x)
              = Append(Upto(t, m) \o Pushed(t, W(m + 1)), x)
      BY <2>2
    <3> HIDE DEF W
    <3> QED
      BY <2>1, <2>3, <2>4, <2>5, <2>7, <3>1, <3>2
  <2>8. CASE k < m + 1
    <3>1. ~(m < k) /\ ~(m + 1 < k) /\ k # m + 1 /\ ~(m + 1 <= k)
      BY <1>1, <2>8
    <3>2. ASSUME NEW i \in DOMAIN t PROVE t[i] \notin W(m + 1)
      <4> SUFFICES ASSUME t[i].key = KeyOrder[m + 1] PROVE FALSE
        BY DEF WithKey
      <4>1. /\ i \in DOMAIN Append(t, x) /\ Len(t) + 1 \in DOMAIN Append(t, x) /\ i <= Len(t) + 1
            /\ Append(t, x)[i] = t[i] /\ Append(t, x)[Len(t) + 1] = x
        OBVIOUS
      <4>2. m + 1 <= k
        BY <2>1, <4>1 DEF InOrder
      <4> QED
        BY <3>1, <4>2
    <3>3. Pushed(t, W(m + 1)) = <<>>
      <4> DEFINE S == {t[i] : i \in DOMAIN t}
      <4>1. t \in Seq(S)
        OBVIOUS
      <4>2. S \cap W(m + 1) = {}
        BY <3>2
      <4> HIDE DEF S
      <4> QED
        BY <4>1, <4>2, PushedNone
    <3>4. /\ Append(Upto(t, m), x) \o <<>> = Append(Upto(t, m), x)
          /\ Upto(t, m) \o <<>> = Upto(t, m)
      BY <2>2
    <3> HIDE DEF W
    <3> QED
      BY <2>1, <2>3, <2>4, <2>5, <3>1, <3>3, <3>4
  <2> QED
    BY <1>1, <2>6, <2>7, <2>8
<1> HIDE DEF T, Ends
<1>4. Nat \subseteq T
  BY <1>2, <1>3, Counting
<1> QED
  BY <1>4 DEF T, Ends

\* What is sorted stays as it is.
LEMMA SignedStays ==
    ASSUME KeyOrder \in Seq(STRING), KeysDiffer
    PROVE  \A t \in Seq(Keyed) : InOrder(t) => Upto(t, Len(KeyOrder)) = t
<1> DEFINE T == {t \in Seq(Keyed) : InOrder(t) => Upto(t, Len(KeyOrder)) = t}
<1>1. <<>> \in T
  <2>1. Len(KeyOrder) \in Nat /\ <<>> \in Seq(Keyed) /\ <<>> \in Seq({})
    OBVIOUS
  <2>2. Upto(<<>>, Len(KeyOrder)) \in Seq({})
    BY <2>1, UptoTyped
  <2>3. \A s \in Seq({}) : s = <<>>
    OBVIOUS
  <2> QED
    BY <2>1, <2>2, <2>3
<1>2. ASSUME NEW t \in Seq(Keyed), NEW x \in Keyed, t \in T PROVE Append(t, x) \in T
  <2> SUFFICES ASSUME InOrder(Append(t, x)) PROVE Upto(Append(t, x), Len(KeyOrder)) = Append(t, x)
    OBVIOUS
  <2>1. InOrder(t)
    <3>1. \A i \in DOMAIN t : i \in DOMAIN Append(t, x) /\ Append(t, x)[i] = t[i]
      OBVIOUS
    <3> QED
      BY <3>1 DEF InOrder
  <2>2. PICK k \in DOMAIN KeyOrder : KeyOrder[k] = x.key
    BY DEF Keyed
  <2>3. Len(KeyOrder) \in Nat /\ ~(Len(KeyOrder) < k)
    OBVIOUS
  <2>4. Upto(t, Len(KeyOrder)) = t
    BY <1>2, <2>1
  <2> QED
    BY <2>2, <2>3, <2>4, UptoAppend
<1> HIDE DEF T
<1>3. Seq(Keyed) \subseteq T
  BY <1>1, <1>2, Growing
<1> QED
  BY <1>3 DEF T


\* Nothing, one pair or more than one is pushed, as nothing, one or more is wanted.
LEMMA PushedCount ==
    ASSUME NEW S, NEW wanted
    PROVE  \A s \in Seq(S) :
              \/ Pushed(s, wanted) = <<>> /\ \A i \in DOMAIN s : s[i] \notin wanted
              \/ \E i \in DOMAIN s : /\ Pushed(s, wanted) = <<s[i]>> /\ s[i] \in wanted
                                     /\ \A j \in DOMAIN s : s[j] \in wanted => j = i
              \/ /\ Len(Pushed(s, wanted)) > 1
                 /\ \E i, j \in DOMAIN s : s[i] \in wanted /\ s[j] \in wanted /\ i # j
<1> DEFINE None(s) == Pushed(s, wanted) = <<>> /\ \A i \in DOMAIN s : s[i] \notin wanted
           One(s) == \E i \in DOMAIN s : /\ Pushed(s, wanted) = <<s[i]>> /\ s[i] \in wanted
                                         /\ \A j \in DOMAIN s : s[j] \in wanted => j = i
           More(s) == /\ Len(Pushed(s, wanted)) > 1
                      /\ \E i, j \in DOMAIN s : s[i] \in wanted /\ s[j] \in wanted /\ i # j
           T == {s \in Seq(S) : None(s) \/ One(s) \/ More(s)}
<1>1. <<>> \in T
  <2>1. <<>> \in Seq(S) /\ \A i \in DOMAIN <<>> : FALSE
    OBVIOUS
  <2>2. None(<<>>)
    BY <2>1, PushedNothing
  <2> HIDE DEF None, One, More
  <2> QED
    BY <2>1, <2>2
<1>2. ASSUME NEW s \in Seq(S), NEW x \in S, s \in T PROVE Append(s, x) \in T
  <2> DEFINE t == Append(s, x)
             n == Len(s) + 1
  <2>1. /\ t \in Seq(S) /\ n \in DOMAIN t /\ t[n] = x /\ n \notin DOMAIN s
        /\ \A i \in DOMAIN t : i = n \/ i \in DOMAIN s
        /\ \A i \in DOMAIN s : i \in DOMAIN t /\ t[i] = s[i]
    OBVIOUS
  <2>2. /\ Pushed(t, wanted) =
              IF x \in wanted THEN Append(Pushed(s, wanted), x) ELSE Pushed(s, wanted)
        /\ Pushed(s, wanted) \in Seq(S)
    BY PushedOneMore, PushedTyped
  <2> HIDE DEF t, n
  <2>3. CASE x \notin wanted
    <3>1. None(s) => None(t)
      BY <2>1, <2>2, <2>3
    <3>2. One(s) => One(t)
      BY <2>1, <2>2, <2>3
    <3>3. More(s) => More(t)
      BY <2>1, <2>2, <2>3
    <3> HIDE DEF None, One, More
    <3> QED
      BY <1>2, <2>1, <3>1, <3>2, <3>3 DEF t
  <2>4. CASE x \in wanted
    <3>1. None(s) => One(t)
      <4> SUFFICES ASSUME None(s) PROVE One(t)
        OBVIOUS
      <4>1. Pushed(t, wanted) = <<t[n]>>
        <5>1. Append(<<>>, x) = <<x>>
          OBVIOUS
        <5> QED
          BY <2>1, <2>2, <2>4, <5>1
      <4> QED
        BY <2>1, <2>4, <4>1
    <3>2. One(s) => More(t)
      <4> SUFFICES ASSUME One(s) PROVE More(t)
        OBVIOUS
      <4>1. PICK i \in DOMAIN s : Pushed(s, wanted) = <<s[i]>> /\ s[i] \in wanted
        OBVIOUS
      <4>2. Len(Pushed(t, wanted)) = 2
        BY <2>2, <2>4, <4>1
      <4>3. i \in DOMAIN t /\ t[i] \in wanted /\ t[n] \in wanted /\ i # n /\ n \in DOMAIN t
        BY <2>1, <2>4, <4>1
      <4> QED
        BY <4>2, <4>3
    <3>3. More(s) => More(t)
      <4> SUFFICES ASSUME More(s) PROVE More(t)
        OBVIOUS
      <4>1. Len(Pushed(t, wanted)) = Len(Pushed(s, wanted)) + 1 /\ Len(Pushed(s, wanted)) \in Nat
        BY <2>2, <2>4
      <4>2. Len(Pushed(t, wanted)) > 1
        BY <4>1
      <4>3. \E i, j \in DOMAIN t : t[i] \in wanted /\ t[j] \in wanted /\ i # j
        BY <2>1
      <4> QED
        BY <4>2, <4>3
    <3> HIDE DEF None, One, More
    <3> QED
      BY <1>2, <2>1, <3>1, <3>2, <3>3 DEF t
  <2> QED
    BY <2>3, <2>4 DEF t
<1> HIDE DEF T
<1>3. Seq(S) \subseteq T
  BY <1>1, <1>2, Growing
<1> QED
  BY <1>3 DEF T

\* The hmac that counts is the only one.
LEMMA DigestFound ==
    ASSUME NEW query \in Seq(Pair)
    PROVE  Provided(query) = "digest" <=>
              /\ \E i \in DOMAIN query : query[i] = [key |-> "hmac", value |-> "digest"]
              /\ \A i, j \in DOMAIN query : IsHmac(query[i]) /\ IsHmac(query[j]) => i = j
<1> DEFINE p == Pushed(query, Hmacs)
           digest == [key |-> "hmac", value |-> "digest"]
<1>1. \A i \in DOMAIN query : query[i] \in Hmacs <=> IsHmac(query[i])
  BY DEF Hmacs
<1>2. \A pair \in Pair : IsHmac(pair) /\ pair.value = "digest" <=> pair = digest
  BY DEF Pair, IsHmac, NoValue
<1>3. \A i \in DOMAIN query : query[i] \in Pair
  OBVIOUS
<1>4. CASE p = <<>> /\ \A i \in DOMAIN query : query[i] \notin Hmacs
  BY <1>1, <1>2, <1>3, <1>4 DEF Provided
<1>5. CASE \E i \in DOMAIN query : /\ p = <<query[i]>> /\ query[i] \in Hmacs
                                   /\ \A j \in DOMAIN query : query[j] \in Hmacs => j = i
  <2>1. PICK i \in DOMAIN query : /\ p = <<query[i]>> /\ query[i] \in Hmacs
                                  /\ \A j \in DOMAIN query : query[j] \in Hmacs => j = i
    BY <1>5
  <2>2. Len(p) = 1 /\ p[1] = query[i]
    BY <2>1
  <2>3. Provided(query) = "digest" <=> query[i].value = "digest"
    BY <2>2 DEF Provided
  <2>4. query[i].value = "digest" <=> query[i] = digest
    BY <1>1, <1>2, <1>3, <2>1
  <2>5. \A j \in DOMAIN query : query[j] = digest => j = i
    BY <1>1, <1>2, <1>3, <2>1
  <2>6. \A j, k \in DOMAIN query : IsHmac(query[j]) /\ IsHmac(query[k]) => j = k
    BY <1>1, <2>1
  <2> QED
    BY <2>3, <2>4, <2>5, <2>6
<1>6. CASE /\ Len(p) > 1
           /\ \E i, j \in DOMAIN query : query[i] \in Hmacs /\ query[j] \in Hmacs /\ i # j
  <2>1. Provided(query) = "none"
    <3>1. p \in Seq(Pair)
      BY PushedTyped
    <3>2. Len(p) \in Nat
      BY <3>1
    <3>3. Len(p) # 1
      <4>1. Len(p) > 1
        BY <1>6, Zenon
      <4>2. \A m \in Nat : m > 1 => m # 1
        OBVIOUS
      <4> QED
        BY <3>2, <4>1, <4>2, Zenon
    <3> QED
      BY <3>3 DEF Provided
  <2> QED
    BY <1>1, <1>6, <2>1
<1> QED
  BY <1>4, <1>5, <1>6, PushedCount

\* The theorem's step: a query passes exactly if it is genuine.
LEMMA VerifiedIsGenuine ==
    ASSUME KeyOrder \in Seq(STRING), KeysDiffer, NEW query \in Seq(Pair), NEW signed \in Signable
    PROVE  Verified(query, signed) <=> Genuine(query, signed)
<1> DEFINE r == Pushed(query, Rest)
           n == Len(KeyOrder)
<1>1. /\ signed \in Seq(Keyed) /\ InOrder(signed)
      /\ r \in Seq(Pair) /\ n \in Nat /\ DOMAIN KeyOrder = 1 .. n
  BY PushedTyped DEF Signable, Keyed, InOrder
<1>2. Sorted(r) = Upto(r, n)
  BY <1>1 DEF Sorted, Upto, Groups
<1>3. ASSUME NEW k \in DOMAIN KeyOrder
      PROVE  Pushed(r, WithKey(KeyOrder[k])) = ValuesOf(query, KeyOrder[k])
  <2>1. Rest \cap WithKey(KeyOrder[k]) = WithKey(KeyOrder[k])
    BY DEF WithKey
  <2> QED
    BY <2>1, PushedTwice DEF ValuesOf
<1> HIDE DEF r
<1>4. ASSUME Upto(r, n) = signed, NEW k \in DOMAIN KeyOrder
      PROVE  ValuesOf(query, KeyOrder[k]) = ValuesOf(signed, KeyOrder[k])
  <2>1. Pushed(Upto(r, n), WithKey(KeyOrder[k])) = Pushed(r, WithKey(KeyOrder[k]))
    BY <1>1, UptoKeeps
  <2> QED
    BY <1>3, <1>4, <2>1 DEF ValuesOf
<1>5. ASSUME \A k \in DOMAIN KeyOrder : ValuesOf(query, KeyOrder[k]) = ValuesOf(signed, KeyOrder[k])
      PROVE  Upto(r, n) = signed
  <2>1. Groups(r, n) = Groups(signed, n)
    BY <1>1, <1>3, <1>5 DEF Groups, ValuesOf
  <2>2. Upto(signed, n) = signed
    BY <1>1, SignedStays
  <2> QED
    BY <2>1, <2>2 DEF Upto
<1> QED
  BY <1>2, <1>4, <1>5, DigestFound DEF Verified, Genuine, r

\* An input that is a query is one, and a text that Shopify may sign.
LEMMA QueriesOnly ==
    ASSUME NEW i \in Inputs, i.kind = "query"
    PROVE  i.query \in Seq(Pair) /\ i.signed \in Signable
<1>1. i \notin CommandLineInputs /\ i \notin AddressInputs4
  BY DEF CommandLineInputs, AddressInputs4
<1>2. i \notin AddressInputs6 /\ i \notin ExampleInputs
  BY DEF AddressInputs6, ExampleInputs, AskedFor
<1>3. i.query \in Queries /\ i.signed \in Texts
  BY <1>1, <1>2 DEF Inputs, QueryInputs
<1> DEFINE Known == {pair \in Pair : \E k \in DOMAIN KeyOrder : KeyOrder[k] = pair.key}
<1>4. i.query \in Seq(Known) /\ Known \subseteq Pair
  BY <1>3, QueryAssumption
<1> HIDE DEF Known
<1>5. i.query \in Seq(Pair)
  BY <1>4, SeqMonotonic
<1> QED
  BY <1>3, <1>5, QueryAssumption

\* A callback's query passes exactly if it says of every parameter what Shopify
\* signed, however many there are and in whatever order, and bears one hmac
\* (verifyShopifyHmac).
THEOREM QueriesGenuineHolds == Spec => []QueriesGenuine
<1> DEFINE Inv == input \in Inputs /\ QueriesGenuine
<1>1. Init => Inv
  BY DEF Init, NotYet, QueriesGenuine
<1>2. Inv /\ [Next]_vars => Inv'
  <2> SUFFICES ASSUME Inv, [Next]_vars PROVE Inv'
    OBVIOUS
  <2>1. ASSUME NEW kind, NEW result, Decided(kind, result), kind # "query" PROVE Inv'
    BY <2>1 DEF Decided, QueriesGenuine
  <2>2. ASSUME CheckQuery PROVE Inv'
    <3>1. /\ input' = input /\ input.kind = "query"
          /\ output'.result = Verified(input.query, input.signed)
      BY <2>2 DEF CheckQuery, Decided
    <3>2. KeyOrder \in Seq(STRING) /\ KeysDiffer
      BY QueryAssumption DEF KeysDiffer
    <3>3. Verified(input.query, input.signed) <=> Genuine(input.query, input.signed)
      BY <3>1, <3>2, QueriesOnly, VerifiedIsGenuine
    <3> QED
      BY <3>1, <3>3 DEF QueriesGenuine
  <2>3. ASSUME UNCHANGED vars PROVE Inv'
    BY <2>3 DEF vars, QueriesGenuine
  <2> QED
    BY <2>1, <2>2, <2>3 DEF Next, ReadCommandLine, FindExample, JudgeAddress
<1> QED
  BY <1>1, <1>2, PTL DEF Spec
=============================================================================
