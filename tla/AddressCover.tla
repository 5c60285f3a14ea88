---------------------------- MODULE AddressCover ----------------------------
(***************************************************************************)
(* ip2net: a list of addresses becomes a shorter list of networks that     *)
(* hold enough of them (the loops of main in ip2net.c). Addresses are      *)
(* numbers of Bits bits. A network is [at, zct]: its first address and the *)
(* number of zero bits of its mask; zct 0 is a single address.             *)
(***************************************************************************)
EXTENDS Integers, FiniteSetsExt

CONSTANTS Bits,       \* 32, or 128 for IPv6
          Space,      \* bound: addresses that may be listed
          MaxListed,  \* bound: addresses of a list
          MaskBits,   \* bound: what may follow the "/" of a line with address 0
          Settings    \* what parse_params may leave: [ipv6, zctMin, zctMax, mult, div, threshold]

VARIABLES settings,
          listed,     \* the addresses read, what sort and unique make of iplist
          rest,       \* those from pos on
          asGiven,    \* networks and ranges of the input, printed as they are when read
          networks,   \* networks and addresses printed for the list
          reading

cover == <<settings, listed, rest, asGiven, networks, reading>>

Width == 2 ^ Bits
\* parse_params: prefix lengths from 1 to Bits - 1, a true fraction.
GoodSettings(s) ==
  /\ 1 <= s.zctMin /\ s.zctMin <= s.zctMax /\ s.zctMax <= Bits - 1
  /\ s.mult >= 1 /\ s.mult < s.div /\ s.threshold >= 1
ASSUME SettingsAssumption == Space \subseteq 0..(Width - 1) /\ \A s \in Settings : GoodSettings(s)

\* mask_from_bitcount and ip & mask.
First(a, zct) == (a \div 2 ^ zct) * 2 ^ zct
Block(a, zct) == First(a, zct)..(First(a, zct) + 2 ^ zct - 1)
Inside(a, zct) == {b \in rest : b >= a /\ b \in Block(a, zct)}

\* The addresses are counted from the lowest that is left. For IPv4 a block is
\* not considered when that address is too high in it, and it is full enough
\* with mult/div of its size, which are 32-bit products; for IPv6 with
\* `threshold` addresses.
Parts(n, s, m) == ((2 ^ n * m) % Width) \div s.div
TooHigh(a, n, s) == ~s.ipv6 /\ a > First(a, n) + Parts(n, s, s.div - s.mult)
FullEnough(a, n, s) ==
  Cardinality(Inside(a, n)) >= IF s.ipv6 THEN s.threshold ELSE Parts(n, s, s.mult)
\* From the largest block down: the first that is full enough is taken, and a
\* smaller one instead while it has as many. A block of one ends the search,
\* as does a full enough one with fewer. Mutant: any full enough block counts.
Same(a, n, m) == Cardinality(Inside(a, n)) = Cardinality(Inside(a, m))
SearchAnyFull(a, s) ==
  LET tried == {n \in s.zctMin..s.zctMax : ~TooHigh(a, n, s) /\ Cardinality(Inside(a, n)) > 1}
      good == {n \in tried : FullEnough(a, n, s)}
  IN IF good = {} THEN 0 ELSE Min(good)
Search(a, s) ==
  LET considered == {n \in s.zctMin..s.zctMax : ~TooHigh(a, n, s)}
      alone == {n \in considered : Cardinality(Inside(a, n)) = 1}
      tried == {n \in considered : \A m \in alone : n > m}
      good == {n \in tried : FullEnough(a, n, s)}
  IN IF good = {} THEN 0 ELSE Min({n \in good : Same(a, n, Max(good))})

CoverInit ==
  /\ settings \in Settings
  /\ listed = {} /\ rest = {} /\ asGiven = {} /\ networks = {} /\ reading = TRUE
\* The lines come in any order, and twice. An address may have the mask of all
\* bits; a longer one is ignored, and a network or a range is passed on.
Keep(a) == /\ Cardinality(listed \cup {a}) <= MaxListed
             /\ listed' = listed \cup {a}
             /\ UNCHANGED asGiven
ReadAddress(a) == reading /\ Keep(a) /\ UNCHANGED <<settings, rest, networks, reading>>
ReadSubnet(n) ==
  /\ reading
  /\ \/ n = Bits /\ Keep(0)
     \/ n < Bits /\ asGiven' = asGiven \cup {[at |-> 0, zct |-> Bits - n]} /\ UNCHANGED listed
     \/ n > Bits /\ UNCHANGED <<listed, asGiven>>
  /\ UNCHANGED <<settings, rest, networks, reading>>
Sorted == /\ reading /\ reading' = FALSE /\ rest' = listed
          /\ UNCHANGED <<settings, listed, asGiven, networks>>
Emit ==
  /\ ~reading /\ rest # {}
  /\ LET a == Min(rest)
         n == Search(a, settings)
     IN /\ networks' = networks \cup {[at |-> First(a, n), zct |-> n]}
        /\ rest' = rest \ Block(a, n)
  /\ UNCHANGED <<settings, listed, asGiven, reading>>
CoverNext == (\E a \in Space : ReadAddress(a)) \/ (\E n \in MaskBits : ReadSubnet(n)) \/ Sorted \/ Emit

-----------------------------------------------------------------------------
Held(net) == listed \cap Block(net.at, net.zct)
Asked(n) == IF settings.ipv6 THEN settings.threshold ELSE (2 ^ n * settings.mult) \div settings.div
\* A larger block from the same address on that has more addresses and enough.
Better(net, n) ==
  LET a == Min(Held(net))
      more == {b \in listed \cap Block(a, n) : b >= a}
  IN Cardinality(more) > Cardinality(Held(net)) /\ Cardinality(more) >= Asked(n)
\* Whether the products for a block of 2^n addresses fit their 32 bits. Where
\* they do not, a block may count as full with far fewer addresses than asked:
\* --prefix-length=9 --v4-threshold=512/513 leaves a threshold of 0.
ProductsFit(n) ==
  settings.ipv6 \/ \A m \in {settings.mult, settings.div - settings.mult} : 2 ^ n * m < Width
\* The networks printed hold every address given, none twice, whatever the
\* settings. As far as the products fit, each of them is as full as was asked
\* and no larger than the addresses need, and a network that is left out could
\* not have been filled (main, ip2net.c:315-512).
CoverIsExact == ~reading =>
  /\ \A a, b \in networks : a # b => Block(a.at, a.zct) \cap Block(b.at, b.zct) = {}
  /\ listed = rest \cup UNION {Held(a) : a \in networks}
  /\ \A a \in networks :
       /\ a.zct # 0 =>
            /\ a.zct \in settings.zctMin..settings.zctMax
            /\ ProductsFit(a.zct) => Cardinality(Held(a)) >= Asked(a.zct)
            /\ ProductsFit(a.zct) /\ a.zct > settings.zctMin => \A h \in {a.at, a.at + 2 ^ (a.zct - 1)} :
                 Held(a) \ Block(h, a.zct - 1) # {}
       /\ a.zct = 0 => a.at \in listed
       /\ \A n \in settings.zctMin..settings.zctMax : n > a.zct /\ ProductsFit(n) => ~Better(a, n)
=============================================================================
