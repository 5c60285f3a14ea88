----------------------------- MODULE ProxyProofs -----------------------------
(***************************************************************************)
(* Proofs about the relay of tpws (TcpProxy): its types, and that each     *)
(* direction keeps its units and their order, for any option sets, any     *)
(* capacities of the sockets and any number of units.                      *)
(*                                                                         *)
(* The invariant ProxyInv has two halves. PairInv is what is true of the   *)
(* pair of legs after every operation: which buffers may be filled in      *)
(* which state, what a SOCKS client may have sent, which end was told to   *)
(* epoll. Arrives says what is on its way in each direction: what the      *)
(* receiver got and the line of socket, pipe, buffers and socket behind    *)
(* it. Every operator on the pair is shown to keep both (Good): the lines  *)
(* lose at most a block, which is then recorded as lost (Saves).           *)
(***************************************************************************)
EXTENDS TcpProxyProperties, SequenceFacts, TLAPS

Units == Seq(Nat)
Elements(s) == {s[i] : i \in DOMAIN s}
\* The units 1 to n in order, save the lost ones.
Exact(s, n, lost) ==
  /\ s \in Units /\ lost \subseteq 1..n /\ Elements(s) = (1..n) \ lost
  /\ \A i, j \in DOMAIN s : i < j => s[i] < s[j]

PairFields ==
  {"leg", "sock", "socks", "read", "blocks", "set", "lost", "fatal", "ok", "track", "auto", "reply"}
LegFields == {"st", "flowIn", "flowOut", "prev", "mask", "pipe", "buf", "shut", "orphan"}
SockFields == {"st", "rx", "rfin", "tx", "wshut", "err", "linger0"}
Masks == SUBSET {"in", "out", "rdhup"}
States == {"none", "unavailable", "available", "rdhup", "closed"}
Early == {"handshake", "request", "resolve"}
IsLeg(l) ==
  /\ LegFields \subseteq DOMAIN l /\ l.st \in States /\ l.mask \in Masks
  /\ l.pipe \in Units /\ l.buf \in [Buffers -> Units]
IsSock(s) ==
  /\ SockFields \subseteq DOMAIN s /\ s.rx \in Units /\ s.tx \in Units
  /\ Len(s.rx) <= RxCap /\ Len(s.tx) <= TxCap
Shaped(p) ==
  /\ PairFields \subseteq DOMAIN p /\ DOMAIN p.leg = Legs /\ DOMAIN p.sock = Legs
  /\ \A c \in Legs : IsLeg(p.leg[c]) /\ IsSock(p.sock[c])
  /\ p.socks \in Early \cup {"connection", "tcp"}

-----------------------------------------------------------------------------
\* Sequences are cut and put together.
LEMMA TakeDropPoints ==
  ASSUME NEW s \in Units, NEW n \in 0..Len(s)
  PROVE  /\ Take(s, n) \in Units /\ Drop(s, n) \in Units
         /\ Len(Take(s, n)) = n /\ Len(Drop(s, n)) = Len(s) - n
         /\ \A i \in 1..n : Take(s, n)[i] = s[i]
         /\ \A i \in 1..(Len(s) - n) : Drop(s, n)[i] = s[n + i]
  BY DEF Take, Drop, Units

LEMMA TakeDropFacts ==
  ASSUME NEW s \in Units, NEW n \in 0..Len(s)
  PROVE  /\ Take(s, n) \in Units /\ Drop(s, n) \in Units
         /\ Len(Take(s, n)) = n /\ Len(Drop(s, n)) = Len(s) - n
         /\ Take(s, n) \o Drop(s, n) = s
         /\ n = 0 => Take(s, n) = <<>> /\ Drop(s, n) = s
         /\ n = Len(s) => Take(s, n) = s /\ Drop(s, n) = <<>>
<1>a. PICK t : t = Take(s, n)
  OBVIOUS
<1>b. PICK d : d = Drop(s, n)
  OBVIOUS
<1>1. /\ t \in Units /\ d \in Units /\ Len(t) = n /\ Len(d) = Len(s) - n
      /\ \A i \in 1..n : t[i] = s[i]
      /\ \A i \in 1..(Len(s) - n) : d[i] = s[n + i]
  BY <1>a, <1>b, TakeDropPoints
<1>2. t \o d = s
  <2>0. Len(s) \in Nat /\ s \in Seq(Nat) /\ t \in Seq(Nat) /\ d \in Seq(Nat)
    BY <1>1 DEF Units
  <2>a. PICK u : u = t \o d
    OBVIOUS
  <2>1. /\ u \in Seq(Nat) /\ Len(u) = Len(t) + Len(d)
        /\ \A i \in 1..Len(t) : u[i] = t[i]
        /\ \A i \in 1..Len(d) : u[Len(t) + i] = d[i]
    BY <2>0, <2>a
  <2>2. ASSUME NEW i \in 1..Len(s) PROVE u[i] = s[i]
    <3>1. CASE i <= n
      BY <1>1, <2>0, <2>1, <3>1
    <3>2. CASE i > n
      <4>1. PICK j \in 1..(Len(s) - n) : i = n + j
        BY <2>0, <3>2
      <4> QED
        BY <1>1, <2>0, <2>1, <4>1
    <3> QED
      BY <2>0, <3>1, <3>2
  <2>3. Len(u) = Len(s)
    BY <1>1, <2>0, <2>1
  <2> QED
    BY <2>0, <2>a, <2>1, <2>2, <2>3, SeqEqual
<1>3. n = 0 => t = <<>> /\ d = s
  <2>1. n = 0 => t = <<>>
    BY <1>1, EmptySeq DEF Units
  <2>2. n = 0 => Len(d) = Len(s) /\ \A i \in 1..Len(s) : d[i] = s[i]
    BY <1>1 DEF Units
  <2> QED
    BY <1>1, <2>1, <2>2, SeqEqual DEF Units
<1>4. n = Len(s) => t = s /\ d = <<>>
  <2>1. n = Len(s) => d = <<>>
    BY <1>1, EmptySeq DEF Units
  <2> QED
    BY <1>1, <2>1, SeqEqual DEF Units
<1> QED
  BY <1>a, <1>b, <1>1, <1>2, <1>3, <1>4

LEMMA Joined ==
  ASSUME NEW a \in Units, NEW b \in Units
  PROVE  /\ a \o b \in Units /\ Len(a \o b) = Len(a) + Len(b)
         /\ <<>> \in Units /\ a \o <<>> = a /\ <<>> \o a = a
<1>1. a \o b \in Units /\ Len(a \o b) = Len(a) + Len(b) /\ <<>> \in Units
  BY DEF Units
<1>2. a \o <<>> = a /\ <<>> \o a = a
  BY ConcatEmptySeq DEF Units
<1> QED
  BY <1>1, <1>2

Same(a, b, c) == (a \o b) \o c = a \o (b \o c)
LEMMA Regroup ==
  ASSUME NEW a \in Units, NEW b \in Units, NEW c \in Units
  PROVE  Same(a, b, c)
  BY ConcatAssociative DEF Units, Same

\* Three queues, one behind the other, as one.
AsOne(a, b, c, d) == d \in Units /\ \A z \in Units : a \o (b \o (c \o z)) = d \o z
LEMMA Regroup3 ==
  ASSUME NEW a \in Units, NEW b \in Units, NEW c \in Units
  PROVE  AsOne(a, b, c, a \o (b \o c))
<1>0. PICK d : d = a \o (b \o c)
  OBVIOUS
<1>1. PICK e : e = b \o c
  OBVIOUS
<1>2. e \in Units
  BY <1>1, Joined
<1>3. d = a \o e
  BY <1>0, <1>1
<1>4. d \in Units
  BY <1>2, <1>3, Joined
<1>5. ASSUME NEW z \in Units PROVE a \o (b \o (c \o z)) = d \o z
  <2>1. (b \o c) \o z = b \o (c \o z)
    <3>1. Same(b, c, z)
      BY Regroup, Zenon
    <3> QED
      BY <3>1 DEF Same
  <2>2. (a \o e) \o z = a \o (e \o z)
    <3>1. Same(a, e, z)
      BY <1>2, Regroup, Zenon
    <3> QED
      BY <3>1 DEF Same
  <2> QED
    BY <1>1, <1>3, <2>1, <2>2
<1> QED
  BY <1>0, <1>4, <1>5 DEF AsOne

\* The first units of a queue move on to the one before it.
LEMMA MovesOn ==
  ASSUME NEW a \in Units, NEW b \in Units, NEW x \in Units, NEW n \in 0..Len(b)
  PROVE  (a \o Take(b, n)) \o (Drop(b, n) \o x) = a \o (b \o x)
<1>a. PICK t : t = Take(b, n)
  OBVIOUS
<1>b. PICK d : d = Drop(b, n)
  OBVIOUS
<1>1. t \in Units /\ d \in Units /\ t \o d = b
  BY <1>a, <1>b, TakeDropFacts
<1>c. PICK y : y = d \o x
  OBVIOUS
<1>2. y \in Units
  BY <1>1, <1>c, Joined
<1>3. (a \o t) \o y = a \o (t \o y)
  <2>1. Same(a, t, y)
    BY <1>1, <1>2, Regroup, Zenon
  <2> QED
    BY <2>1 DEF Same
<1>4. (t \o d) \o x = t \o (d \o x)
  <2>1. Same(t, d, x)
    BY <1>1, Regroup, Zenon
  <2> QED
    BY <2>1 DEF Same
<1> QED
  BY <1>a, <1>b, <1>c, <1>1, <1>3, <1>4

IsCat(s, a, b) ==
  /\ s \in Units /\ Len(s) = Len(a) + Len(b) /\ \A i \in 1..Len(a) : s[i] = a[i]
  /\ \A i \in 1..Len(b) : s[Len(a) + i] = b[i]
LEMMA CatFacts == ASSUME NEW a \in Units, NEW b \in Units PROVE IsCat(a \o b, a, b)
  BY DEF IsCat, Units

LEMMA Offset == ASSUME NEW i \in Int, NEW m \in Int PROVE \E j \in Int : i = m + j
<1>1. i - m \in Int /\ i = m + (i - m)
  OBVIOUS
<1> QED
  BY <1>1

\* What stays in order when a block in the middle is lost.
LEMMA ExactWithout ==
  ASSUME NEW x \in Units, NEW y \in Units, NEW z \in Units, NEW n \in Nat, NEW lost,
         Exact((x \o y) \o z, n, lost)
  PROVE  Exact(x \o z, n, lost \cup Elements(y))
<1>a. PICK w : w = x \o y
  OBVIOUS
<1>b. PICK s : s = w \o z
  OBVIOUS
<1>c. PICK t : t = x \o z
  OBVIOUS
<1>0. Exact(s, n, lost)
  BY <1>a, <1>b
<1>1. IsCat(w, x, y)
  BY <1>a, CatFacts
<1>2. IsCat(s, w, z)
  <2>1. w \in Units
    BY <1>1 DEF IsCat
  <2> QED
    BY <1>b, <2>1, CatFacts
<1>3. IsCat(t, x, z)
  BY <1>c, CatFacts
<1>4. /\ Len(x) \in Nat /\ Len(y) \in Nat /\ Len(z) \in Nat
      /\ DOMAIN x = 1..Len(x) /\ DOMAIN y = 1..Len(y) /\ DOMAIN z = 1..Len(z)
      /\ DOMAIN s = 1..(Len(x) + Len(y) + Len(z)) /\ DOMAIN t = 1..(Len(x) + Len(z))
  BY <1>1, <1>2, <1>3 DEF IsCat, Units
<1>5. /\ \A i \in 1..Len(x) : s[i] = x[i] /\ t[i] = x[i]
      /\ \A i \in 1..Len(y) : s[Len(x) + i] = y[i]
      /\ \A i \in 1..Len(z) : s[Len(x) + Len(y) + i] = z[i] /\ t[Len(x) + i] = z[i]
  <2>1. \A i \in 1..Len(x) : s[i] = x[i] /\ t[i] = x[i]
    BY <1>1, <1>2, <1>3, <1>4 DEF IsCat
  <2>2. \A i \in 1..Len(y) : s[Len(x) + i] = y[i]
    BY <1>1, <1>2, <1>4 DEF IsCat
  <2>3. \A i \in 1..Len(z) : s[Len(x) + Len(y) + i] = z[i] /\ t[Len(x) + i] = z[i]
    BY <1>1, <1>2, <1>3, <1>4 DEF IsCat
  <2> QED
    BY <2>1, <2>2, <2>3
<1> DEFINE f(i) == IF i <= Len(x) THEN i ELSE i + Len(y)
<1>6. ASSUME NEW i \in DOMAIN t
      PROVE  /\ f(i) \in DOMAIN s /\ t[i] = s[f(i)]
             /\ \A k \in DOMAIN y : Len(x) + k \in DOMAIN s /\ f(i) # Len(x) + k
  <2>1. CASE i <= Len(x)
    BY <1>4, <1>5, <2>1
  <2>2. CASE i > Len(x)
    <3>a. i \in Int /\ Len(x) \in Int
      BY <1>4
    <3>0. PICK j \in Int : i = Len(x) + j
      BY <3>a, Offset
    <3>1. j \in 1..Len(z)
      BY <1>4, <2>2, <3>0
    <3>2. f(i) = Len(x) + Len(y) + j
      BY <1>4, <2>2, <3>0, <3>1
    <3>3. t[i] = s[f(i)]
      BY <1>5, <3>0, <3>1, <3>2
    <3> QED
      BY <1>4, <3>0, <3>1, <3>2, <3>3
  <2> QED
    BY <1>4, <2>1, <2>2
<1>7. \A i, j \in DOMAIN t : i < j => f(i) < f(j)
  BY <1>4
<1>8. \A k \in DOMAIN y : Len(x) + k \in DOMAIN s /\ y[k] = s[Len(x) + k]
  BY <1>4, <1>5
<1>9. ASSUME NEW i \in DOMAIN s
      PROVE  s[i] \in Elements(y) \/ \E j \in DOMAIN t : s[i] = t[j]
  <2>1. CASE i <= Len(x)
    <3>1. i \in DOMAIN t /\ s[i] = t[i]
      BY <1>4, <1>5, <2>1
    <3> QED
      BY <3>1
  <2>2. CASE i > Len(x) /\ i <= Len(x) + Len(y)
    <3>a. i \in Int /\ Len(x) \in Int
      BY <1>4
    <3>0. PICK j \in Int : i = Len(x) + j
      BY <3>a, Offset
    <3>1. j \in 1..Len(y)
      BY <1>4, <2>2, <3>0
    <3> QED
      BY <1>4, <1>5, <3>0, <3>1 DEF Elements
  <2>3. CASE i > Len(x) + Len(y)
    <3>a. i \in Int /\ (Len(x) + Len(y)) \in Int
      BY <1>4
    <3>0. PICK j \in Int : i = (Len(x) + Len(y)) + j
      BY <3>a, Offset
    <3>1. j \in 1..Len(z)
      BY <1>4, <2>3, <3>0
    <3>2. Len(x) + j \in DOMAIN t /\ s[i] = t[Len(x) + j]
      BY <1>4, <1>5, <3>0, <3>1
    <3> QED
      BY <3>2
  <2> QED
    BY <1>4, <2>1, <2>2, <2>3
<1> HIDE DEF f
<1>10. /\ lost \subseteq 1..n /\ Elements(s) = (1..n) \ lost
       /\ \A i, j \in DOMAIN s : i < j => s[i] < s[j]
       /\ \A i \in DOMAIN s : s[i] \in Nat
  <2>1. \A i \in DOMAIN s : s[i] \in Nat
    BY <1>0 DEF Exact, Units
  <2> QED
    BY <1>0, <2>1 DEF Exact
<1>11. \A i, j \in DOMAIN s : i # j => s[i] # s[j]
  BY <1>4, <1>10
<1>12. t \in Units
  BY <1>3 DEF IsCat
<1>13. \A i, j \in DOMAIN t : i < j => t[i] < t[j]
  BY <1>6, <1>7, <1>10
<1>14. Elements(y) \subseteq 1..n
  BY <1>8, <1>10 DEF Elements
<1>15. Elements(t) = (1..n) \ (lost \cup Elements(y))
  <2>1. \A i \in DOMAIN t : t[i] \in (1..n) \ lost
    BY <1>6, <1>10 DEF Elements
  <2>2. \A i \in DOMAIN t : t[i] \notin Elements(y)
    BY <1>6, <1>8, <1>11 DEF Elements
  <2>3. \A u \in (1..n) \ lost : u \in Elements(y) \/ u \in Elements(t)
    BY <1>9, <1>10 DEF Elements
  <2> QED
    BY <2>1, <2>2, <2>3 DEF Elements
<1> QED
  BY <1>c, <1>10, <1>12, <1>13, <1>14, <1>15 DEF Exact

LEMMA TakeAll ==
  ASSUME NEW s \in Units, NEW n \in 0..Len(s)
  PROVE  Take(s, n) \in Units /\ Drop(s, n) \in Units /\ Take(s, n) \o Drop(s, n) = s
  BY TakeDropFacts

LEMMA DropDrop ==
  ASSUME NEW s \in Units, NEW m \in 0..Len(s), NEW n \in 0..(Len(s) - m)
  PROVE  /\ m + n \in 0..Len(s) /\ Len(Drop(s, m)) = Len(s) - m
         /\ Drop(Drop(s, m), n) = Drop(s, m + n)
<1>0. Len(s) \in Nat
  BY DEF Units
<1>a. PICK d : d = Drop(s, m)
  OBVIOUS
<1>1. d \in Units /\ Len(d) = Len(s) - m /\ \A i \in 1..(Len(s) - m) : d[i] = s[m + i]
  BY <1>a, TakeDropPoints
<1>2. n \in 0..Len(d) /\ m + n \in 0..Len(s)
  BY <1>0, <1>1
<1>b. PICK e : e = Drop(d, n)
  OBVIOUS
<1>3. e \in Units /\ Len(e) = Len(d) - n /\ \A i \in 1..(Len(d) - n) : e[i] = d[n + i]
  BY <1>b, <1>1, <1>2, TakeDropPoints
<1>c. PICK g : g = Drop(s, m + n)
  OBVIOUS
<1>d. PICK k \in 0..Len(s) : k = m + n
  BY <1>2
<1>4. g \in Units /\ Len(g) = Len(s) - k /\ \A i \in 1..(Len(s) - k) : g[i] = s[k + i]
  <2>1. g = Drop(s, k)
    BY <1>c, <1>d
  <2> QED
    BY <2>1, TakeDropPoints
<1>5. Len(e) = Len(g) /\ \A i \in 1..Len(e) : e[i] = g[i]
  BY <1>0, <1>1, <1>3, <1>4, <1>d
<1>6. e = g
  BY <1>3, <1>4, <1>5, SeqEqual DEF Units
<1> QED
  BY <1>a, <1>b, <1>c, <1>1, <1>2, <1>6

Less(n, m) == IF n <= m THEN 0 ELSE n - m
LEMMA DropBoth ==
  ASSUME NEW a \in Units, NEW b \in Units, NEW n \in 0..(Len(a) + Len(b))
  PROVE  /\ Smaller(n, Len(a)) \in 0..Len(a) /\ Less(n, Len(a)) \in 0..Len(b)
         /\ Drop(a \o b, n) = Drop(a, Smaller(n, Len(a))) \o Drop(b, Less(n, Len(a)))
<1>0. Len(a) \in Nat /\ Len(b) \in Nat
  BY DEF Units
<1>a. PICK m : m = Smaller(n, Len(a))
  OBVIOUS
<1>b. PICK l : l = Less(n, Len(a))
  OBVIOUS
<1>1. m \in 0..Len(a) /\ l \in 0..Len(b) /\ m + l = n /\ (m < Len(a) => l = 0)
  <2>1. CASE n <= Len(a)
    <3>1. m = n /\ l = 0
      BY <1>0, <1>a, <1>b, <2>1 DEF Smaller, Less
    <3> QED
      BY <1>0, <2>1, <3>1
  <2>2. CASE ~(n <= Len(a))
    <3>1. m = Len(a) /\ l = n - Len(a)
      BY <1>0, <1>a, <1>b, <2>2 DEF Smaller, Less
    <3> QED
      BY <1>0, <2>2, <3>1
  <2> QED
    BY <2>1, <2>2
<1>c. PICK s : s = a \o b
  OBVIOUS
<1>2. IsCat(s, a, b)
  BY <1>c, CatFacts
<1>d. PICK d : d = Drop(a, m)
  OBVIOUS
<1>e. PICK e : e = Drop(b, l)
  OBVIOUS
<1>f. PICK g : g = d \o e
  OBVIOUS
<1>h. PICK r : r = Drop(s, n)
  OBVIOUS
<1>3. d \in Units /\ Len(d) = Len(a) - m /\ \A i \in 1..(Len(a) - m) : d[i] = a[m + i]
  BY <1>d, <1>1, TakeDropPoints
<1>4. e \in Units /\ Len(e) = Len(b) - l /\ \A i \in 1..(Len(b) - l) : e[i] = b[l + i]
  BY <1>e, <1>1, TakeDropPoints
<1>5. IsCat(g, d, e)
  BY <1>f, <1>3, <1>4, CatFacts
<1>6. s \in Units /\ n \in 0..Len(s) /\ Len(s) = Len(a) + Len(b)
  BY <1>0, <1>2 DEF IsCat
<1>7. r \in Units /\ Len(r) = Len(s) - n /\ \A i \in 1..(Len(s) - n) : r[i] = s[n + i]
  BY <1>h, <1>6, TakeDropPoints
<1>8. Len(g) = Len(r)
  <2>1. Len(g) = Len(d) + Len(e)
    BY <1>5 DEF IsCat
  <2>2. Len(d) = Len(a) - m /\ Len(e) = Len(b) - l /\ Len(r) = Len(s) - n /\ Len(s) = Len(a) + Len(b)
    BY <1>3, <1>4, <1>6, <1>7
  <2>3. m \in Int /\ l \in Int /\ n \in Int /\ m + l = n
    BY <1>0, <1>1
  <2> QED
    BY <1>0, <2>1, <2>2, <2>3
<1>9. ASSUME NEW i \in 1..Len(r) PROVE r[i] = g[i]
  <2>0. /\ \A k \in 1..Len(a) : s[k] = a[k]
        /\ \A k \in 1..Len(b) : s[Len(a) + k] = b[k]
        /\ \A k \in 1..Len(d) : g[k] = d[k]
        /\ \A k \in 1..Len(e) : g[Len(d) + k] = e[k]
    BY <1>2, <1>5 DEF IsCat
  <2>1. r[i] = s[n + i]
    BY <1>7
  <2>2. CASE i <= Len(a) - m
    <3>2. l = 0 /\ n = m
      BY <1>0, <1>1, <2>2, <1>6, <1>7
    <3>3. m + i \in 1..Len(a) /\ i \in 1..Len(d) /\ i \in 1..(Len(a) - m)
      BY <1>0, <1>1, <1>3, <2>2
    <3> QED
      BY <1>3, <2>0, <2>1, <3>2, <3>3
  <2>3. CASE i > Len(a) - m
    <3>0. Len(a) - m \in Int /\ i \in Int
      BY <1>0, <1>1
    <3>a. PICK j \in Int : i = (Len(a) - m) + j
      BY <3>0, Offset
    <3>1. j \in Nat /\ i = (Len(a) - m) + j /\ j >= 1
      BY <1>0, <1>1, <2>3, <3>a
    <3>b. m \in Int /\ l \in Nat /\ n \in Int /\ m + l = n
      BY <1>0, <1>1
    <3>c. Len(r) = (Len(a) + Len(b)) - n /\ i <= Len(r)
      BY <1>6, <1>7
    <3>2. j \in 1..(Len(b) - l) /\ l + j \in 1..Len(b) /\ n + i = Len(a) + (l + j)
      BY <1>0, <3>b, <3>c, <3>1
    <3>3. g[i] = e[j] /\ e[j] = b[l + j]
      <4>1. j \in 1..Len(e) /\ Len(d) + j = i
        BY <1>0, <1>1, <1>3, <1>4, <3>1, <3>2
      <4>2. g[Len(d) + j] = e[j]
        BY <2>0, <4>1
      <4> QED
        BY <1>4, <3>2, <4>1, <4>2
    <3> QED
      BY <2>0, <2>1, <3>2, <3>3
  <2> QED
    BY <1>0, <1>1, <1>6, <1>7, <2>2, <2>3
<1>10. r = g
  BY <1>5, <1>7, <1>8, <1>9, SeqEqual DEF IsCat, Units
<1> QED
  BY <1>a, <1>b, <1>c, <1>d, <1>e, <1>f, <1>h, <1>1, <1>10

-----------------------------------------------------------------------------
\* What is on its way in the program, and what an operation may do to it.
Below(s) == {s[i] : i \in {j \in DOMAIN s : s[j] < FirstMessage}}
Line(p, c) ==
  p.sock[Other(c)].tx \o
    (p.leg[Other(c)].pipe \o (Buffered(p.leg[Other(c)]) \o DataIn(p.sock[c].rx)))
LostOf(p, c) == {r.unit : r \in {x \in p.lost : x.from = c}}
Saves(p, q, c) ==
  \A g \in Units : \A n \in 0..(FirstMessage - 1) :
    Exact(g \o Line(p, c), n, LostOf(p, c)) => Exact(g \o Line(q, c), n, LostOf(q, c))
Conserves(p, q) == \A c \in Legs : Saves(p, q, c)

LEMMA Others ==
  \A c \in Legs : /\ Other(c) \in Legs /\ Other(c) # c /\ Other(Other(c)) = c
                  /\ \A d \in Legs : d = c \/ d = Other(c)
  BY DEF Legs, Other

LEMMA SavesSame ==
  ASSUME NEW p, NEW q, NEW c, Line(q, c) = Line(p, c), LostOf(q, c) = LostOf(p, c)
  PROVE  Saves(p, q, c)
  BY DEF Saves

LEMMA SavesThen ==
  ASSUME NEW p, NEW q, NEW r, Conserves(p, q), Conserves(q, r) PROVE Conserves(p, r)
  BY DEF Conserves, Saves

LEMMA BelowFacts ==
  ASSUME NEW s \in Units
  PROVE  /\ Elements(s) \subseteq 1..(FirstMessage - 1) => Below(s) = Elements(s)
         /\ s = <<>> => Below(s) = {}
         /\ (s # <<>> => s[1] < FirstMessage) => DataIn(s) = s
<1>1. Elements(s) \subseteq 1..(FirstMessage - 1) => Below(s) = Elements(s)
  BY DEF Elements, Below, FirstMessage
<1>2. s = <<>> => Below(s) = {}
  <2>1. DOMAIN s = 1..Len(s)
    BY DEF Units
  <2> QED
    BY <2>1 DEF Below
<1>3. (s # <<>> => s[1] < FirstMessage) => DataIn(s) = s
  <2>1. s # <<>> => s[1] \in Nat
    <3>1. s # <<>> => Len(s) \in Nat /\ Len(s) # 0
      BY EmptySeq DEF Units
    <3> QED
      BY <3>1, ElementOfSeq DEF Units
  <2>2. FirstMessage \in Nat
    BY DEF FirstMessage
  <2> QED
    BY <2>1, <2>2 DEF DataIn
<1> QED
  BY <1>1, <1>2, <1>3

LEMMA SavesLess ==
  ASSUME NEW p, NEW q, NEW c, NEW x \in Units, NEW y \in Units, NEW z \in Units,
         Line(p, c) = x \o (y \o z), Line(q, c) = x \o z,
         LostOf(q, c) = LostOf(p, c) \cup Below(y)
  PROVE  Saves(p, q, c)
<1>a. PICK l : l = Line(p, c)
  OBVIOUS
<1>b. PICK k : k = Line(q, c)
  OBVIOUS
<1>c. PICK old : old = LostOf(p, c)
  OBVIOUS
<1>d. PICK new : new = LostOf(q, c)
  OBVIOUS
<1>0. l = x \o (y \o z) /\ k = x \o z /\ new = old \cup Below(y)
  BY <1>a, <1>b, <1>c, <1>d
<1>1. ASSUME NEW g \in Units, NEW n \in 0..(FirstMessage - 1), Exact(g \o l, n, old)
      PROVE  Exact(g \o k, n, new)
  <2>a. PICK e : e = y \o z
    OBVIOUS
  <2>b. PICK w : w = g \o x
    OBVIOUS
  <2>1. e \in Units /\ w \in Units
    BY <2>a, <2>b, Joined
  <2>2. g \o l = w \o e
    <3>1. l = x \o e
      BY <1>0, <2>a
    <3>2. Same(g, x, e)
      BY <2>1, Regroup, Zenon
    <3> QED
      BY <2>b, <3>1, <3>2 DEF Same
  <2>3. w \o e = (w \o y) \o z
    <3>1. Same(w, y, z)
      BY <2>1, Regroup, Zenon
    <3> QED
      BY <2>a, <3>1 DEF Same
  <2>4. g \o k = w \o z
    <3>1. Same(g, x, z)
      BY Regroup, Zenon
    <3> QED
      BY <1>0, <2>b, <3>1 DEF Same
  <2>5. Exact((w \o y) \o z, n, old)
    BY <1>1, <2>2, <2>3
  <2>6. n \in Nat
    BY DEF FirstMessage
  <2>7. Exact(w \o z, n, old \cup Elements(y))
    BY <2>1, <2>5, <2>6, ExactWithout
  <2>8. Elements(y) \subseteq 1..(FirstMessage - 1)
    <3>1. Elements(y) \subseteq 1..n
      BY <2>7 DEF Exact
    <3>2. FirstMessage - 1 \in Int /\ n \in Int /\ n <= FirstMessage - 1
      BY DEF FirstMessage
    <3>3. \A j \in 1..n : j \in 1..(FirstMessage - 1)
      BY <3>2
    <3> QED
      BY <3>1, <3>3
  <2>9. Below(y) = Elements(y)
    BY <2>8, BelowFacts
  <2> QED
    BY <1>0, <2>4, <2>7, <2>9
<1> QED
  BY <1>1, <1>a, <1>b, <1>c, <1>d DEF Saves

LEMMA LoseFacts ==
  ASSUME NEW p, PairFields \subseteq DOMAIN p, NEW c \in Legs, NEW u, NEW why,
         NEW q, q = Lose(p, c, u, why)
  PROVE  /\ DOMAIN q = DOMAIN p /\ q.leg = p.leg /\ q.sock = p.sock /\ q.socks = p.socks
         /\ q.fatal = p.fatal /\ q.ok = p.ok
         /\ LostOf(q, c) = LostOf(p, c) \cup Below(u)
         /\ LostOf(q, Other(c)) = LostOf(p, Other(c))
<1> DEFINE R == {[from |-> c, unit |-> u[i], why |-> why] : i \in {j \in DOMAIN u : u[j] < FirstMessage}}
<1>1. /\ DOMAIN q = DOMAIN p /\ q.leg = p.leg /\ q.sock = p.sock /\ q.socks = p.socks
      /\ q.fatal = p.fatal /\ q.ok = p.ok /\ q.lost = p.lost \cup R
  BY DEF Lose, PairFields
<1>2. \A r \in R : r.from = c /\ r.unit \in Below(u)
  BY DEF Below
<1>3. \A v \in Below(u) : \E r \in R : r.from = c /\ r.unit = v
  <2> SUFFICES ASSUME NEW i \in {j \in DOMAIN u : u[j] < FirstMessage}
               PROVE \E r \in R : r.from = c /\ r.unit = u[i]
    BY DEF Below
  <2>1. [from |-> c, unit |-> u[i], why |-> why] \in R
    OBVIOUS
  <2> QED
    BY <2>1
<1> HIDE DEF R
<1>4. LostOf(q, c) = LostOf(p, c) \cup Below(u)
  <2>1. LostOf(q, c) \subseteq LostOf(p, c) \cup Below(u)
    BY <1>1, <1>2 DEF LostOf
  <2>2. LostOf(p, c) \subseteq LostOf(q, c)
    BY <1>1 DEF LostOf
  <2>3. Below(u) \subseteq LostOf(q, c)
    BY <1>1, <1>3 DEF LostOf
  <2> QED
    BY <2>1, <2>2, <2>3
<1>5. LostOf(q, Other(c)) = LostOf(p, Other(c))
  <2>1. Other(c) # c
    BY Others
  <2> QED
    BY <1>1, <1>2, <2>1 DEF LostOf
<1> QED
  BY <1>1, <1>4, <1>5

-----------------------------------------------------------------------------
\* What every operation keeps. The buffer in the middle is never used, a leg
\* that was freed holds nothing; a closed socket cannot be read any more.
BaseLeg(l) == l.buf[1] = <<>> /\ (l.st = "none" => ~HasUnsent(l))
BaseSock(s) ==
  /\ s.st \in {"closing", "cut", "none", "connecting"} => s.rx = <<>>
  /\ s.st \in {"cut", "none", "connecting"} => s.tx = <<>>
AllUnits(s) == \A i \in DOMAIN s : s[i] < FirstMessage
\* Only a SOCKS client says something else than units, one message at a time.
Heard(p) ==
  /\ AllUnits(p.sock["remote"].rx)
  /\ \/ AllUnits(p.sock["local"].rx)
     \/ Len(p.sock["local"].rx) = 1 /\ p.socks \in {"handshake", "request"}
\* Until its request is served there is no server.
Quiet(p) ==
  p.socks \in Early =>
    p.leg["remote"].st = "none" /\ p.sock["remote"].st = "none" /\ ~HasUnsent(p.leg["local"])
Base(p) ==
  /\ Shaped(p) /\ p.fatal = FALSE /\ Heard(p) /\ Quiet(p)
  /\ \A c \in Legs : BaseLeg(p.leg[c]) /\ BaseSock(p.sock[c])
\* A buffer for the end of the stream is filled once: the leg that was read
\* to fill it has ended since.
LastRead(p, c) ==
  /\ p.leg[Other(c)].buf[2] # <<>> => p.leg[c].st \in {"rdhup", "closed", "none"}
  /\ p.leg[Other(c)].buf[3] # <<>> => p.leg[c].st \in {"closed", "none"}
\* epoll was told not to report the end of a stream again.
Told(l) ==
  /\ l.prev[3] => l.st \in {"rdhup", "closed"}
  /\ l.st = "rdhup" => "rdhup" \notin l.mask
PairInv(p) == Base(p) /\ \A c \in Legs : LastRead(p, c) /\ Told(p.leg[c])
\* What no operation on a leg but the handlers of its end and the turn's end does.
Stays(p, q) ==
  /\ \A c \in Legs : /\ q.leg[c].st = "none" <=> p.leg[c].st = "none"
                     /\ q.leg[c].st = "rdhup" => p.leg[c].st = "rdhup"
  /\ p.socks = "tcp" => q.socks = "tcp"
  /\ q.socks = "resolve" => p.socks = "resolve"

\* Most operations change flags, masks and states, and move no unit.
StillLeg(l, k) ==
  /\ LegFields \subseteq DOMAIN k /\ k.mask \in Masks /\ k.pipe = l.pipe /\ k.buf = l.buf /\ Told(k)
  /\ \/ k.st = l.st
     \/ l.st = "unavailable" /\ k.st = "available"
     \/ l.st \in {"unavailable", "available", "rdhup"} /\ k.st = "closed"
StillSock(s, t) ==
  /\ SockFields \subseteq DOMAIN t /\ t.rx = s.rx /\ t.tx = s.tx
  /\ \/ t.st = s.st
     \/ s.st = "connecting" /\ t.st \in {"aborted", "open", "refused"}
     \/ s.st \in {"closing", "cut"} /\ s.tx = <<>> /\ t.st = "none"
Still(p, q) ==
  /\ PairFields \subseteq DOMAIN q /\ DOMAIN q.leg = Legs /\ DOMAIN q.sock = Legs
  /\ \A c \in Legs : StillLeg(p.leg[c], q.leg[c]) /\ StillSock(p.sock[c], q.sock[c])
  /\ q.lost = p.lost /\ q.fatal = p.fatal
  /\ q.socks = p.socks \/ (p.socks = "connection" /\ q.socks = "tcp")

LEMMA StillThen ==
  ASSUME NEW p, NEW q, NEW r, Still(p, q), Still(q, r) PROVE Still(p, r)
<1>1. ASSUME NEW c \in Legs PROVE StillLeg(p.leg[c], r.leg[c])
  <2>1. StillLeg(p.leg[c], q.leg[c]) /\ StillLeg(q.leg[c], r.leg[c])
    BY DEF Still
  <2> QED
    BY <2>1 DEF StillLeg
<1>2. ASSUME NEW c \in Legs PROVE StillSock(p.sock[c], r.sock[c])
  <2>1. StillSock(p.sock[c], q.sock[c]) /\ StillSock(q.sock[c], r.sock[c])
    BY DEF Still
  <2> QED
    BY <2>1 DEF StillSock
<1> QED
  BY <1>1, <1>2 DEF Still

LEMMA StillSelf ==
  ASSUME NEW p, Shaped(p), \A c \in Legs : Told(p.leg[c]) PROVE Still(p, p)
<1>1. \A c \in Legs : StillLeg(p.leg[c], p.leg[c])
  BY DEF StillLeg, Shaped, IsLeg
<1>2. \A c \in Legs : StillSock(p.sock[c], p.sock[c])
  BY DEF StillSock, Shaped, IsSock
<1> QED
  BY <1>1, <1>2 DEF Still, Shaped

LEMMA StillShape ==
  ASSUME NEW p, NEW q, Shaped(p), Still(p, q)
  PROVE  Shaped(q) /\ \A c \in Legs : Told(q.leg[c])
<1>1. ASSUME NEW c \in Legs PROVE IsLeg(q.leg[c]) /\ Told(q.leg[c])
  <2>1. StillLeg(p.leg[c], q.leg[c]) /\ IsLeg(p.leg[c])
    BY DEF Still, Shaped
  <2> QED
    BY <2>1 DEF StillLeg, IsLeg, States
<1>2. ASSUME NEW c \in Legs PROVE IsSock(q.sock[c])
  <2>1. StillSock(p.sock[c], q.sock[c]) /\ IsSock(p.sock[c])
    BY DEF Still, Shaped
  <2> QED
    BY <2>1 DEF StillSock, IsSock
<1>3. q.socks \in Early \cup {"connection", "tcp"}
  BY DEF Still, Shaped
<1> QED
  BY <1>1, <1>2, <1>3 DEF Still, Shaped

LEMMA StillLines ==
  ASSUME NEW p, NEW q, NEW c \in Legs, Still(p, q)
  PROVE  Line(q, c) = Line(p, c) /\ LostOf(q, c) = LostOf(p, c)
<1>1. Other(c) \in Legs
  BY Others
<1>2. /\ q.sock[Other(c)].tx = p.sock[Other(c)].tx /\ q.sock[c].rx = p.sock[c].rx
      /\ q.leg[Other(c)].pipe = p.leg[Other(c)].pipe /\ q.leg[Other(c)].buf = p.leg[Other(c)].buf
      /\ q.lost = p.lost
  BY <1>1 DEF Still, StillLeg, StillSock
<1>3. Buffered(q.leg[Other(c)]) = Buffered(p.leg[Other(c)])
  BY <1>2 DEF Buffered
<1> QED
  BY <1>2, <1>3 DEF Line, LostOf

LEMMA StillConserves == ASSUME NEW p, NEW q, Still(p, q) PROVE Conserves(p, q)
  BY StillLines, SavesSame DEF Conserves

LEMMA StillBase ==
  ASSUME NEW p, NEW q, Base(p), Still(p, q)
  PROVE  /\ Base(q) /\ Stays(p, q) /\ \A c \in Legs : Told(q.leg[c])
         /\ \A c \in Legs : LastRead(p, c) => LastRead(q, c)
<1>1. Shaped(q) /\ \A c \in Legs : Told(q.leg[c])
  BY StillShape DEF Base
<1>2. \A c \in Legs : HasUnsent(q.leg[c]) <=> HasUnsent(p.leg[c])
  BY DEF Still, StillLeg, HasUnsent, BuffersPresent
<1>3. ASSUME NEW c \in Legs PROVE BaseLeg(q.leg[c])
  <2>1. StillLeg(p.leg[c], q.leg[c]) /\ BaseLeg(p.leg[c])
    BY DEF Still, Base
  <2>2. q.leg[c].st = "none" => p.leg[c].st = "none"
    BY <2>1 DEF StillLeg
  <2> QED
    BY <1>2, <2>1, <2>2 DEF StillLeg, BaseLeg
<1>4. ASSUME NEW c \in Legs PROVE BaseSock(q.sock[c])
  <2>1. StillSock(p.sock[c], q.sock[c]) /\ BaseSock(p.sock[c])
    BY DEF Still, Base
  <2> QED
    BY <2>1 DEF StillSock, BaseSock
<1>5. {"local", "remote"} = Legs
  BY DEF Legs
<1>6. Heard(q)
  <2>1. /\ q.sock["remote"].rx = p.sock["remote"].rx /\ q.sock["local"].rx = p.sock["local"].rx
        /\ p.socks \in {"handshake", "request"} => q.socks = p.socks
    BY <1>5 DEF Still, StillSock
  <2> QED
    BY <2>1 DEF Base, Heard
<1>7. Quiet(q)
  <2>1. q.socks \in Early => p.socks \in Early
    BY DEF Still, Early
  <2>2. /\ p.leg["remote"].st = "none" => q.leg["remote"].st = "none"
        /\ p.sock["remote"].st = "none" => q.sock["remote"].st = "none"
    BY <1>5 DEF Still, StillLeg, StillSock
  <2> QED
    BY <1>2, <1>5, <2>1, <2>2 DEF Base, Quiet
<1>8. Base(q)
  BY <1>1, <1>3, <1>4, <1>6, <1>7 DEF Base, Still
<1>9. Stays(p, q)
  <2>1. \A c \in Legs : /\ q.leg[c].st = "none" <=> p.leg[c].st = "none"
                        /\ q.leg[c].st = "rdhup" => p.leg[c].st = "rdhup"
    BY DEF Still, StillLeg
  <2> QED
    BY <2>1 DEF Stays, Still
<1>10. ASSUME NEW c \in Legs, LastRead(p, c) PROVE LastRead(q, c)
  <2>1. Other(c) \in Legs
    BY Others
  <2>2. StillLeg(p.leg[c], q.leg[c]) /\ q.leg[Other(c)].buf = p.leg[Other(c)].buf
    BY <2>1 DEF Still, StillLeg
  <2> QED
    BY <1>10, <2>2 DEF StillLeg, LastRead
<1> QED
  BY <1>1, <1>8, <1>9, <1>10

\* An operation is good when it keeps the invariant and what is on its way.
Good(p, q) == PairInv(q) /\ Conserves(p, q) /\ Stays(p, q)
LEMMA StillGood == ASSUME NEW p, NEW q, PairInv(p), Still(p, q) PROVE Good(p, q)
  BY StillBase, StillConserves DEF Good, PairInv
LEMMA GoodThen == ASSUME NEW p, NEW q, NEW r, Good(p, q), Good(q, r) PROVE Good(p, r)
  BY SavesThen DEF Good, Stays
LEMMA GoodSelf == ASSUME NEW p, PairInv(p) PROVE Good(p, p)
  BY StillSelf, StillGood DEF PairInv, Base

\* What the operations that move nothing need of the pair.
Formed(p) == Shaped(p) /\ \A c \in Legs : Told(p.leg[c])
LEMMA FormedThen == ASSUME NEW p, NEW q, Formed(p), Still(p, q) PROVE Formed(q)
  BY StillShape DEF Formed
LEMMA FormedSelf == ASSUME NEW p, Formed(p) PROVE Still(p, p)
  BY StillSelf DEF Formed
LEMMA InvFormed == ASSUME NEW p, PairInv(p) PROVE Formed(p)
  BY DEF PairInv, Base, Formed

-----------------------------------------------------------------------------
\* Operations on one leg or one socket that move nothing.
OnlyLeg(p, q, c) ==
  /\ PairFields \subseteq DOMAIN q /\ DOMAIN q.leg = Legs /\ q.leg[Other(c)] = p.leg[Other(c)]
  /\ q.sock = p.sock /\ q.lost = p.lost /\ q.fatal = p.fatal /\ q.socks = p.socks
OnlySock(p, q, c) ==
  /\ PairFields \subseteq DOMAIN q /\ DOMAIN q.sock = Legs /\ q.sock[Other(c)] = p.sock[Other(c)]
  /\ q.leg = p.leg /\ q.lost = p.lost /\ q.fatal = p.fatal /\ q.socks = p.socks
LEMMA LegStill ==
  ASSUME NEW p, NEW q, NEW c \in Legs, Shaped(p), Told(p.leg[Other(c)]), OnlyLeg(p, q, c),
         StillLeg(p.leg[c], q.leg[c])
  PROVE  Still(p, q)
<1>1. Other(c) \in Legs /\ \A d \in Legs : d = c \/ d = Other(c)
  BY Others
<1>2. StillLeg(p.leg[Other(c)], q.leg[Other(c)])
  BY <1>1 DEF StillLeg, OnlyLeg, Shaped, IsLeg
<1>3. \A d \in Legs : StillLeg(p.leg[d], q.leg[d])
  BY <1>1, <1>2
<1>4. \A d \in Legs : StillSock(p.sock[d], q.sock[d])
  BY DEF StillSock, OnlyLeg, Shaped, IsSock
<1> QED
  BY <1>3, <1>4 DEF Still, OnlyLeg, Shaped
LEMMA SockStill ==
  ASSUME NEW p, NEW q, NEW c \in Legs, Formed(p), OnlySock(p, q, c),
         StillSock(p.sock[c], q.sock[c])
  PROVE  Still(p, q)
<1>1. Other(c) \in Legs /\ \A d \in Legs : d = c \/ d = Other(c)
  BY Others
<1>2. StillSock(p.sock[Other(c)], q.sock[Other(c)])
  BY <1>1 DEF StillSock, OnlySock, Formed, Shaped, IsSock
<1>3. \A d \in Legs : StillSock(p.sock[d], q.sock[d])
  BY <1>1, <1>2
<1>4. \A d \in Legs : StillLeg(p.leg[d], q.leg[d])
  BY DEF StillLeg, OnlySock, Formed, Shaped, IsLeg
<1> QED
  BY <1>3, <1>4 DEF Still, OnlySock, Formed, Shaped

\* Operations that leave legs and sockets alone.
Aside(p, q) ==
  /\ PairFields \subseteq DOMAIN q /\ q.leg = p.leg /\ q.sock = p.sock /\ q.lost = p.lost
  /\ q.fatal = p.fatal /\ q.socks = p.socks
LEMMA AsideStill == ASSUME NEW p, NEW q, Formed(p), Aside(p, q) PROVE Still(p, q)
<1>1. Still(p, p)
  BY FormedSelf
<1> QED
  BY <1>1 DEF Aside, Still
LEMMA AsideThen == ASSUME NEW p, NEW q, NEW r, Aside(p, q), Aside(q, r) PROVE Aside(p, r)
  BY DEF Aside
LEMMA AsideShaped == ASSUME NEW p, NEW q, Shaped(p), Aside(p, q) PROVE Shaped(q)
  BY DEF Aside, Shaped
LEMMA FailAside ==
  ASSUME NEW p, Shaped(p) PROVE Aside(p, Fail(p)) /\ Fail(p).ok = FALSE
  BY DEF Shaped, PairFields, Aside, Fail
LEMMA FailStill ==
  ASSUME NEW p, Formed(p)
  PROVE  Still(p, Fail(p)) /\ Aside(p, Fail(p)) /\ Fail(p).ok = FALSE
  BY FailAside, AsideStill DEF Formed
LEMMA ReplyStill ==
  ASSUME NEW p, Formed(p), NEW what
  PROVE  Still(p, Reply(p, what)) /\ Aside(p, Reply(p, what)) /\ Reply(p, what).ok = p.ok
<1>1. Aside(p, Reply(p, what)) /\ Reply(p, what).ok = p.ok
  BY DEF Formed, Shaped, PairFields, Aside, Reply
<1> QED
  BY <1>1, AsideStill
LEMMA FailedWriteStill ==
  ASSUME NEW p, Formed(p), NEW c \in Legs, NEW q, q = FailedWrite(p, c)
  PROVE  Still(p, q) /\ q.leg = p.leg /\ q.ok = p.ok
<1>1. Other(c) \in Legs /\ Other(c) # c
  BY Others
<1>2. PairFields \subseteq DOMAIN p /\ DOMAIN p.sock = Legs /\ SockFields \subseteq DOMAIN p.sock[c]
  BY DEF Formed, Shaped, IsSock
<1>3. OnlySock(p, q, c) /\ q.ok = p.ok
  BY <1>1, <1>2 DEF OnlySock, FailedWrite, PairFields
<1>4. StillSock(p.sock[c], q.sock[c])
  BY <1>2 DEF StillSock, FailedWrite, PairFields, SockFields
<1> QED
  BY <1>3, <1>4, SockStill DEF OnlySock

\* The flags of a leg and what epoll is told of them. The leg's state may have
\* just become "rdhup": then the flags of the last update still say otherwise.
CanTell(l) ==
  /\ l.prev[3] => l.st \in {"rdhup", "closed"}
  /\ l.prev[3] /\ l.st = "rdhup" => "rdhup" \notin l.mask
LEMMA ToldTells == ASSUME NEW l, Told(l) PROVE CanTell(l)
  BY DEF Told, CanTell
LEMMA UpdateStill ==
  ASSUME NEW p, NEW c \in Legs, Shaped(p), CanTell(p.leg[c]), Told(p.leg[Other(c)]),
         NEW q, q = EpollUpdateFlow(p, c)
  PROVE  Still(p, q) /\ OnlyLeg(p, q, c) /\ q.leg[c].st = p.leg[c].st /\ q.ok = p.ok
<1>a. PICK l : l = p.leg[c]
  OBVIOUS
<1>0. /\ Other(c) \in Legs /\ Other(c) # c /\ PairFields \subseteq DOMAIN p /\ DOMAIN p.leg = Legs
      /\ IsLeg(l) /\ CanTell(l)
  BY <1>a, Others DEF Shaped
<1>b. PICK m : m = MaskOf(l)
  OBVIOUS
<1>c. PICK f : f = FlagsOf(l)
  OBVIOUS
<1>1. m \in Masks /\ (f[3] <=> l.st = "rdhup") /\ (l.st = "rdhup" => "rdhup" \notin m)
  <2>1. f[3] <=> l.st = "rdhup"
    BY <1>c DEF FlagsOf
  <2> QED
    BY <1>b, <2>1 DEF MaskOf, Masks
<1>2. CASE l.prev = f
  <2>1. q = p
    BY <1>2, <1>a, <1>c DEF EpollUpdateFlow
  <2>2. l.prev[3] <=> l.st = "rdhup"
    BY <1>1, <1>2
  <2>3. Told(p.leg[c])
    BY <1>0, <1>a, <2>2 DEF Told, CanTell
  <2>4. \A d \in Legs : Told(p.leg[d])
    BY <2>3, Others
  <2>5. Still(p, p)
    BY <2>4, StillSelf
  <2> QED
    BY <2>1, <2>5 DEF OnlyLeg, Shaped
<1>3. CASE l.prev # f
  <2>1. q = [EpollSet(p, c, m) EXCEPT !.leg[c].prev = f]
    BY <1>3, <1>a, <1>b, <1>c DEF EpollUpdateFlow
  <2>2. /\ DOMAIN q = DOMAIN p /\ q.sock = p.sock /\ q.lost = p.lost /\ q.fatal = p.fatal
        /\ q.socks = p.socks /\ q.ok = p.ok /\ DOMAIN q.leg = DOMAIN p.leg
        /\ q.leg[Other(c)] = p.leg[Other(c)]
    BY <1>0, <2>1 DEF EpollSet, PairFields
  <2>3. q.leg[c] = [[l EXCEPT !.mask = m] EXCEPT !.prev = f]
    <3>1. "leg" \in DOMAIN p /\ c \in DOMAIN p.leg /\ p.leg[c] = l
      BY <1>0, <1>a DEF PairFields
    <3>2. PICK r : r = EpollSet(p, c, m)
      OBVIOUS
    <3>3. "leg" \in DOMAIN r /\ c \in DOMAIN r.leg /\ r.leg[c] = [l EXCEPT !.mask = m]
      BY <3>1, <3>2 DEF EpollSet
    <3> QED
      BY <2>1, <3>2, <3>3
  <2>4. /\ LegFields \subseteq DOMAIN q.leg[c] /\ q.leg[c].mask = m /\ q.leg[c].pipe = l.pipe
        /\ q.leg[c].buf = l.buf /\ q.leg[c].st = l.st /\ q.leg[c].prev = f
    BY <1>0, <2>3 DEF IsLeg, LegFields
  <2>5. Told(q.leg[c])
    BY <1>1, <2>4 DEF Told
  <2>6. StillLeg(p.leg[c], q.leg[c])
    BY <1>1, <1>a, <2>4, <2>5 DEF StillLeg
  <2>7. OnlyLeg(p, q, c)
    BY <1>0, <2>2 DEF OnlyLeg
  <2> QED
    BY <1>a, <2>2, <2>4, <2>6, <2>7, LegStill
<1> QED
  BY <1>2, <1>3

LEMMA SetFlowTells ==
  ASSUME NEW p, NEW c \in Legs, Shaped(p), CanTell(p.leg[c]), Told(p.leg[Other(c)]),
         NEW in, NEW out, NEW q, q = EpollSetFlow(p, c, in, out)
  PROVE  Still(p, q) /\ q.ok = p.ok /\ q.leg[c].st = p.leg[c].st /\ q.leg[Other(c)] = p.leg[Other(c)]
<1>a. PICK r : r = [p EXCEPT !.leg[c].flowIn = in, !.leg[c].flowOut = out]
  OBVIOUS
<1>0. /\ Other(c) \in Legs /\ Other(c) # c /\ PairFields \subseteq DOMAIN p /\ DOMAIN p.leg = Legs
      /\ IsLeg(p.leg[c])
  BY Others DEF Shaped
<1>1. /\ DOMAIN r = DOMAIN p /\ r.sock = p.sock /\ r.lost = p.lost /\ r.fatal = p.fatal
      /\ r.socks = p.socks /\ r.ok = p.ok /\ DOMAIN r.leg = DOMAIN p.leg
      /\ r.leg[Other(c)] = p.leg[Other(c)]
  BY <1>0, <1>a DEF PairFields
<1>2. r.leg[c] = [[p.leg[c] EXCEPT !.flowIn = in] EXCEPT !.flowOut = out]
  BY <1>0, <1>a DEF PairFields
<1>3. /\ DOMAIN r.leg[c] = DOMAIN p.leg[c] /\ r.leg[c].st = p.leg[c].st
      /\ r.leg[c].mask = p.leg[c].mask /\ r.leg[c].prev = p.leg[c].prev
      /\ r.leg[c].pipe = p.leg[c].pipe /\ r.leg[c].buf = p.leg[c].buf
  BY <1>0, <1>2 DEF IsLeg, LegFields
<1>4. IsLeg(r.leg[c]) /\ CanTell(r.leg[c])
  BY <1>0, <1>3 DEF IsLeg, CanTell
<1>5. Shaped(r) /\ Told(r.leg[Other(c)])
  <2>1. \A d \in Legs : IsLeg(r.leg[d])
    BY <1>0, <1>1, <1>4, Others DEF Shaped
  <2> QED
    BY <1>1, <2>1 DEF Shaped
<1>6. q = EpollUpdateFlow(r, c)
  BY <1>a DEF EpollSetFlow
<1>7. Still(r, q) /\ OnlyLeg(r, q, c) /\ q.leg[c].st = r.leg[c].st /\ q.ok = r.ok
  BY <1>4, <1>5, <1>6, UpdateStill
<1>8. StillLeg(p.leg[c], q.leg[c])
  <2>1. StillLeg(r.leg[c], q.leg[c])
    BY <1>7 DEF Still
  <2> QED
    BY <1>3, <2>1 DEF StillLeg
<1>9. OnlyLeg(p, q, c)
  BY <1>1, <1>7 DEF OnlyLeg
<1>10. Still(p, q)
  BY <1>8, <1>9, LegStill
<1> QED
  BY <1>1, <1>3, <1>7, <1>9, <1>10 DEF OnlyLeg

LEMMA SetFlowStill ==
  ASSUME NEW p, NEW c \in Legs, Formed(p), NEW in, NEW out, NEW q, q = EpollSetFlow(p, c, in, out)
  PROVE  Still(p, q) /\ q.ok = p.ok /\ q.leg[c].st = p.leg[c].st /\ q.leg[Other(c)] = p.leg[Other(c)]
<1>1. CanTell(p.leg[c]) /\ Told(p.leg[Other(c)]) /\ Shaped(p)
  BY Others, ToldTells DEF Formed
<1> QED
  BY <1>1, SetFlowTells

LEMMA SetFlowPairStill ==
  ASSUME NEW p, NEW c \in Legs, Formed(p), NEW q, q = EpollSetFlowPair(p, c)
  PROVE  Still(p, q) /\ q.ok = p.ok
<1>a. PICK o : o = Other(c)
  OBVIOUS
<1>b. PICK in : in = (~(Alive(p, o) /\ HasUnsent(p.leg[o])) /\ p.leg[c].st # "rdhup")
  OBVIOUS
<1>c. PICK a : a = EpollSetFlow(p, c, in, HasUnsent(p.leg[c]))
  OBVIOUS
<1>u. PICK u : u = (~HasUnsent(p.leg[c]) /\ p.leg[o].st # "rdhup")
  OBVIOUS
<1>v. PICK v : v = (Alive(p, o) /\ HasUnsent(p.leg[o]))
  OBVIOUS
<1>d. PICK b : b = EpollSetFlow(a, o, u, v)
  OBVIOUS
<1>1. q = IF Alive(p, o) THEN b ELSE a
  BY <1>a, <1>b, <1>c, <1>u, <1>v, <1>d DEF EpollSetFlowPair
<1>2. Still(p, a) /\ a.ok = p.ok
  BY <1>c, SetFlowStill
<1>3. Formed(a) /\ o \in Legs
  BY <1>a, <1>2, FormedThen, Others
<1>4. Still(a, b) /\ b.ok = a.ok
  BY <1>3, <1>d, SetFlowStill
<1>5. Still(p, b) /\ b.ok = p.ok
  BY <1>2, <1>4, StillThen
<1> QED
  BY <1>1, <1>2, <1>5

-----------------------------------------------------------------------------
\* Shutting down and closing.
LEMMA ShutdownStill ==
  ASSUME NEW p, NEW c \in Legs, Formed(p), NEW q, q = ConnShutdown(p, c)
  PROVE  Still(p, q) /\ \A d \in Legs : q.leg[d].st = p.leg[d].st
<1>a. PICK r : r = [p EXCEPT !.leg[c].shut = TRUE]
  OBVIOUS
<1>0. /\ Other(c) \in Legs /\ Other(c) # c /\ PairFields \subseteq DOMAIN p /\ DOMAIN p.leg = Legs
      /\ IsLeg(p.leg[c]) /\ DOMAIN p.sock = Legs /\ IsSock(p.sock[c]) /\ \A d \in Legs : d = c \/ d = Other(c)
  BY Others DEF Formed, Shaped
<1>1. /\ DOMAIN r = DOMAIN p /\ r.sock = p.sock /\ r.lost = p.lost /\ r.fatal = p.fatal
      /\ r.socks = p.socks /\ r.ok = p.ok /\ DOMAIN r.leg = DOMAIN p.leg
      /\ r.leg[Other(c)] = p.leg[Other(c)] /\ r.leg[c] = [p.leg[c] EXCEPT !.shut = TRUE]
  BY <1>0, <1>a DEF PairFields
<1>2. /\ DOMAIN r.leg[c] = DOMAIN p.leg[c] /\ r.leg[c].st = p.leg[c].st
      /\ r.leg[c].mask = p.leg[c].mask /\ r.leg[c].prev = p.leg[c].prev
      /\ r.leg[c].pipe = p.leg[c].pipe /\ r.leg[c].buf = p.leg[c].buf
  BY <1>0, <1>1 DEF IsLeg, LegFields
<1>3. StillLeg(p.leg[c], r.leg[c])
  <2>1. Told(p.leg[c])
    BY DEF Formed
  <2> QED
    BY <1>0, <1>2, <2>1 DEF StillLeg, IsLeg, Told
<1>4. Still(p, r)
  <2>1. OnlyLeg(p, r, c) /\ Shaped(p) /\ Told(p.leg[Other(c)])
    BY <1>0, <1>1 DEF OnlyLeg, Formed
  <2> QED
    BY <1>3, <2>1, LegStill
<1>5. \A d \in Legs : r.leg[d].st = p.leg[d].st
  BY <1>0, <1>1, <1>2
<1>6. Formed(r)
  BY <1>4, FormedThen
<1>7. CASE ~CanShutdown(p.sock[c])
  <2>1. q = Fail(r)
    BY <1>7, <1>a DEF ConnShutdown
  <2>2. Still(r, q) /\ Aside(r, q)
    BY <1>6, <2>1, FailStill
  <2> QED
    BY <1>4, <1>5, <2>2, StillThen DEF Aside
<1>8. CASE CanShutdown(p.sock[c])
  <2>b. PICK t : t = ShutDown(p.sock[c])
    OBVIOUS
  <2>1. q = [r EXCEPT !.sock[c] = t]
    BY <1>8, <1>a, <1>1, <2>b DEF ConnShutdown
  <2>2. /\ SockFields \subseteq DOMAIN t /\ t.rx = p.sock[c].rx /\ t.tx = p.sock[c].tx
        /\ t.st = p.sock[c].st \/ (p.sock[c].st = "connecting" /\ t.st = "aborted")
    BY <1>0, <2>b DEF ShutDown, IsSock, SockFields
  <2>3. /\ DOMAIN q = DOMAIN r /\ q.leg = r.leg /\ q.lost = r.lost /\ q.fatal = r.fatal
        /\ q.socks = r.socks /\ DOMAIN q.sock = DOMAIN r.sock
        /\ q.sock[Other(c)] = r.sock[Other(c)] /\ q.sock[c] = t
    BY <1>0, <1>1, <2>1 DEF PairFields
  <2>4. StillSock(r.sock[c], q.sock[c])
    BY <1>1, <2>2, <2>3 DEF StillSock
  <2>5. OnlySock(r, q, c)
    BY <1>0, <1>1, <2>3 DEF OnlySock
  <2>6. Still(r, q)
    BY <1>6, <2>4, <2>5, SockStill
  <2> QED
    BY <1>4, <1>5, <2>3, <2>6, StillThen
<1> QED
  BY <1>7, <1>8

LEMMA CloseStill ==
  ASSUME NEW p, NEW c \in Legs, Formed(p), NEW q, q = CloseTcpConn(p, c)
  PROVE  /\ Still(p, q) /\ q.leg[c].st \in {"closed", "none"}
         /\ q.leg[Other(c)] = p.leg[Other(c)]
<1>0. /\ Other(c) \in Legs /\ Other(c) # c /\ PairFields \subseteq DOMAIN p /\ DOMAIN p.leg = Legs
      /\ IsLeg(p.leg[c]) /\ Told(p.leg[c])
  BY Others DEF Formed, Shaped
<1>1. CASE ~Alive(p, c)
  <2>1. q = p
    BY <1>1 DEF CloseTcpConn
  <2> QED
    BY <1>1, <2>1, FormedSelf DEF Alive
<1>2. CASE Alive(p, c)
  <2>1. q = [p EXCEPT !.leg[c].st = "closed"]
    BY <1>2 DEF CloseTcpConn
  <2>2. /\ DOMAIN q = DOMAIN p /\ q.sock = p.sock /\ q.lost = p.lost /\ q.fatal = p.fatal
        /\ q.socks = p.socks /\ DOMAIN q.leg = DOMAIN p.leg
        /\ q.leg[Other(c)] = p.leg[Other(c)] /\ q.leg[c] = [p.leg[c] EXCEPT !.st = "closed"]
    BY <1>0, <2>1 DEF PairFields
  <2>3. /\ DOMAIN q.leg[c] = DOMAIN p.leg[c] /\ q.leg[c].st = "closed"
        /\ q.leg[c].mask = p.leg[c].mask /\ q.leg[c].prev = p.leg[c].prev
        /\ q.leg[c].pipe = p.leg[c].pipe /\ q.leg[c].buf = p.leg[c].buf
    BY <1>0, <2>2 DEF IsLeg, LegFields
  <2>4. p.leg[c].st \in {"unavailable", "available", "rdhup"}
    BY <1>0, <1>2 DEF IsLeg, States, Alive
  <2>5. StillLeg(p.leg[c], q.leg[c])
    BY <1>0, <2>3, <2>4 DEF StillLeg, IsLeg, Told
  <2>6. OnlyLeg(p, q, c) /\ Shaped(p) /\ Told(p.leg[Other(c)])
    BY <1>0, <2>2 DEF OnlyLeg, Formed
  <2>7. Still(p, q)
    BY <2>5, <2>6, LegStill
  <2> QED
    BY <2>2, <2>3, <2>7
<1> QED
  BY <1>1, <1>2

LEMMA CloseBothStill ==
  ASSUME NEW p, NEW c \in Legs, Formed(p), NEW q, q = CloseBoth(p, c)
  PROVE  Still(p, q) /\ \A d \in Legs : q.leg[d].st \in {"closed", "none"}
<1>a. PICK r : r = CloseTcpConn(p, Other(c))
  OBVIOUS
<1>0. Other(c) \in Legs /\ Other(Other(c)) = c /\ \A d \in Legs : d = c \/ d = Other(c)
  BY Others
<1>1. Still(p, r) /\ r.leg[Other(c)].st \in {"closed", "none"}
  BY <1>0, <1>a, CloseStill
<1>2. Formed(r)
  BY <1>1, FormedThen
<1>3. q = CloseTcpConn(r, c)
  BY <1>a DEF CloseBoth
<1>4. /\ Still(r, q) /\ q.leg[c].st \in {"closed", "none"}
      /\ q.leg[Other(c)] = r.leg[Other(c)]
  BY <1>2, <1>3, CloseStill
<1>5. Still(p, q)
  BY <1>1, <1>4, StillThen
<1> QED
  BY <1>0, <1>1, <1>4, <1>5

LEMMA OrphanStill ==
  ASSUME NEW p, NEW c \in Legs, Formed(p), NEW q, q = [p EXCEPT !.leg[c].orphan = TRUE]
  PROVE  Still(p, q) /\ \A d \in Legs : q.leg[d].st = p.leg[d].st
<1>0. /\ Other(c) \in Legs /\ Other(c) # c /\ PairFields \subseteq DOMAIN p /\ DOMAIN p.leg = Legs
      /\ IsLeg(p.leg[c]) /\ Told(p.leg[c]) /\ \A d \in Legs : d = c \/ d = Other(c)
  BY Others DEF Formed, Shaped
<1>2. /\ DOMAIN q = DOMAIN p /\ q.sock = p.sock /\ q.lost = p.lost /\ q.fatal = p.fatal
      /\ q.socks = p.socks /\ DOMAIN q.leg = DOMAIN p.leg
      /\ q.leg[Other(c)] = p.leg[Other(c)] /\ q.leg[c] = [p.leg[c] EXCEPT !.orphan = TRUE]
  BY <1>0 DEF PairFields
<1>3. /\ DOMAIN q.leg[c] = DOMAIN p.leg[c] /\ q.leg[c].st = p.leg[c].st
      /\ q.leg[c].mask = p.leg[c].mask /\ q.leg[c].prev = p.leg[c].prev
      /\ q.leg[c].pipe = p.leg[c].pipe /\ q.leg[c].buf = p.leg[c].buf
  BY <1>0, <1>2 DEF IsLeg, LegFields
<1>5. StillLeg(p.leg[c], q.leg[c])
  BY <1>0, <1>3 DEF StillLeg, IsLeg, Told
<1>6. OnlyLeg(p, q, c) /\ Shaped(p) /\ Told(p.leg[Other(c)])
  BY <1>0, <1>2 DEF OnlyLeg, Formed
<1>7. Still(p, q)
  BY <1>5, <1>6, LegStill
<1>8. \A d \in Legs : q.leg[d].st = p.leg[d].st
  BY <1>0, <1>2, <1>3
<1> QED
  BY <1>7, <1>8

LEMMA CloseCheckStill ==
  ASSUME NEW p, NEW c \in Legs, Formed(p), NEW q, q = CloseWithPartnerCheck(p, c)
  PROVE  Still(p, q) /\ q.leg[c].st \in {"closed", "none"}
<1>a. PICK o : o = Other(c)
  OBVIOUS
<1>b. PICK r : r = CloseTcpConn(p, c)
  OBVIOUS
<1>c. PICK s : s = CloseTcpConn(r, o)
  OBVIOUS
<1>d. PICK t : t = [r EXCEPT !.leg[o].orphan = TRUE]
  OBVIOUS
<1>0. o \in Legs /\ o # c /\ Other(o) = c
  BY <1>a, Others
<1>1. Still(p, r) /\ r.leg[c].st \in {"closed", "none"}
  BY <1>b, CloseStill
<1>2. Formed(r)
  BY <1>1, FormedThen
<1>3. Still(r, s) /\ s.leg[c] = r.leg[c]
  BY <1>0, <1>2, <1>c, CloseStill
<1>4. Still(r, t) /\ t.leg[c].st = r.leg[c].st
  BY <1>0, <1>2, <1>d, OrphanStill
<1>5. q = r \/ q = s \/ q = t
  BY <1>a, <1>b, <1>c, <1>d DEF CloseWithPartnerCheck
<1>6. Still(p, s) /\ Still(p, t)
  BY <1>1, <1>3, <1>4, StillThen
<1> QED
  BY <1>1, <1>3, <1>4, <1>5, <1>6

\* The bookkeeping of tamper.c.
LEMMA AutoAside ==
  ASSUME NEW p, Shaped(p)
  PROVE  /\ Aside(p, AutoFailed(p)) /\ AutoFailed(p).ok = p.ok
         /\ Aside(p, AutoReset(p)) /\ AutoReset(p).ok = p.ok
  BY DEF Shaped, PairFields, Aside, AutoFailed, AutoReset
LEMMA WithoutAnswerAside ==
  ASSUME NEW p, Shaped(p)
  PROVE  Aside(p, FailedWithoutAnswer(p)) /\ FailedWithoutAnswer(p).ok = p.ok
<1>1. Aside(p, p)
  BY DEF Shaped, Aside
<1> QED
  BY <1>1, AutoAside DEF FailedWithoutAnswer
LEMMA TamperAside ==
  ASSUME NEW p, Shaped(p), NEW c, NEW what
  PROVE  Aside(p, Tamper(p, c, what)) /\ Tamper(p, c, what).ok = p.ok
<1>1. Aside(p, p) /\ PairFields \subseteq DOMAIN p
  BY DEF Shaped, Aside
<1>2. Aside(p, TamperIn(p, what)) /\ TamperIn(p, what).ok = p.ok
  <2>a. PICK q : q = (IF ~Watched(p) THEN p ELSE IF what THEN AutoFailed(p) ELSE AutoReset(p))
    OBVIOUS
  <2>1. Aside(p, q) /\ q.ok = p.ok
    BY <2>a, <1>1, AutoAside
  <2>2. TamperIn(p, what) = [q EXCEPT !.track.cutoff = TRUE]
    BY <2>a DEF TamperIn
  <2>3. Aside(q, [q EXCEPT !.track.cutoff = TRUE]) /\ [q EXCEPT !.track.cutoff = TRUE].ok = q.ok
    BY <2>1 DEF Aside, PairFields
  <2> QED
    BY <2>1, <2>2, <2>3, AsideThen
<1>3. Aside(p, TamperOut(p, what)) /\ TamperOut(p, what).ok = p.ok
  BY <1>1 DEF TamperOut, Aside, PairFields
<1> QED
  BY <1>1, <1>2, <1>3 DEF Tamper

\* The answer to a SOCKS client, and the end of a connection attempt.
LEMMA AckStill ==
  ASSUME NEW p, Formed(p), NEW c, NEW err, NEW q, q = RemoteConnAck(p, c, err)
  PROVE  Still(p, q) /\ q.leg = p.leg /\ q.sock = p.sock /\ q.ok = p.ok
<1>1. CASE c = "remote" /\ Alive(p, "local") /\ p.socks = "connection"
  <2>a. PICK what : what = (IF err THEN "fail" ELSE "ok")
    OBVIOUS
  <2>b. PICK r : r = Reply(p, what)
    OBVIOUS
  <2>1. Still(p, r) /\ Aside(p, r) /\ r.ok = p.ok
    BY <2>b, ReplyStill
  <2>2. q = [r EXCEPT !.socks = "tcp"]
    BY <1>1, <2>a, <2>b DEF RemoteConnAck
  <2>3. /\ DOMAIN q = DOMAIN r /\ q.leg = r.leg /\ q.sock = r.sock /\ q.lost = r.lost
        /\ q.fatal = r.fatal /\ q.ok = r.ok /\ q.socks = "tcp"
    BY <2>1, <2>2 DEF Aside, PairFields
  <2>4. /\ PairFields \subseteq DOMAIN q /\ DOMAIN q.leg = Legs /\ DOMAIN q.sock = Legs
        /\ q.leg = p.leg /\ q.sock = p.sock /\ q.lost = p.lost /\ q.fatal = p.fatal
    BY <2>1, <2>3 DEF Aside, Formed, Shaped
  <2>5. Still(p, p)
    BY FormedSelf
  <2>6. Still(p, q)
    BY <1>1, <2>3, <2>4, <2>5 DEF Still
  <2> QED
    BY <2>1, <2>3, <2>4, <2>6
<1>2. CASE ~(c = "remote" /\ Alive(p, "local") /\ p.socks = "connection")
  <2>1. q = p
    BY <1>2 DEF RemoteConnAck
  <2> QED
    BY <2>1, FormedSelf
<1> QED
  BY <1>1, <1>2
LEMMA ConnectedStill ==
  ASSUME NEW p, NEW c \in Legs, Formed(p), NEW q, q = CheckConnectionAttempt(p, c)
  PROVE  Still(p, q) /\ q.leg[c].st \in {p.leg[c].st, "available"}
<1>0. /\ Other(c) \in Legs /\ Other(c) # c
  BY Others
<1>1. CASE p.leg[c].st # "unavailable" \/ c = "local"
  <2>1. q = p
    BY <1>1 DEF CheckConnectionAttempt
  <2> QED
    BY <2>1, FormedSelf
<1>2. CASE ~(p.leg[c].st # "unavailable" \/ c = "local") /\ p.sock[c].err
  <2>a. PICK r : r = FailedWrite(p, c)
    OBVIOUS
  <2>b. PICK no : no = FALSE
    OBVIOUS
  <2>c. PICK s : s = RemoteConnAck(r, c, no)
    OBVIOUS
  <2>1. q = Fail(s)
    BY <1>2, <2>a, <2>b, <2>c DEF CheckConnectionAttempt
  <2>2. Still(p, r) /\ r.leg = p.leg
    BY <2>a, FailedWriteStill
  <2>3. Formed(r)
    BY <2>2, FormedThen
  <2>4. Still(r, s) /\ s.leg = r.leg
    BY <2>3, <2>c, AckStill
  <2>5. Formed(s)
    BY <2>3, <2>4, FormedThen
  <2>6. Still(s, q) /\ q.leg = s.leg
    BY <2>1, <2>5, FailStill DEF Aside
  <2>7. Still(p, s)
    BY <2>2, <2>4, StillThen
  <2>8. Still(p, q)
    BY <2>6, <2>7, StillThen
  <2> QED
    BY <2>2, <2>4, <2>6, <2>8
<1>3. CASE ~(p.leg[c].st # "unavailable" \/ c = "local") /\ ~p.sock[c].err
  <2>t. PICK yes : yes = TRUE
    OBVIOUS
  <2>f. PICK no : no = FALSE
    OBVIOUS
  <2>a. PICK a : a = EpollSetFlow(p, c, yes, no)
    OBVIOUS
  <2>b. PICK b : b = IF PartnerAlive(a, c) THEN EpollSetFlow(a, Other(c), yes, no) ELSE a
    OBVIOUS
  <2>d. PICK d : d = [b EXCEPT !.leg[c].st = "available"]
    OBVIOUS
  <2>1. q = RemoteConnAck(d, c, no)
    BY <1>3, <2>t, <2>f, <2>a, <2>b, <2>d DEF CheckConnectionAttempt
  <2>2. Still(p, a) /\ a.leg[c].st = p.leg[c].st
    BY <2>a, SetFlowStill
  <2>3. Formed(a)
    BY <2>2, FormedThen
  <2>4. Still(a, b) /\ b.leg[c].st = a.leg[c].st
    <3>e. PICK e : e = EpollSetFlow(a, Other(c), yes, no)
      OBVIOUS
    <3>1. Still(a, e) /\ e.leg[Other(Other(c))] = a.leg[Other(Other(c))]
      BY <1>0, <2>3, <3>e, SetFlowStill
    <3>2. Other(Other(c)) = c
      BY Others
    <3>3. Still(a, a)
      BY <2>3, FormedSelf
    <3>4. b = a \/ b = e
      BY <2>b, <3>e
    <3> QED
      BY <3>1, <3>2, <3>3, <3>4
  <2>5. Formed(b)
    BY <2>3, <2>4, FormedThen
  <2>6. b.leg[c].st = "unavailable"
    BY <1>3, <2>2, <2>4
  <2>7. PairFields \subseteq DOMAIN b /\ DOMAIN b.leg = Legs /\ IsLeg(b.leg[c]) /\ Told(b.leg[c])
    BY <2>5 DEF Formed, Shaped
  <2>8. /\ DOMAIN d = DOMAIN b /\ d.sock = b.sock /\ d.lost = b.lost /\ d.fatal = b.fatal
        /\ d.socks = b.socks /\ DOMAIN d.leg = DOMAIN b.leg
        /\ d.leg[Other(c)] = b.leg[Other(c)] /\ d.leg[c] = [b.leg[c] EXCEPT !.st = "available"]
    BY <1>0, <2>7, <2>d DEF PairFields
  <2>9. /\ DOMAIN d.leg[c] = DOMAIN b.leg[c] /\ d.leg[c].st = "available"
        /\ d.leg[c].mask = b.leg[c].mask /\ d.leg[c].prev = b.leg[c].prev
        /\ d.leg[c].pipe = b.leg[c].pipe /\ d.leg[c].buf = b.leg[c].buf
    BY <2>7, <2>8 DEF IsLeg, LegFields
  <2>10. StillLeg(b.leg[c], d.leg[c])
    BY <2>6, <2>7, <2>9 DEF StillLeg, IsLeg, Told
  <2>11. OnlyLeg(b, d, c) /\ Shaped(b) /\ Told(b.leg[Other(c)])
    BY <1>0, <2>5, <2>7, <2>8 DEF OnlyLeg, Formed
  <2>12. Still(b, d)
    BY <2>10, <2>11, LegStill
  <2>13. Formed(d)
    BY <2>5, <2>12, FormedThen
  <2>14. Still(d, q) /\ q.leg = d.leg
    BY <2>1, <2>13, AckStill
  <2>15. Still(p, b)
    BY <2>2, <2>4, StillThen
  <2>16. Still(p, d)
    BY <2>12, <2>15, StillThen
  <2>17. Still(p, q)
    BY <2>14, <2>16, StillThen
  <2> QED
    BY <2>9, <2>14, <2>17
<1> QED
  BY <1>1, <1>2, <1>3

-----------------------------------------------------------------------------
\* Writing what waits in a leg to its socket.
LEMMA RoomFacts ==
  ASSUME NEW s, IsSock(s), NEW m \in Nat, NEW n, n = Smaller(Room(s), m)
  PROVE  /\ n \in 0..m /\ Len(s.tx) + n <= TxCap /\ (Broken(s) => n = 0) /\ n <= Room(s)
         /\ Room(s) \in Nat /\ Len(s.tx) + Room(s) <= TxCap
<1>1. Len(s.tx) \in Nat /\ Len(s.tx) <= TxCap /\ TxCap \in Nat
  BY CapAssumption DEF IsSock, Units
<1>2. Room(s) \in Nat /\ Len(s.tx) + Room(s) <= TxCap /\ (Broken(s) => Room(s) = 0)
  <2>1. CASE Broken(s)
    BY <1>1, <2>1 DEF Room
  <2>2. CASE ~Broken(s)
    BY <1>1, <2>2 DEF Room
  <2> QED
    BY <2>1, <2>2
<1> QED
  BY <1>1, <1>2 DEF Smaller

Writes(s, t, z) == IsSock(t) /\ t.st = s.st /\ t.rx = s.rx /\ t.tx = s.tx \o z
LEMMA WrittenFacts ==
  ASSUME NEW s, IsSock(s), NEW y \in Units, NEW n \in 0..Len(y), Len(s.tx) + n <= TxCap,
         NEW t, t = Written(s, y, n)
  PROVE  Writes(s, t, Take(y, n))
<1>1. Take(y, n) \in Units /\ Len(Take(y, n)) = n
  BY TakeDropFacts
<1>2. s.tx \in Units /\ SockFields \subseteq DOMAIN s
  BY DEF IsSock
<1>3. s.tx \o Take(y, n) \in Units /\ Len(s.tx \o Take(y, n)) = Len(s.tx) + n
  BY <1>1, <1>2, Joined
<1>4. DOMAIN t = DOMAIN s /\ t.st = s.st /\ t.rx = s.rx /\ t.tx = s.tx \o Take(y, n)
  BY <1>2 DEF Written, SockFields
<1> QED
  BY <1>3, <1>4 DEF IsSock, Writes

LEMMA BufferedFacts ==
  ASSUME NEW l, IsLeg(l)
  PROVE  /\ Buffered(l) \in Units /\ l.pipe \in Units
         /\ (\A b \in Buffers : l.buf[b] = <<>>) => Buffered(l) = <<>>
         /\ ~HasUnsent(l) => /\ l.pipe = <<>> /\ Buffered(l) = <<>>
                             /\ \A b \in Buffers : l.buf[b] = <<>>
<1> DEFINE b0 == l.buf[0]  b1 == l.buf[1]  b2 == l.buf[2]  b3 == l.buf[3]
<1>1. b0 \in Units /\ b1 \in Units /\ b2 \in Units /\ b3 \in Units /\ l.pipe \in Units
  BY DEF IsLeg, Buffers
<1>2. Buffered(l) = ((b0 \o b1) \o b2) \o b3
  BY DEF Buffered
<1>3. (\A b \in Buffers : l.buf[b] = <<>>) => b0 = <<>> /\ b1 = <<>> /\ b2 = <<>> /\ b3 = <<>>
  BY DEF Buffers
<1>4. ~HasUnsent(l) => l.pipe = <<>> /\ \A b \in Buffers : l.buf[b] = <<>>
  BY DEF HasUnsent, BuffersPresent
<1> HIDE DEF b0, b1, b2, b3
<1>5. ((b0 \o b1) \o b2) \o b3 \in Units
  <2>1. b0 \o b1 \in Units
    BY <1>1, Joined
  <2>2. (b0 \o b1) \o b2 \in Units
    BY <1>1, <2>1, Joined
  <2> QED
    BY <1>1, <2>2, Joined
<1>6. b0 = <<>> /\ b1 = <<>> /\ b2 = <<>> /\ b3 = <<>> => ((b0 \o b1) \o b2) \o b3 = <<>>
  BY <1>1, Joined
<1> QED
  BY <1>1, <1>2, <1>3, <1>4, <1>5, <1>6

LEMMA DataFacts == ASSUME NEW s \in Units PROVE DataIn(s) \in Units
  BY Joined DEF DataIn

\* Something moves in leg c: from its pipe and buffers to its socket, or what
\* its partner received to where it waits or goes out.
Relayed(p, q, c) ==
  /\ PairFields \subseteq DOMAIN q /\ DOMAIN q.leg = Legs /\ DOMAIN q.sock = Legs
  /\ q.leg[Other(c)] = p.leg[Other(c)]
  /\ IsSock(q.sock[Other(c)]) /\ q.sock[Other(c)].st = p.sock[Other(c)].st
  /\ q.sock[Other(c)].tx = p.sock[Other(c)].tx
  /\ q.sock[Other(c)].rx \in {p.sock[Other(c)].rx, <<>>}
  /\ q.fatal = FALSE /\ q.socks = p.socks
  /\ IsLeg(q.leg[c]) /\ q.leg[c].st = p.leg[c].st /\ q.leg[c].mask = p.leg[c].mask
  /\ q.leg[c].prev = p.leg[c].prev /\ q.leg[c].buf[1] = <<>>
  /\ HasUnsent(q.leg[c]) => HasUnsent(p.leg[c]) \/ (p.leg[c].st # "none" /\ p.socks \notin Early)
  /\ IsSock(q.sock[c]) /\ q.sock[c].st = p.sock[c].st /\ q.sock[c].rx = p.sock[c].rx
  /\ q.sock[c].tx = p.sock[c].tx \/ p.sock[c].st = "open"

LEMMA RelayedGood ==
  ASSUME NEW p, NEW q, NEW c \in Legs, PairInv(p), Relayed(p, q, c),
         LostOf(q, c) = LostOf(p, c), Saves(p, q, Other(c)),
         \A b \in {2, 3} : q.leg[c].buf[b] # <<>> => p.leg[c].buf[b] # <<>>
  PROVE  Good(p, q)
<1>0. /\ Other(c) \in Legs /\ Other(c) # c /\ Other(Other(c)) = c
      /\ \A d \in Legs : d = c \/ d = Other(c)
  BY Others
<1>1. Base(p) /\ \A d \in Legs : LastRead(p, d) /\ Told(p.leg[d])
  BY DEF PairInv
<1>2. Shaped(q)
  <2>1. \A d \in Legs : IsLeg(q.leg[d]) /\ IsSock(q.sock[d])
    BY <1>0, <1>1 DEF Relayed, Base, Shaped
  <2> QED
    BY <1>1, <2>1 DEF Relayed, Base, Shaped
<1>3. \A d \in Legs : /\ q.leg[d].st = p.leg[d].st /\ q.sock[d].st = p.sock[d].st
                      /\ q.leg[d].mask = p.leg[d].mask /\ q.leg[d].prev = p.leg[d].prev
                      /\ q.sock[d].rx = p.sock[d].rx \/ q.sock[d].rx = <<>>
                      /\ HasUnsent(q.leg[d]) =>
                           HasUnsent(p.leg[d]) \/ (p.leg[d].st # "none" /\ p.socks \notin Early)
                      /\ q.leg[d].buf[1] = <<>>
                      /\ q.sock[d].tx = p.sock[d].tx \/ p.sock[d].st = "open"
  <2>1. BaseLeg(p.leg[Other(c)])
    BY <1>0, <1>1 DEF Base
  <2> QED
    BY <1>0, <2>1 DEF Relayed, BaseLeg
<1>4. AllUnits(<<>>)
  BY DEF AllUnits
<1>5. {"local", "remote"} = Legs
  BY DEF Legs
<1>6. Heard(q)
  <2>1. Heard(p) /\ q.socks = p.socks
    BY <1>1 DEF Base, Relayed
  <2> QED
    BY <1>3, <1>4, <1>5, <2>1 DEF Heard
<1>7. Quiet(q)
  <2>1. Quiet(p) /\ q.socks = p.socks
    BY <1>1 DEF Base, Relayed
  <2> QED
    BY <1>3, <1>5, <2>1 DEF Quiet
<1>8. \A d \in Legs : BaseLeg(q.leg[d]) /\ BaseSock(q.sock[d])
  <2>1. \A d \in Legs : BaseLeg(p.leg[d]) /\ BaseSock(p.sock[d])
    BY <1>1 DEF Base
  <2>2. \A d \in Legs : BaseLeg(q.leg[d])
    BY <1>3, <2>1 DEF BaseLeg
  <2>3. \A d \in Legs : BaseSock(q.sock[d])
    BY <1>3, <2>1 DEF BaseSock
  <2> QED
    BY <2>2, <2>3
<1>9. Base(q)
  BY <1>2, <1>6, <1>7, <1>8 DEF Base, Relayed
<1>10. LastRead(q, c) /\ LastRead(q, Other(c))
  <2>1. LastRead(p, c) /\ LastRead(p, Other(c))
    BY <1>0, <1>1
  <2>2. q.leg[Other(c)].buf = p.leg[Other(c)].buf
    BY DEF Relayed
  <2> QED
    BY <1>0, <1>3, <2>1, <2>2 DEF LastRead
<1>11. \A d \in Legs : Told(q.leg[d])
  BY <1>1, <1>3 DEF Told
<1>12. PairInv(q)
  BY <1>0, <1>9, <1>10, <1>11 DEF PairInv
<1>13. Conserves(p, q)
  <2>1. Line(q, c) = Line(p, c)
    BY DEF Line, Relayed
  <2>2. Saves(p, q, c)
    BY <2>1, SavesSame
  <2> QED
    BY <1>0, <2>2 DEF Conserves
<1>14. Stays(p, q)
  BY <1>3 DEF Stays, Relayed
<1> QED
  BY <1>12, <1>13, <1>14 DEF Good

LEMMA PipeSendGood ==
  ASSUME NEW p, NEW c \in Legs, PairInv(p), NEW q, q = PipeSend(p, c)
  PROVE  Good(p, q)
<1>l. PICK l : l = p.leg[c]
  OBVIOUS
<1>s. PICK s : s = p.sock[c]
  OBVIOUS
<1>n. PICK n : n = Smaller(Room(s), Len(l.pipe))
  OBVIOUS
<1>t. PICK t : t = Written(s, l.pipe, n)
  OBVIOUS
<1>d. PICK d : d = Drop(l.pipe, n)
  OBVIOUS
<1>0. /\ Other(c) \in Legs /\ Other(c) # c /\ Other(Other(c)) = c
      /\ Formed(p) /\ Base(p) /\ PairFields \subseteq DOMAIN p /\ DOMAIN p.leg = Legs /\ DOMAIN p.sock = Legs
      /\ IsLeg(l) /\ IsSock(s) /\ BaseLeg(l)
  BY <1>l, <1>s, Others, InvFormed DEF PairInv, Base, Shaped
<1>1. CASE l.pipe = <<>>
  BY <1>1, <1>l, GoodSelf DEF PipeSend
<1>2. CASE l.pipe # <<>> /\ Broken(s)
  <2>a. PICK r : r = FailedWrite(p, c)
    OBVIOUS
  <2>1. q = Fail(r)
    BY <1>2, <1>l, <1>s, <2>a DEF PipeSend
  <2>2. Still(p, r)
    BY <1>0, <2>a, FailedWriteStill
  <2>3. Formed(r)
    BY <1>0, <2>2, FormedThen
  <2>4. Still(r, q)
    BY <2>1, <2>3, FailStill
  <2> QED
    BY <2>2, <2>4, StillThen, StillGood
<1>3. CASE l.pipe # <<>> /\ ~Broken(s)
  <2>1. q = [p EXCEPT !.sock[c] = t, !.leg[c].pipe = d]
    BY <1>3, <1>0, <1>l, <1>s, <1>n, <1>t, <1>d DEF PipeSend, PairFields
  <2>2. /\ DOMAIN q = DOMAIN p /\ DOMAIN q.leg = DOMAIN p.leg /\ DOMAIN q.sock = DOMAIN p.sock
        /\ q.leg[Other(c)] = p.leg[Other(c)] /\ q.sock[Other(c)] = p.sock[Other(c)]
        /\ q.fatal = p.fatal /\ q.socks = p.socks /\ q.lost = p.lost
        /\ q.sock[c] = t /\ q.leg[c] = [l EXCEPT !.pipe = d]
    BY <1>0, <1>l, <2>1 DEF PairFields
  <2>3. Len(l.pipe) \in Nat /\ l.pipe \in Units
    BY <1>0 DEF IsLeg, Units
  <2>4. n \in 0..Len(l.pipe) /\ Len(s.tx) + n <= TxCap
    BY <1>0, <1>n, <2>3, RoomFacts
  <2>5. IsSock(t) /\ t.st = s.st /\ t.rx = s.rx /\ t.tx = s.tx \o Take(l.pipe, n)
    <3>y. PICK y : y = l.pipe
      OBVIOUS
    <3>1. y \in Units /\ n \in 0..Len(y) /\ Len(s.tx) + n <= TxCap /\ IsSock(s) /\ t = Written(s, y, n)
      BY <1>0, <1>t, <2>3, <2>4, <3>y
    <3>2. Writes(s, t, Take(y, n))
      BY <3>1, WrittenFacts, Zenon
    <3> QED
      BY <3>y, <3>2 DEF Writes
  <2>6. d \in Units
    BY <1>d, <2>3, <2>4, TakeDropFacts
  <2>7. /\ LegFields \subseteq DOMAIN q.leg[c] /\ q.leg[c].st = l.st /\ q.leg[c].mask = l.mask
        /\ q.leg[c].prev = l.prev /\ q.leg[c].pipe = d /\ q.leg[c].buf = l.buf
    BY <1>0, <2>2 DEF IsLeg, LegFields
  <2>8. HasUnsent(l)
    BY <1>3 DEF HasUnsent
  <2>9. IsLeg(q.leg[c])
    BY <1>0, <2>6, <2>7 DEF IsLeg
  <2>10. Relayed(p, q, c)
    <3>1. IsSock(p.sock[Other(c)])
      BY <1>0 DEF Base, Shaped
    <3>2. s.st = "open"
      BY <1>3 DEF Broken
    <3> QED
      BY <1>0, <1>l, <1>s, <2>2, <2>5, <2>7, <2>8, <2>9, <3>1, <3>2 DEF Relayed, Base, BaseLeg
  <2>11. LostOf(q, c) = LostOf(p, c) /\ LostOf(q, Other(c)) = LostOf(p, Other(c))
    BY <2>2 DEF LostOf
  <2>12. Line(q, Other(c)) = Line(p, Other(c))
    <3>x. PICK x : x = Buffered(l) \o DataIn(p.sock[Other(c)].rx)
      OBVIOUS
    <3>1. x \in Units
      <4>1. Buffered(l) \in Units
        BY <1>0, BufferedFacts
      <4>2. DataIn(p.sock[Other(c)].rx) \in Units
        <5>1. p.sock[Other(c)].rx \in Units
          BY <1>0 DEF Base, Shaped, IsSock
        <5> QED
          BY <5>1, DataFacts
      <4> QED
        BY <3>x, <4>1, <4>2, Joined
    <3>2. Line(p, Other(c)) = s.tx \o (l.pipe \o x)
      BY <1>0, <1>l, <1>s, <3>x DEF Line
    <3>3. Buffered(q.leg[c]) = Buffered(l)
      BY <2>7 DEF Buffered
    <3>4. Line(q, Other(c)) = (s.tx \o Take(l.pipe, n)) \o (Drop(l.pipe, n) \o x)
      BY <1>0, <1>d, <2>2, <2>5, <2>7, <3>3, <3>x DEF Line
    <3>5. s.tx \in Units
      BY <1>0 DEF IsSock
    <3> QED
      BY <2>3, <2>4, <3>1, <3>2, <3>4, <3>5, MovesOn
  <2>13. Saves(p, q, Other(c))
    BY <2>11, <2>12, SavesSame
  <2>14. \A b \in {2, 3} : q.leg[c].buf[b] # <<>> => p.leg[c].buf[b] # <<>>
    BY <1>l, <2>7
  <2> QED
    BY <2>10, <2>11, <2>13, <2>14, RelayedGood
<1> QED
  BY <1>1, <1>2, <1>3

-----------------------------------------------------------------------------
\* The four buffers as one queue, and what is left when n units leave it.
Joint(buf) == buf[0] \o buf[1] \o buf[2] \o buf[3]
\* How many units are before buffer b, and how many of its own leave.
Ahead(buf, b) == Len(buf[0]) * (IF b > 0 THEN 1 ELSE 0)
                 + Len(buf[1]) * (IF b > 1 THEN 1 ELSE 0)
                 + Len(buf[2]) * (IF b > 2 THEN 1 ELSE 0)
Gone(n, ahead, len) == IF n <= ahead THEN 0 ELSE Smaller(n - ahead, len)

LEMMA AheadFacts ==
  ASSUME NEW buf \in [Buffers -> Units]
  PROVE  /\ \A b \in Buffers : Len(buf[b]) \in Nat /\ Ahead(buf, b) \in Nat
         /\ Ahead(buf, 0) = 0 /\ Ahead(buf, 1) = Len(buf[0])
         /\ Ahead(buf, 2) = Len(buf[0]) + Len(buf[1])
         /\ Ahead(buf, 3) = Len(buf[0]) + Len(buf[1]) + Len(buf[2])
<1>1. \A b \in Buffers : Len(buf[b]) \in Nat
  BY DEF Units
<1>2. Len(buf[0]) \in Nat /\ Len(buf[1]) \in Nat /\ Len(buf[2]) \in Nat
  BY <1>1 DEF Buffers
<1>a. PICK x \in Nat : x = Len(buf[0])
  BY <1>2
<1>b. PICK y \in Nat : y = Len(buf[1])
  BY <1>2
<1>c. PICK z \in Nat : z = Len(buf[2])
  BY <1>2
<1>3. \A b : Ahead(buf, b) = x * (IF b > 0 THEN 1 ELSE 0) + y * (IF b > 1 THEN 1 ELSE 0)
                               + z * (IF b > 2 THEN 1 ELSE 0)
  BY <1>a, <1>b, <1>c DEF Ahead
<1>4. Ahead(buf, 0) = 0 /\ Ahead(buf, 1) = x /\ Ahead(buf, 2) = x + y /\ Ahead(buf, 3) = x + y + z
  <2>0. x * 0 = 0 /\ y * 0 = 0 /\ z * 0 = 0 /\ x * 1 = x /\ y * 1 = y /\ z * 1 = z
    OBVIOUS
  <2>1. Ahead(buf, 0) = x * 0 + y * 0 + z * 0
    BY <1>3
  <2>2. Ahead(buf, 1) = x * 1 + y * 0 + z * 0
    BY <1>3
  <2>3. Ahead(buf, 2) = x * 1 + y * 1 + z * 0
    BY <1>3
  <2>4. Ahead(buf, 3) = x * 1 + y * 1 + z * 1
    BY <1>3
  <2> QED
    BY <2>0, <2>1, <2>2, <2>3, <2>4
<1>5. ASSUME NEW b \in Buffers PROVE Ahead(buf, b) \in Nat
  <2>1. x + y \in Nat /\ x + y + z \in Nat
    OBVIOUS
  <2>2. b = 0 \/ b = 1 \/ b = 2 \/ b = 3
    BY DEF Buffers
  <2> QED
    BY <1>4, <2>1, <2>2
<1> QED
  BY <1>1, <1>a, <1>b, <1>c, <1>4, <1>5

LEMMA DroppedAt ==
  ASSUME NEW buf \in [Buffers -> Units], NEW n \in Nat, NEW b \in Buffers
  PROVE  /\ Gone(n, Ahead(buf, b), Len(buf[b])) \in 0..Len(buf[b])
         /\ DropBuffered(buf, n)[b] = Drop(buf[b], Gone(n, Ahead(buf, b), Len(buf[b])))
<1>1. Len(buf[b]) \in Nat /\ Ahead(buf, b) \in Nat /\ buf[b] \in Units
  <2>1. \A k \in Buffers : Len(buf[k]) \in Nat
    BY AheadFacts
  <2>2. Ahead(buf, b) \in Nat
    BY AheadFacts
  <2> QED
    BY <2>1, <2>2
<1>a. PICK h : h = Ahead(buf, b)
  OBVIOUS
<1>b. PICK g : g = Gone(n, h, Len(buf[b]))
  OBVIOUS
<1>2. g \in 0..Len(buf[b]) /\ (n <= h => g = 0) /\ (~(n <= h) => g = Smaller(n - h, Len(buf[b])))
  <2>1. h \in Nat /\ Len(buf[b]) \in Nat
    BY <1>1, <1>a
  <2>2. CASE n <= h
    BY <1>b, <2>1, <2>2 DEF Gone
  <2>3. CASE ~(n <= h)
    <3>1. g = Smaller(n - h, Len(buf[b]))
      BY <1>b, <2>3 DEF Gone
    <3>2. g \in 0..Len(buf[b])
      BY <2>1, <2>3, <3>1 DEF Smaller
    <3> QED
      BY <2>3, <3>1, <3>2
  <2> QED
    BY <2>2, <2>3
<1>3. DropBuffered(buf, n)[b] = IF n <= h THEN buf[b] ELSE Drop(buf[b], Smaller(n - h, Len(buf[b])))
  BY <1>a DEF DropBuffered, Ahead
<1>4. n <= h => Drop(buf[b], g) = buf[b]
  BY <1>1, <1>2, TakeDropFacts
<1> QED
  BY <1>a, <1>b, <1>2, <1>3, <1>4

LEMMA DropBufferedFacts ==
  ASSUME NEW buf \in [Buffers -> Units], NEW n \in 0..Len(Joint(buf)),
         NEW d, d = DropBuffered(buf, n)
  PROVE  /\ d \in [Buffers -> Units] /\ Joint(d) = Drop(Joint(buf), n)
         /\ \A b \in Buffers : buf[b] = <<>> => d[b] = <<>>
<1>1. /\ 0 \in Buffers /\ 1 \in Buffers /\ 2 \in Buffers /\ 3 \in Buffers
      /\ \A b \in Buffers : b = 0 \/ b = 1 \/ b = 2 \/ b = 3
  BY DEF Buffers
<1>a. PICK b0 : b0 = buf[0]
  OBVIOUS
<1>b. PICK b1 : b1 = buf[1]
  OBVIOUS
<1>c. PICK b2 : b2 = buf[2]
  OBVIOUS
<1>d. PICK b3 : b3 = buf[3]
  OBVIOUS
<1>2. b0 \in Units /\ b1 \in Units /\ b2 \in Units /\ b3 \in Units
  BY <1>1, <1>a, <1>b, <1>c, <1>d
<1>e. PICK j1 : j1 = b0 \o b1
  OBVIOUS
<1>f. PICK j2 : j2 = j1 \o b2
  OBVIOUS
<1>g. PICK j3 : j3 = j2 \o b3
  OBVIOUS
<1>3. j1 \in Units /\ Len(j1) = Len(b0) + Len(b1)
  BY <1>2, <1>e, Joined
<1>4. j2 \in Units /\ Len(j2) = Len(j1) + Len(b2)
  BY <1>2, <1>3, <1>f, Joined
<1>5. j3 \in Units /\ Len(j3) = Len(j2) + Len(b3)
  BY <1>2, <1>4, <1>g, Joined
<1>6. j3 = Joint(buf)
  BY <1>a, <1>b, <1>c, <1>d, <1>e, <1>f, <1>g DEF Joint
<1>7. Len(b0) \in Nat /\ Len(b1) \in Nat /\ Len(b2) \in Nat /\ Len(b3) \in Nat
  BY <1>2 DEF Units
<1>8. n \in 0..Len(j3)
  BY <1>6
<1>h. PICK m2 : m2 = Smaller(n, Len(j2))
  OBVIOUS
<1>i. PICK m1 : m1 = Smaller(m2, Len(j1))
  OBVIOUS
<1>j. PICK g0 : g0 = Smaller(m1, Len(b0))
  OBVIOUS
<1>k. PICK g1 : g1 = Less(m1, Len(b0))
  OBVIOUS
<1>l. PICK g2 : g2 = Less(m2, Len(j1))
  OBVIOUS
<1>m. PICK g3 : g3 = Less(n, Len(j2))
  OBVIOUS
<1>9. /\ m2 \in 0..Len(j2) /\ g3 \in 0..Len(b3)
      /\ Drop(j3, n) = Drop(j2, m2) \o Drop(b3, g3)
  <2>1. n \in 0..(Len(j2) + Len(b3))
    BY <1>5, <1>8
  <2> QED
    BY <1>2, <1>4, <1>g, <1>h, <1>m, <2>1, DropBoth
<1>10. /\ m1 \in 0..Len(j1) /\ g2 \in 0..Len(b2)
       /\ Drop(j2, m2) = Drop(j1, m1) \o Drop(b2, g2)
  <2>1. m2 \in 0..(Len(j1) + Len(b2))
    BY <1>4, <1>9
  <2> QED
    BY <1>2, <1>3, <1>f, <1>i, <1>l, <2>1, DropBoth
<1>11. /\ g0 \in 0..Len(b0) /\ g1 \in 0..Len(b1)
       /\ Drop(j1, m1) = Drop(b0, g0) \o Drop(b1, g1)
  <2>1. m1 \in 0..(Len(b0) + Len(b1))
    BY <1>3, <1>10
  <2> QED
    BY <1>2, <1>e, <1>j, <1>k, <2>1, DropBoth
<1>12. n \in Nat
  BY <1>8
<1>13. /\ Gone(n, 0, Len(b0)) = g0 /\ Gone(n, Len(b0), Len(b1)) = g1
       /\ Gone(n, Len(b0) + Len(b1), Len(b2)) = g2
       /\ Gone(n, Len(b0) + Len(b1) + Len(b2), Len(b3)) = g3
  <2>0. /\ Len(j1) = Len(b0) + Len(b1) /\ Len(j2) = (Len(b0) + Len(b1)) + Len(b2)
        /\ n <= ((Len(b0) + Len(b1)) + Len(b2)) + Len(b3)
    BY <1>3, <1>4, <1>5, <1>7, <1>8
  <2>1. /\ m2 = IF n < (Len(b0) + Len(b1)) + Len(b2) THEN n ELSE (Len(b0) + Len(b1)) + Len(b2)
        /\ m1 = IF m2 < Len(b0) + Len(b1) THEN m2 ELSE Len(b0) + Len(b1)
    BY <1>h, <1>i, <2>0 DEF Smaller
  <2>2. /\ g0 = IF m1 < Len(b0) THEN m1 ELSE Len(b0)
        /\ g1 = IF m1 <= Len(b0) THEN 0 ELSE m1 - Len(b0)
        /\ g2 = IF m2 <= Len(b0) + Len(b1) THEN 0 ELSE m2 - (Len(b0) + Len(b1))
        /\ g3 = IF n <= (Len(b0) + Len(b1)) + Len(b2) THEN 0 ELSE n - ((Len(b0) + Len(b1)) + Len(b2))
    BY <1>j, <1>k, <1>l, <1>m, <2>0 DEF Smaller, Less
  <2>3. Gone(n, 0, Len(b0)) = g0
    BY <1>7, <1>12, <2>1, <2>2 DEF Gone, Smaller
  <2>4. Gone(n, Len(b0), Len(b1)) = g1
    BY <1>7, <1>12, <2>1, <2>2 DEF Gone, Smaller
  <2>5. Gone(n, Len(b0) + Len(b1), Len(b2)) = g2
    BY <1>7, <1>12, <2>1, <2>2 DEF Gone, Smaller
  <2>6. Gone(n, Len(b0) + Len(b1) + Len(b2), Len(b3)) = g3
    BY <1>7, <1>12, <2>0, <2>1, <2>2 DEF Gone, Smaller
  <2> QED
    BY <2>3, <2>4, <2>5, <2>6
<1>14. d[0] = Drop(b0, g0) /\ d[1] = Drop(b1, g1) /\ d[2] = Drop(b2, g2) /\ d[3] = Drop(b3, g3)
  <2>1. \A b \in Buffers : d[b] = Drop(buf[b], Gone(n, Ahead(buf, b), Len(buf[b])))
    BY <1>12, DroppedAt
  <2>2. /\ d[0] = Drop(b0, Gone(n, Ahead(buf, 0), Len(b0)))
        /\ d[1] = Drop(b1, Gone(n, Ahead(buf, 1), Len(b1)))
        /\ d[2] = Drop(b2, Gone(n, Ahead(buf, 2), Len(b2)))
        /\ d[3] = Drop(b3, Gone(n, Ahead(buf, 3), Len(b3)))
    BY <1>1, <1>a, <1>b, <1>c, <1>d, <2>1
  <2>3. /\ Ahead(buf, 0) = 0 /\ Ahead(buf, 1) = Len(b0) /\ Ahead(buf, 2) = Len(b0) + Len(b1)
        /\ Ahead(buf, 3) = Len(b0) + Len(b1) + Len(b2)
    BY <1>a, <1>b, <1>c, AheadFacts
  <2> QED
    BY <1>13, <2>2, <2>3
<1>15. Joint(d) = Drop(j3, n)
  <2>1. Joint(d) = ((d[0] \o d[1]) \o d[2]) \o d[3]
    BY DEF Joint
  <2> QED
    BY <1>9, <1>10, <1>11, <1>14, <2>1
<1>16. \A b \in Buffers : d[b] \in Units /\ (buf[b] = <<>> => d[b] = <<>>)
  <2> SUFFICES ASSUME NEW b \in Buffers PROVE d[b] \in Units /\ (buf[b] = <<>> => d[b] = <<>>)
    OBVIOUS
  <2>g. PICK g : g = Gone(n, Ahead(buf, b), Len(buf[b]))
    OBVIOUS
  <2>1. g \in 0..Len(buf[b]) /\ d[b] = Drop(buf[b], g) /\ buf[b] \in Units
    BY <1>12, <2>g, DroppedAt
  <2>2. /\ d[b] \in Units /\ (g = Len(buf[b]) => d[b] = <<>>)
    BY <2>1, TakeDropFacts
  <2>3. buf[b] = <<>> => g = Len(buf[b])
    BY <2>1
  <2> QED
    BY <2>2, <2>3
<1>17. DOMAIN d = Buffers /\ d = [b \in Buffers |-> d[b]]
  BY DEF DropBuffered
<1>18. d \in [Buffers -> Units]
  BY <1>16, <1>17
<1> QED
  BY <1>6, <1>15, <1>16, <1>18

LEMMA BuffersSendGood ==
  ASSUME NEW p, NEW c \in Legs, PairInv(p), p.leg[c].pipe = <<>>, NEW q, q = BuffersSend(p, c)
  PROVE  Good(p, q)
<1>l. PICK l : l = p.leg[c]
  OBVIOUS
<1>s. PICK s : s = p.sock[c]
  OBVIOUS
<1>y. PICK y : y = Buffered(l)
  OBVIOUS
<1>n. PICK n : n = Smaller(Room(s), Len(y))
  OBVIOUS
<1>t. PICK t : t = Written(s, y, n)
  OBVIOUS
<1>d. PICK d : d = DropBuffered(l.buf, n)
  OBVIOUS
<1>0. /\ Other(c) \in Legs /\ Other(c) # c /\ Other(Other(c)) = c
      /\ Formed(p) /\ Base(p) /\ PairFields \subseteq DOMAIN p /\ DOMAIN p.leg = Legs /\ DOMAIN p.sock = Legs
      /\ IsLeg(l) /\ IsSock(s) /\ BaseLeg(l) /\ l.pipe = <<>>
  BY <1>l, <1>s, Others, InvFormed DEF PairInv, Base, Shaped
<1>1. CASE ~BuffersPresent(l)
  BY <1>1, <1>l, GoodSelf DEF BuffersSend
<1>2. CASE BuffersPresent(l) /\ Broken(s)
  <2>a. PICK r : r = FailedWrite(p, c)
    OBVIOUS
  <2>1. q = Fail(r)
    BY <1>2, <1>l, <1>s, <2>a DEF BuffersSend
  <2>2. Still(p, r)
    BY <1>0, <2>a, FailedWriteStill
  <2>3. Formed(r)
    BY <1>0, <2>2, FormedThen
  <2>4. Still(r, q)
    BY <2>1, <2>3, FailStill
  <2> QED
    BY <2>2, <2>4, StillThen, StillGood
<1>3. CASE BuffersPresent(l) /\ ~Broken(s)
  <2>1. q = [p EXCEPT !.sock[c] = t, !.leg[c].buf = d]
    BY <1>3, <1>0, <1>l, <1>s, <1>y, <1>n, <1>t, <1>d DEF BuffersSend, PairFields
  <2>2. /\ DOMAIN q = DOMAIN p /\ DOMAIN q.leg = DOMAIN p.leg /\ DOMAIN q.sock = DOMAIN p.sock
        /\ q.leg[Other(c)] = p.leg[Other(c)] /\ q.sock[Other(c)] = p.sock[Other(c)]
        /\ q.fatal = p.fatal /\ q.socks = p.socks /\ q.lost = p.lost
        /\ q.sock[c] = t /\ q.leg[c] = [l EXCEPT !.buf = d]
    BY <1>0, <1>l, <2>1 DEF PairFields
  <2>3. y \in Units /\ Len(y) \in Nat /\ y = Joint(l.buf) /\ l.buf \in [Buffers -> Units]
    <3>1. y \in Units
      BY <1>0, <1>y, BufferedFacts
    <3>2. Len(y) \in Nat
      BY <3>1 DEF Units
    <3>3. y = Joint(l.buf)
      BY <1>y DEF Buffered, Joint
    <3>4. l.buf \in [Buffers -> Units]
      BY <1>0 DEF IsLeg
    <3> QED
      BY <3>1, <3>2, <3>3, <3>4
  <2>4. n \in 0..Len(y) /\ Len(s.tx) + n <= TxCap
    BY <1>0, <1>n, <2>3, RoomFacts
  <2>5. IsSock(t) /\ t.st = s.st /\ t.rx = s.rx /\ t.tx = s.tx \o Take(y, n)
    <3>1. y \in Units /\ n \in 0..Len(y) /\ Len(s.tx) + n <= TxCap /\ IsSock(s) /\ t = Written(s, y, n)
      BY <1>0, <1>t, <2>3, <2>4
    <3>2. Writes(s, t, Take(y, n))
      BY <3>1, WrittenFacts, Zenon
    <3> QED
      BY <3>2 DEF Writes
  <2>b. PICK b : b = l.buf
    OBVIOUS
  <2>6. d \in [Buffers -> Units] /\ Joint(d) = Drop(y, n) /\ \A k \in Buffers : b[k] = <<>> => d[k] = <<>>
    <3>1. b \in [Buffers -> Units] /\ n \in 0..Len(Joint(b)) /\ d = DropBuffered(b, n) /\ y = Joint(b)
      BY <1>d, <2>b, <2>3, <2>4
    <3>2. /\ d \in [Buffers -> Units] /\ Joint(d) = Drop(Joint(b), n)
          /\ \A k \in Buffers : b[k] = <<>> => d[k] = <<>>
      BY <3>1, DropBufferedFacts
    <3> QED
      BY <3>1, <3>2
  <2>7. /\ LegFields \subseteq DOMAIN q.leg[c] /\ q.leg[c].st = l.st /\ q.leg[c].mask = l.mask
        /\ q.leg[c].prev = l.prev /\ q.leg[c].pipe = l.pipe /\ q.leg[c].buf = d
    BY <1>0, <2>2 DEF IsLeg, LegFields
  <2>8. HasUnsent(l)
    BY <1>3 DEF HasUnsent
  <2>9. IsLeg(q.leg[c])
    BY <1>0, <2>6, <2>7 DEF IsLeg
  <2>10. Relayed(p, q, c)
    <3>1. IsSock(p.sock[Other(c)])
      BY <1>0 DEF Base, Shaped
    <3>2. s.st = "open"
      BY <1>3 DEF Broken
    <3>3. d[1] = <<>>
      BY <1>0, <2>b, <2>6 DEF BaseLeg, Buffers
    <3> QED
      BY <1>0, <1>l, <1>s, <2>2, <2>5, <2>7, <2>8, <2>9, <3>1, <3>2, <3>3 DEF Relayed, Base
  <2>11. LostOf(q, c) = LostOf(p, c) /\ LostOf(q, Other(c)) = LostOf(p, Other(c))
    BY <2>2 DEF LostOf
  <2>12. Line(q, Other(c)) = Line(p, Other(c))
    <3>x. PICK x : x = DataIn(p.sock[Other(c)].rx)
      OBVIOUS
    <3>1. x \in Units
      <4>1. p.sock[Other(c)].rx \in Units
        BY <1>0 DEF Base, Shaped, IsSock
      <4> QED
        BY <3>x, <4>1, DataFacts
    <3>2. Line(p, Other(c)) = s.tx \o (l.pipe \o (y \o x))
      BY <1>0, <1>l, <1>s, <1>y, <3>x DEF Line
    <3>3. Buffered(q.leg[c]) = Drop(y, n)
      BY <2>6, <2>7 DEF Buffered, Joint
    <3>4. Line(q, Other(c)) = (s.tx \o Take(y, n)) \o (l.pipe \o (Drop(y, n) \o x))
      BY <1>0, <2>2, <2>5, <2>7, <3>3, <3>x DEF Line
    <3>5. s.tx \in Units
      BY <1>0 DEF IsSock
    <3>6. l.pipe \o (y \o x) = y \o x
      <4>1. y \o x \in Units
        BY <2>3, <3>1, Joined
      <4> QED
        BY <1>0, <4>1, Joined
    <3>7. l.pipe \o (Drop(y, n) \o x) = Drop(y, n) \o x
      <4>0. Drop(y, n) \in Units
        BY <2>3, <2>4, TakeDropFacts
      <4>1. Drop(y, n) \o x \in Units
        BY <3>1, <4>0, Joined
      <4> QED
        BY <1>0, <4>1, Joined
    <3>8. (s.tx \o Take(y, n)) \o (Drop(y, n) \o x) = s.tx \o (y \o x)
      BY <2>3, <2>4, <3>1, <3>5, MovesOn
    <3> QED
      BY <3>2, <3>4, <3>6, <3>7, <3>8
  <2>13. Saves(p, q, Other(c))
    BY <2>11, <2>12, SavesSame
  <2>14. \A k \in {2, 3} : q.leg[c].buf[k] # <<>> => p.leg[c].buf[k] # <<>>
    BY <1>l, <2>b, <2>6, <2>7 DEF Buffers
  <2> QED
    BY <2>10, <2>11, <2>13, <2>14, RelayedGood
<1> QED
  BY <1>1, <1>2, <1>3

LEMMA GoodStill == ASSUME NEW p, NEW q, NEW r, Good(p, q), Still(q, r) PROVE Good(p, r)
  BY StillGood, GoodThen DEF Good
LEMMA GoodFail == ASSUME NEW p, NEW q, Good(p, q) PROVE Good(p, Fail(q))
  BY FailStill, GoodStill, InvFormed DEF Good

LEMMA UnsentGood ==
  ASSUME NEW p, NEW c \in Legs, PairInv(p), NEW q, q = UnsentSent(p, c) PROVE Good(p, q)
<1>a. PICK a : a = PipeSend(p, c)
  OBVIOUS
<1>1. Good(p, a)
  BY <1>a, PipeSendGood
<1>2. CASE a.ok /\ a.leg[c].pipe = <<>>
  <2>1. q = BuffersSend(a, c)
    BY <1>2, <1>a DEF UnsentSent
  <2>2. PairInv(a)
    BY <1>1 DEF Good
  <2>3. Good(a, q)
    BY <1>2, <2>1, <2>2, BuffersSendGood
  <2> QED
    BY <1>1, <2>3, GoodThen
<1>3. CASE ~(a.ok /\ a.leg[c].pipe = <<>>)
  BY <1>1, <1>3, <1>a DEF UnsentSent
<1> QED
  BY <1>2, <1>3

LEMMA DelayedStill ==
  ASSUME NEW p, NEW c \in Legs, Formed(p), NEW q, q = DelayedShutdown(p, c) PROVE Still(p, q)
<1>r. PICK r : r = IF p.leg[c].shut THEN p ELSE ConnShutdown(p, c)
  OBVIOUS
<1>s. PICK s : s = ConnShutdown(p, c)
  OBVIOUS
<1>1. Still(p, p) /\ Still(p, s)
  BY <1>s, FormedSelf, ShutdownStill
<1>2. Still(p, r)
  BY <1>1, <1>r, <1>s
<1>3. Still(p, Fail(r))
  <2>1. Formed(r)
    BY <1>2, FormedThen
  <2>2. Still(r, Fail(r))
    BY <2>1, FailStill
  <2> QED
    BY <1>2, <2>2, StillThen
<1>4. q = p \/ q = r \/ q = Fail(r)
  BY <1>r DEF DelayedShutdown
<1> QED
  BY <1>1, <1>2, <1>3, <1>4

LEMMA HandleUnsentGood ==
  ASSUME NEW p, NEW c \in Legs, PairInv(p), NEW q, q = HandleUnsent(p, c) PROVE Good(p, q)
<1>a. PICK a : a = UnsentSent(p, c)
  OBVIOUS
<1>b. PICK b : b = DelayedShutdown(a, c)
  OBVIOUS
<1>d. PICK d : d = EpollSetFlowPair(b, c)
  OBVIOUS
<1>e. PICK e : e = EpollSetFlowPair(a, c)
  OBVIOUS
<1>0. q \in {a, b, d, e}
  BY <1>a, <1>b, <1>d, <1>e DEF HandleUnsent, Then
<1>1. Good(p, a)
  BY <1>a, UnsentGood
<1>2. Formed(a)
  BY <1>1, InvFormed DEF Good
<1>3. Still(a, b) /\ Still(a, e)
  BY <1>2, <1>b, <1>e, DelayedStill, SetFlowPairStill
<1>4. Formed(b)
  BY <1>2, <1>3, FormedThen
<1>5. Still(b, d)
  BY <1>4, <1>d, SetFlowPairStill
<1>6. Good(p, b) /\ Good(p, e)
  BY <1>1, <1>3, GoodStill
<1>7. Good(p, d)
  BY <1>5, <1>6, GoodStill
<1> QED
  BY <1>0, <1>1, <1>6, <1>7

-----------------------------------------------------------------------------
\* A block x goes to leg o: the first part to its socket, then to its first
\* buffer, the rest is lost.
Carries(p, q, o) ==
  /\ PairFields \subseteq DOMAIN q /\ DOMAIN q.leg = Legs /\ DOMAIN q.sock = Legs
  /\ q.leg[Other(o)] = p.leg[Other(o)] /\ q.sock[Other(o)] = p.sock[Other(o)]
  /\ q.fatal = p.fatal /\ q.socks = p.socks /\ LostOf(q, o) = LostOf(p, o)
  /\ IsLeg(q.leg[o]) /\ q.leg[o].st = p.leg[o].st /\ q.leg[o].mask = p.leg[o].mask
  /\ q.leg[o].prev = p.leg[o].prev /\ q.leg[o].pipe = p.leg[o].pipe
  /\ \A b \in Buffers : b # 0 => q.leg[o].buf[b] = p.leg[o].buf[b]
  /\ IsSock(q.sock[o]) /\ q.sock[o].st = p.sock[o].st /\ q.sock[o].rx = p.sock[o].rx
  /\ q.sock[o].tx = p.sock[o].tx \/ p.sock[o].st = "open"
Parted(p, r, o, x, a, b) ==
  /\ a \in Units /\ b \in Units /\ x = a \o b
  /\ r.sock[o].tx \o r.leg[o].buf[0] = p.sock[o].tx \o a
  /\ LostOf(r, Other(o)) = LostOf(p, Other(o)) \cup Below(b)
Passed(p, r, o, x) == Carries(p, r, o) /\ \E a, b : Parted(p, r, o, x, a, b)
Ready0(p, o) == Shaped(p) /\ p.leg[o].buf[0] = <<>>
Near(p, q, o) == Carries(p, q, o) /\ q.leg = p.leg /\ q.lost = p.lost
Wrote(p, q, o, y) == Near(p, q, o) /\ y \in Units /\ q.sock[o].tx = p.sock[o].tx \o y

LEMMA ReadyFacts ==
  ASSUME NEW p, NEW o \in Legs, Ready0(p, o)
  PROVE  /\ Other(o) \in Legs /\ Other(o) # o /\ \A d \in Legs : d = o \/ d = Other(o)
         /\ PairFields \subseteq DOMAIN p /\ DOMAIN p.leg = Legs /\ DOMAIN p.sock = Legs
         /\ IsLeg(p.leg[o]) /\ IsSock(p.sock[o]) /\ p.sock[o].tx \in Units
         /\ p.leg[o].buf[0] = <<>> /\ LegFields \subseteq DOMAIN p.leg[o]
         /\ SockFields \subseteq DOMAIN p.sock[o]
  BY Others DEF Ready0, Shaped, IsSock, IsLeg

LEMMA NearReady ==
  ASSUME NEW p, NEW o \in Legs, Ready0(p, o), NEW q, Near(p, q, o) PROVE Ready0(q, o)
<1>0. Other(o) \in Legs /\ \A d \in Legs : d = o \/ d = Other(o)
  BY Others
<1>1. \A d \in Legs : IsSock(q.sock[d])
  BY <1>0 DEF Near, Carries, Ready0, Shaped
<1>2. \A d \in Legs : IsLeg(q.leg[d])
  BY DEF Near, Ready0, Shaped
<1> QED
  BY <1>1, <1>2 DEF Near, Carries, Ready0, Shaped

LEMMA CarriesThen ==
  ASSUME NEW p, NEW q, NEW r, NEW o, Carries(p, q, o), Carries(q, r, o) PROVE Carries(p, r, o)
<1>1. q.sock[o].st = p.sock[o].st /\ (q.sock[o].tx = p.sock[o].tx \/ p.sock[o].st = "open")
  BY DEF Carries
<1>2. r.sock[o].tx = p.sock[o].tx \/ p.sock[o].st = "open"
  BY <1>1 DEF Carries
<1>3. \A b \in Buffers : b # 0 => r.leg[o].buf[b] = p.leg[o].buf[b]
  BY DEF Carries
<1> QED
  BY <1>2, <1>3 DEF Carries

LEMMA NearSelf ==
  ASSUME NEW p, NEW o \in Legs, Ready0(p, o) PROVE Near(p, p, o)
  BY ReadyFacts DEF Near, Carries

LEMMA WroteThen ==
  ASSUME NEW p, NEW q, NEW r, NEW o \in Legs, Ready0(p, o), NEW y, Wrote(p, q, o, y),
         NEW z \in Units, Passed(q, r, o, z), NEW x, x = y \o z
  PROVE  Passed(p, r, o, x)
<1>1. Carries(p, r, o)
  BY CarriesThen DEF Wrote, Near, Passed
<1>2. PICK a, b : Parted(q, r, o, z, a, b)
  BY DEF Passed
<1>3. y \in Units /\ a \in Units /\ b \in Units /\ z = a \o b /\ p.sock[o].tx \in Units
  BY <1>2, ReadyFacts DEF Parted, Wrote
<1>t. PICK t : t = p.sock[o].tx
  OBVIOUS
<1>e. PICK e : e = y \o a
  OBVIOUS
<1>4. e \in Units
  BY <1>3, <1>e, Joined
<1>5. x = e \o b
  <2>1. Same(y, a, b)
    BY <1>3, Regroup, Zenon
  <2> QED
    BY <1>3, <1>e, <2>1 DEF Same
<1>6. r.sock[o].tx \o r.leg[o].buf[0] = t \o e
  <2>1. r.sock[o].tx \o r.leg[o].buf[0] = (t \o y) \o a
    BY <1>2, <1>t DEF Parted, Wrote
  <2>2. t \in Units
    BY <1>3, <1>t
  <2>3. Same(t, y, a)
    BY <1>3, <2>2, Regroup, Zenon
  <2> QED
    BY <1>e, <2>1, <2>3, Zenon DEF Same
<1>7. LostOf(r, Other(o)) = LostOf(p, Other(o)) \cup Below(b)
  <2>1. LostOf(q, Other(o)) = LostOf(p, Other(o))
    BY DEF Wrote, Near, LostOf
  <2> QED
    BY <1>2, <2>1 DEF Parted
<1>8. Parted(p, r, o, x, e, b)
  BY <1>3, <1>4, <1>5, <1>6, <1>7, <1>t DEF Parted
<1> QED
  BY <1>1, <1>8 DEF Passed

LEMMA NonePassed ==
  ASSUME NEW p, NEW o \in Legs, Ready0(p, o) PROVE Passed(p, p, o, <<>>)
<1>e. PICK e : e = <<>>
  OBVIOUS
<1>1. e \in Units /\ e \o e = e /\ p.leg[o].buf[0] = e
  <2>1. e \in Units
    BY <1>e DEF Units
  <2>2. e \o e = e
    BY <1>e, <2>1, Joined
  <2> QED
    BY <1>e, <2>1, <2>2 DEF Ready0
<1>2. Below(e) = {}
  BY <1>1, <1>e, BelowFacts
<1>3. Parted(p, p, o, e, e, e)
  BY <1>1, <1>2 DEF Parted
<1>4. Carries(p, p, o)
  BY NearSelf DEF Near
<1> QED
  BY <1>3, <1>4, <1>e DEF Passed

LEMMA WrotePassed ==
  ASSUME NEW p, NEW q, NEW o \in Legs, Ready0(p, o), NEW y, Wrote(p, q, o, y)
  PROVE  Passed(p, q, o, y)
<1>e. PICK e : e = <<>>
  OBVIOUS
<1>1. Ready0(q, o)
  BY NearReady DEF Wrote
<1>2. Passed(q, q, o, e)
  BY <1>1, <1>e, NonePassed
<1>3. e \in Units /\ y = y \o e
  BY <1>e, Joined DEF Wrote
<1> QED
  BY <1>2, <1>3, WroteThen

LEMMA PutPassed ==
  ASSUME NEW p, NEW o \in Legs, Ready0(p, o), p.fatal \in BOOLEAN, NEW y \in Units,
         NEW q, q = SendBufferCreate(p, o, 0, y)
  PROVE  Passed(p, q, o, y)
<1>e. PICK e : e = <<>>
  OBVIOUS
<1>0. /\ Other(o) \in Legs /\ Other(o) # o
      /\ PairFields \subseteq DOMAIN p /\ DOMAIN p.leg = Legs /\ DOMAIN p.sock = Legs
      /\ IsLeg(p.leg[o]) /\ IsSock(p.sock[o]) /\ p.sock[o].tx \in Units
      /\ p.leg[o].buf[0] = e /\ LegFields \subseteq DOMAIN p.leg[o]
  BY <1>e, ReadyFacts
<1>l. PICK l : l = p.leg[o]
  OBVIOUS
<1>k. PICK k : k = [l.buf EXCEPT ![0] = y]
  OBVIOUS
<1>1. /\ DOMAIN q = DOMAIN p /\ DOMAIN q.leg = DOMAIN p.leg /\ q.sock = p.sock
      /\ q.leg[Other(o)] = p.leg[Other(o)] /\ q.socks = p.socks /\ q.lost = p.lost
      /\ q.fatal = (p.fatal \/ p.leg[o].buf[0] # <<>>)
      /\ q.leg[o] = [l EXCEPT !.buf = [@ EXCEPT ![0] = y]]
  BY <1>0, <1>l DEF SendBufferCreate, PairFields
<1>2. q.fatal = p.fatal
  BY <1>0, <1>e, <1>1
<1>3. LegFields \subseteq DOMAIN l /\ IsLeg(l)
  BY <1>0, <1>l
<1>4. /\ LegFields \subseteq DOMAIN q.leg[o] /\ q.leg[o].st = l.st /\ q.leg[o].mask = l.mask
      /\ q.leg[o].prev = l.prev /\ q.leg[o].pipe = l.pipe /\ q.leg[o].buf = k
  <2>1. q.leg[o] = [l EXCEPT !.buf = k]
    BY <1>1, <1>3, <1>k DEF LegFields
  <2> QED
    BY <1>3, <2>1 DEF LegFields
<1>5. k \in [Buffers -> Units] /\ k[0] = y /\ \A b \in Buffers : b # 0 => k[b] = l.buf[b]
  BY <1>3, <1>k DEF IsLeg, Buffers
<1>6. IsLeg(q.leg[o])
  BY <1>3, <1>4, <1>5 DEF IsLeg
<1>7. Carries(p, q, o)
  BY <1>0, <1>1, <1>2, <1>4, <1>5, <1>6, <1>l DEF Carries, LostOf
<1>8. Parted(p, q, o, y, y, e)
  <2>1. e \in Units /\ y \o e = y /\ Below(e) = {}
    BY <1>e, Joined, BelowFacts
  <2> QED
    BY <1>1, <1>4, <1>5, <2>1 DEF Parted, LostOf
<1> QED
  BY <1>7, <1>8 DEF Passed

LEMMA LosePassed ==
  ASSUME NEW p, NEW q, NEW r, NEW o \in Legs, Ready0(p, o), Near(p, q, o),
         q.sock[o].tx = p.sock[o].tx, NEW y \in Units, NEW why, r = Lose(q, Other(o), y, why)
  PROVE  Passed(p, r, o, y)
<1>e. PICK e : e = <<>>
  OBVIOUS
<1>0. Other(o) \in Legs /\ Other(o) # o /\ Other(Other(o)) = o
  BY Others
<1>1. PairFields \subseteq DOMAIN q
  BY DEF Near, Carries
<1>2. /\ DOMAIN r = DOMAIN q /\ r.leg = q.leg /\ r.sock = q.sock /\ r.socks = q.socks
      /\ r.fatal = q.fatal
      /\ LostOf(r, Other(o)) = LostOf(q, Other(o)) \cup Below(y) /\ LostOf(r, o) = LostOf(q, o)
  BY <1>0, <1>1, LoseFacts
<1>3. Carries(p, r, o)
  BY <1>2 DEF Near, Carries
<1>4. Parted(p, r, o, y, e, y)
  <2>1. e \in Units /\ e \o y = y /\ p.leg[o].buf[0] = e
    BY <1>e, Joined, ReadyFacts
  <2>2. LostOf(q, Other(o)) = LostOf(p, Other(o)) /\ q.leg = p.leg
    BY DEF Near, LostOf
  <2> QED
    BY <1>2, <2>1, <2>2 DEF Parted
<1> QED
  BY <1>3, <1>4 DEF Passed

LEMMA WroteFacts ==
  ASSUME NEW p, NEW o \in Legs, Ready0(p, o), ~Broken(p.sock[o]), NEW y \in Units,
         NEW n \in 0..Len(y), n <= Room(p.sock[o]),
         NEW q, q = [p EXCEPT !.sock[o] = Written(p.sock[o], y, n)]
  PROVE  Wrote(p, q, o, Take(y, n)) /\ q.fatal = p.fatal
<1>s. PICK s : s = p.sock[o]
  OBVIOUS
<1>t. PICK t : t = Written(s, y, n)
  OBVIOUS
<1>0. /\ Other(o) \in Legs /\ Other(o) # o /\ PairFields \subseteq DOMAIN p /\ DOMAIN p.leg = Legs
      /\ DOMAIN p.sock = Legs /\ IsLeg(p.leg[o]) /\ IsSock(s) /\ ~Broken(s)
  BY <1>s, ReadyFacts
<1>1. /\ DOMAIN q = DOMAIN p /\ DOMAIN q.sock = DOMAIN p.sock /\ q.leg = p.leg
      /\ q.sock[Other(o)] = p.sock[Other(o)] /\ q.socks = p.socks /\ q.lost = p.lost
      /\ q.fatal = p.fatal /\ q.sock[o] = t
  BY <1>0, <1>s, <1>t DEF PairFields
<1>2. Len(s.tx) + n <= TxCap
  <2>1. 0 \in Nat
    OBVIOUS
  <2>2. PICK k : k = Smaller(Room(s), 0)
    OBVIOUS
  <2>3. Room(s) \in Nat /\ Len(s.tx) + Room(s) <= TxCap
    BY <1>0, <2>1, <2>2, RoomFacts
  <2>4. Len(s.tx) \in Nat /\ TxCap \in Nat /\ n \in Int /\ n <= Room(s)
    BY <1>0, <1>s, CapAssumption DEF IsSock, Units
  <2> QED
    BY <2>3, <2>4
<1>3. IsSock(t) /\ t.st = s.st /\ t.rx = s.rx /\ t.tx = s.tx \o Take(y, n)
  <2>1. IsSock(s) /\ y \in Units /\ n \in 0..Len(y) /\ Len(s.tx) + n <= TxCap /\ t = Written(s, y, n)
    BY <1>0, <1>2, <1>t
  <2>2. Writes(s, t, Take(y, n))
    BY <2>1, WrittenFacts, Zenon
  <2> QED
    BY <2>2 DEF Writes
<1>4. s.st = "open" /\ Take(y, n) \in Units
  BY <1>0, TakeDropFacts DEF Broken
<1> QED
  BY <1>0, <1>1, <1>3, <1>4, <1>s DEF Wrote, Near, Carries, LostOf

LEMMA FailedNear ==
  ASSUME NEW p, NEW o \in Legs, Ready0(p, o), NEW q, q = FailedWrite(p, o)
  PROVE  Near(p, q, o) /\ q.sock[o].tx = p.sock[o].tx /\ q.fatal = p.fatal
<1>0. /\ Other(o) \in Legs /\ Other(o) # o /\ PairFields \subseteq DOMAIN p /\ DOMAIN p.leg = Legs
      /\ DOMAIN p.sock = Legs /\ IsLeg(p.leg[o]) /\ IsSock(p.sock[o])
  BY ReadyFacts
<1>1. /\ DOMAIN q = DOMAIN p /\ DOMAIN q.sock = DOMAIN p.sock /\ q.leg = p.leg
      /\ q.sock[Other(o)] = p.sock[Other(o)] /\ q.socks = p.socks /\ q.lost = p.lost
      /\ q.fatal = p.fatal /\ q.sock[o] = [p.sock[o] EXCEPT !.err = FALSE]
  BY <1>0 DEF FailedWrite, PairFields
<1>2. IsSock(q.sock[o]) /\ q.sock[o].st = p.sock[o].st /\ q.sock[o].rx = p.sock[o].rx
      /\ q.sock[o].tx = p.sock[o].tx
  BY <1>0, <1>1 DEF IsSock, SockFields
<1> QED
  BY <1>0, <1>1, <1>2 DEF Near, Carries, LostOf

LEMMA SendOrBufferPassed ==
  ASSUME NEW p, NEW o \in Legs, Ready0(p, o), p.fatal \in BOOLEAN, NEW y \in Units,
         NEW r, r = SendOrBuffer(p, o, y)
  PROVE  Passed(p, r, o, y)
<1>s. PICK s : s = p.sock[o]
  OBVIOUS
<1>n. PICK n : n = Smaller(Room(s), Len(y))
  OBVIOUS
<1>q. PICK q : q = [p EXCEPT !.sock[o] = Written(s, y, n)]
  OBVIOUS
<1>0. IsSock(s) /\ Len(y) \in Nat
  BY <1>s, ReadyFacts DEF Units
<1>1. n \in 0..Len(y) /\ n <= Room(s)
  BY <1>0, <1>n, RoomFacts
<1>2. CASE Broken(s)
  <2>a. PICK a : a = FailedWrite(p, o)
    OBVIOUS
  <2>b. PICK w : w = WhyOf(p, o, "failed")
    OBVIOUS
  <2>1. r = Lose(a, Other(o), y, w)
    BY <1>2, <1>s, <2>a, <2>b DEF SendOrBuffer
  <2>2. Near(p, a, o) /\ a.sock[o].tx = p.sock[o].tx
    BY <2>a, FailedNear
  <2> QED
    BY <2>1, <2>2, LosePassed
<1>3. CASE ~Broken(s)
  <2>1. Wrote(p, q, o, Take(y, n)) /\ q.fatal = p.fatal
    <3>1. ~Broken(p.sock[o]) /\ n <= Room(p.sock[o]) /\ q = [p EXCEPT !.sock[o] = Written(p.sock[o], y, n)]
      BY <1>1, <1>3, <1>s, <1>q
    <3> QED
      BY <1>1, <3>1, WroteFacts
  <2>2. /\ Take(y, n) \in Units /\ Drop(y, n) \in Units /\ y = Take(y, n) \o Drop(y, n)
        /\ n = Len(y) => Take(y, n) = y
    BY <1>1, TakeDropFacts
  <2>3. CASE n < Len(y)
    <3>z. PICK z : z = Drop(y, n)
      OBVIOUS
    <3>1. r = SendBufferCreate(q, o, 0, z)
      BY <1>3, <2>3, <1>s, <1>n, <1>q, <3>z DEF SendOrBuffer
    <3>2. Ready0(q, o) /\ q.fatal \in BOOLEAN /\ z \in Units
      BY <2>1, <2>2, <3>z, NearReady DEF Wrote
    <3>3. Passed(q, r, o, z)
      BY <3>1, <3>2, PutPassed
    <3>4. y = Take(y, n) \o z
      BY <2>2, <3>z
    <3> QED
      BY <2>1, <3>2, <3>3, <3>4, WroteThen
  <2>4. CASE ~(n < Len(y))
    <3>1. r = q
      BY <1>3, <2>4, <1>s, <1>n, <1>q DEF SendOrBuffer
    <3>2. n = Len(y)
      BY <1>0, <1>1, <2>4
    <3>3. Wrote(p, q, o, y)
      BY <2>1, <2>2, <3>2
    <3> QED
      BY <3>1, <3>3, WrotePassed
  <2> QED
    BY <2>3, <2>4
<1> QED
  BY <1>2, <1>3

\* One part of a split block: either the rest of the block has found its
\* place, or the part was written.
LEMMA SendPartPassed ==
  ASSUME NEW p, NEW o \in Legs, Ready0(p, o), p.fatal \in BOOLEAN, NEW block \in Units,
         NEW from \in 0..Len(block), NEW to \in from..Len(block), NEW m, m = to - from,
         NEW oob, NEW x, x = SendPart(p, o, block, from, to, oob)
  PROVE  \/ x.on = FALSE /\ Passed(p, x.q, o, Drop(block, from))
         \/ x.on = TRUE /\ Wrote(p, x.q, o, Take(Drop(block, from), m)) /\ x.q.fatal \in BOOLEAN
<1>s. PICK s : s = p.sock[o]
  OBVIOUS
<1>n. PICK n : n = Smaller(Room(s), m)
  OBVIOUS
<1>y. PICK y : y = Drop(block, from)
  OBVIOUS
<1>q. PICK q : q = [p EXCEPT !.sock[o] = Written(s, y, n)]
  OBVIOUS
<1>z. PICK z : z = Drop(block, from + n)
  OBVIOUS
<1>0. Len(block) \in Nat /\ from \in Int /\ to \in Int /\ 0 <= from /\ from <= to /\ to <= Len(block)
  BY DEF Units
<1>1. y \in Units /\ Len(y) = Len(block) - from
  BY <1>y, TakeDropFacts
<1>2. m \in Nat /\ m <= Len(y)
  BY <1>0, <1>1
<1>3. IsSock(s)
  BY <1>s, ReadyFacts
<1>4. n \in 0..m /\ n <= Room(s) /\ (Broken(s) => n = 0)
  BY <1>2, <1>3, <1>n, RoomFacts
<1>5. n \in 0..Len(y) /\ n \in 0..(Len(block) - from)
  <2>1. Len(y) \in Int /\ m \in Int
    BY <1>0, <1>1, <1>2
  <2> QED
    BY <1>1, <1>2, <1>4, <2>1
<1>6. z = Drop(y, n)
  BY <1>5, <1>y, <1>z, DropDrop
<1>7. z \in Units /\ (n = 0 => z = y) /\ Take(y, n) \o z = y
  BY <1>1, <1>5, <1>6, TakeDropFacts
<1>8. CASE Broken(s)
  <2>a. PICK a : a = FailedWrite(p, o)
    OBVIOUS
  <2>b. PICK w : w = WhyOf(p, o, "failed")
    OBVIOUS
  <2>c. PICK r : r = Lose(a, Other(o), z, w)
    OBVIOUS
  <2>1. x = [q |-> r, on |-> FALSE]
    BY <1>8, <1>s, <1>n, <1>z, <2>a, <2>b, <2>c DEF SendPart
  <2>2. Near(p, a, o) /\ a.sock[o].tx = p.sock[o].tx
    BY <2>a, FailedNear
  <2>3. Passed(p, r, o, z)
    BY <1>7, <2>2, <2>c, LosePassed
  <2> QED
    BY <1>4, <1>7, <1>8, <2>1, <2>3, <1>y
<1>9. CASE ~Broken(s) /\ n = 0 /\ ~oob
  <2>b. PICK w : w = "refused"
    OBVIOUS
  <2>c. PICK r : r = Lose(p, Other(o), z, w)
    OBVIOUS
  <2>1. x = [q |-> r, on |-> FALSE]
    BY <1>9, <1>s, <1>n, <1>z, <2>b, <2>c DEF SendPart
  <2>2. Near(p, p, o)
    BY NearSelf
  <2>3. Passed(p, r, o, z)
    BY <1>7, <2>2, <2>c, LosePassed
  <2> QED
    BY <1>7, <1>9, <2>1, <2>3, <1>y
<1>10. CASE ~Broken(s) /\ ~(n = 0 /\ ~oob)
  <2>1. Wrote(p, q, o, Take(y, n)) /\ q.fatal = p.fatal
    <3>1. ~Broken(p.sock[o]) /\ n <= Room(p.sock[o]) /\ q = [p EXCEPT !.sock[o] = Written(p.sock[o], y, n)]
      BY <1>4, <1>10, <1>s, <1>q
    <3> QED
      BY <1>1, <1>5, <3>1, WroteFacts
  <2>2. CASE n < m
    <3>r. PICK r : r = SendOrBuffer(q, o, z)
      OBVIOUS
    <3>1. x = [q |-> r, on |-> FALSE]
      BY <1>10, <2>2, <1>s, <1>n, <1>z, <1>y, <1>q, <3>r DEF SendPart
    <3>2. Ready0(q, o) /\ q.fatal \in BOOLEAN
      BY <2>1, NearReady DEF Wrote
    <3>3. Passed(q, r, o, z)
      BY <1>7, <3>r, <3>2, SendOrBufferPassed
    <3>4. Passed(p, r, o, y)
      <4>1. y = Take(y, n) \o z
        BY <1>7
      <4> QED
        BY <1>7, <2>1, <3>3, <4>1, WroteThen
    <3> QED
      BY <3>1, <3>4, <1>y
  <2>3. CASE ~(n < m)
    <3>1. x = [q |-> q, on |-> TRUE]
      BY <1>10, <2>3, <1>s, <1>n, <1>z, <1>y, <1>q DEF SendPart
    <3>2. n = m
      BY <1>2, <1>4, <2>3
    <3> QED
      BY <2>1, <3>1, <3>2, <1>y
  <2> QED
    BY <2>2, <2>3
<1> QED
  BY <1>8, <1>9, <1>10

LEMMA SendSplitPassed ==
  ASSUME NEW p, NEW o \in Legs, Ready0(p, o), p.fatal \in BOOLEAN, NEW block \in Units,
         NEW at \in 0..Len(block), NEW oob, NEW r, r = SendSplit(p, o, block, at, oob)
  PROVE  Passed(p, r, o, block)
<1>f. PICK f : f = 0
  OBVIOUS
<1>x. PICK x : x = SendPart(p, o, block, f, at, oob)
  OBVIOUS
<1>0. /\ Len(block) \in Nat /\ f \in 0..Len(block) /\ at \in 0..Len(block)
      /\ at - f = at /\ at \in f..Len(block) /\ Len(block) \in at..Len(block)
  BY <1>f DEF Units
<1>z. PICK z : z = Drop(block, f)
  OBVIOUS
<1>1. z = block
  BY <1>0, <1>f, <1>z, TakeDropFacts
<1>2. \/ x.on = FALSE /\ Passed(p, x.q, o, block)
      \/ x.on = TRUE /\ Wrote(p, x.q, o, Take(block, at)) /\ x.q.fatal \in BOOLEAN
  <2>1. \/ x.on = FALSE /\ Passed(p, x.q, o, Drop(block, f))
        \/ x.on = TRUE /\ Wrote(p, x.q, o, Take(Drop(block, f), at - f)) /\ x.q.fatal \in BOOLEAN
    <3>1. f \in 0..Len(block) /\ at \in f..Len(block) /\ x = SendPart(p, o, block, f, at, oob)
      BY <1>0, <1>x
    <3>m. PICK m : m = at - f
      OBVIOUS
    <3> QED
      BY <3>1, <3>m, SendPartPassed
  <2> QED
    BY <1>0, <1>1, <1>z, <2>1
<1>3. CASE x.on = FALSE
  BY <1>2, <1>3, <1>f, <1>x DEF SendSplit
<1>4. CASE x.on = TRUE
  <2>q. PICK q : q = x.q
    OBVIOUS
  <2>n. PICK no : no = FALSE
    OBVIOUS
  <2>w. PICK w : w = SendPart(q, o, block, at, Len(block), no)
    OBVIOUS
  <2>1. r = w.q
    BY <1>4, <1>f, <1>x, <2>q, <2>n, <2>w DEF SendSplit
  <2>2. Wrote(p, q, o, Take(block, at)) /\ q.fatal \in BOOLEAN
    BY <1>2, <1>4, <2>q
  <2>3. Ready0(q, o)
    BY <2>2, NearReady DEF Wrote
  <2>y. PICK y : y = Drop(block, at)
    OBVIOUS
  <2>4. \/ Passed(q, w.q, o, y)
        \/ Wrote(q, w.q, o, Take(y, Len(block) - at))
    <3>m. PICK m : m = Len(block) - at
      OBVIOUS
    <3> QED
      BY <1>0, <2>2, <2>3, <2>w, <2>y, <3>m, SendPartPassed
  <2>5. y \in Units /\ Len(y) = Len(block) - at /\ Take(block, at) \o y = block
    BY <2>y, TakeDropFacts
  <2>6. Take(y, Len(block) - at) = y
    <3>1. Len(y) \in 0..Len(y)
      BY <2>5 DEF Units
    <3> QED
      BY <2>5, <3>1, TakeDropFacts
  <2>7. Passed(q, r, o, y)
    BY <2>1, <2>3, <2>4, <2>6, WrotePassed
  <2> QED
    BY <2>2, <2>5, <2>7, WroteThen
<1> QED
  BY <1>2, <1>3, <1>4

-----------------------------------------------------------------------------
\* What a leg received is taken out of its socket.
Empties(p, q, c) ==
  /\ PairFields \subseteq DOMAIN q /\ q.leg = p.leg /\ DOMAIN q.sock = Legs
  /\ q.sock[Other(c)] = p.sock[Other(c)]
  /\ q.lost = p.lost /\ q.fatal = p.fatal /\ q.socks = p.socks
  /\ IsSock(q.sock[c]) /\ q.sock[c].st = p.sock[c].st /\ q.sock[c].tx = p.sock[c].tx
  /\ q.sock[c].rx = <<>>

LEMMA EmptiesFacts ==
  ASSUME NEW p, Shaped(p), NEW c \in Legs, NEW q, q = [p EXCEPT !.sock[c].rx = <<>>]
  PROVE  Empties(p, q, c)
<1>e. PICK e : e = <<>>
  OBVIOUS
<1>0. /\ Other(c) # c /\ PairFields \subseteq DOMAIN p /\ DOMAIN p.leg = Legs
      /\ DOMAIN p.sock = Legs /\ IsSock(p.sock[c]) /\ c \in Legs
      /\ q = [p EXCEPT !.sock[c].rx = e]
  BY <1>e, Others DEF Shaped
<1>1. /\ DOMAIN q = DOMAIN p /\ q.leg = p.leg /\ DOMAIN q.sock = DOMAIN p.sock
      /\ q.sock[Other(c)] = p.sock[Other(c)] /\ q.lost = p.lost /\ q.fatal = p.fatal
      /\ q.socks = p.socks /\ q.sock[c] = [p.sock[c] EXCEPT !.rx = e]
  BY <1>0 DEF PairFields
<1>2. e \in Units /\ Len(e) = 0
  BY <1>e DEF Units
<1>3. RxCap \in Nat
  BY CapAssumption
<1>4. /\ SockFields \subseteq DOMAIN q.sock[c] /\ q.sock[c].st = p.sock[c].st
      /\ q.sock[c].tx = p.sock[c].tx /\ q.sock[c].rx = e
  BY <1>0, <1>1 DEF IsSock, SockFields
<1>5. IsSock(q.sock[c])
  BY <1>0, <1>2, <1>3, <1>4 DEF IsSock
<1> QED
  BY <1>0, <1>1, <1>4, <1>5, <1>e DEF Empties

LEMMA EmptiesAside ==
  ASSUME NEW p, NEW q, NEW r, NEW c, Empties(p, q, c), Aside(q, r) PROVE Empties(p, r, c)
  BY DEF Empties, Aside

LEMMA EmptiesShaped ==
  ASSUME NEW p, Shaped(p), NEW c \in Legs, NEW q, Empties(p, q, c) PROVE Shaped(q)
<1>1. \A d \in Legs : IsSock(q.sock[d])
  BY Others DEF Empties, Shaped
<1> QED
  BY <1>1 DEF Empties, Shaped

LEMMA TakenEmpties ==
  ASSUME NEW p, Shaped(p), NEW c \in Legs, NEW q, q = Taken(p, c) PROVE Empties(p, q, c)
<1>a. PICK a : a = [p EXCEPT !.sock[c].rx = <<>>]
  OBVIOUS
<1>b. PICK x : x = IF c = "local" THEN p.read + Len(p.sock[c].rx) ELSE p.read
  OBVIOUS
<1>1. Empties(p, a, c)
  BY <1>a, EmptiesFacts
<1>2. PairFields \subseteq DOMAIN p
  BY DEF Shaped
<1>3. q = [a EXCEPT !.read = x]
  BY <1>2, <1>a, <1>b DEF Taken, PairFields
<1>4. PairFields \subseteq DOMAIN a
  BY <1>1 DEF Empties
<1>5. Aside(a, q)
  BY <1>3, <1>4 DEF Aside, PairFields
<1> QED
  BY <1>1, <1>5, EmptiesAside

\* In TCP mode a leg receives units only, and only after the SOCKS request.
LEMMA ModeFacts ==
  ASSUME NEW p, Base(p), NEW c \in Legs, InTcpMode(p, c), NEW x, x = p.sock[c].rx
  PROVE  x \in Units /\ DataIn(x) = x /\ (x # <<>> => p.socks \notin Early)
<1>1. x \in Units
  BY DEF Base, Shaped, IsSock
<1>2. AllUnits(x)
  <2>1. c = "local" => p.socks \notin {"handshake", "request"}
    BY DEF InTcpMode
  <2>2. c = "local" \/ c = "remote"
    BY DEF Legs
  <2> QED
    BY <2>1, <2>2 DEF Base, Heard
<1>3. x # <<>> => x[1] < FirstMessage
  <2>1. x # <<>> => 1 \in DOMAIN x
    BY <1>1, EmptySeq DEF Units
  <2> QED
    BY <1>2, <2>1 DEF AllUnits
<1>4. DataIn(x) = x
  BY <1>1, <1>3, BelowFacts
<1>5. x # <<>> => p.socks \notin Early
  <2>1. CASE c = "remote"
    BY <2>1 DEF Base, Quiet, BaseSock, Legs
  <2>2. CASE c # "remote"
    BY <2>2 DEF InTcpMode, Early
  <2> QED
    BY <2>1, <2>2
<1> QED
  BY <1>1, <1>4, <1>5

LEMMA BufferedOne ==
  ASSUME NEW l, IsLeg(l), \A b \in Buffers : b # 0 => l.buf[b] = <<>>
  PROVE  l.buf[0] \in Units /\ Buffered(l) = l.buf[0]
<1>a. PICK x : x = l.buf[0]
  OBVIOUS
<1>b. PICK e : e = <<>>
  OBVIOUS
<1>1. l.buf[1] = e /\ l.buf[2] = e /\ l.buf[3] = e /\ x \in Units
  BY <1>a, <1>b DEF IsLeg, Buffers
<1>2. x \o e = x
  BY <1>1, <1>b, Joined
<1>3. Buffered(l) = ((x \o e) \o e) \o e
  BY <1>a, <1>1 DEF Buffered
<1> QED
  BY <1>1, <1>2, <1>3, <1>a

\* The block that a leg received is passed to a partner where nothing waits.
LEMMA PassedGood ==
  ASSUME NEW p, PairInv(p), NEW c \in Legs, NEW o, o = Other(c), p.leg[o].st # "none",
         p.socks \notin Early, ~HasUnsent(p.leg[o]), NEW x \in Units, x = p.sock[c].rx,
         DataIn(x) = x, NEW q, Empties(p, q, c), NEW r, Passed(q, r, o, x)
  PROVE  Good(p, r)
<1>0. o \in Legs /\ o # c /\ Other(o) = c /\ Base(p) /\ Shaped(p)
  BY Others DEF PairInv, Base
<1>1. /\ IsLeg(p.leg[o]) /\ BaseLeg(p.leg[o]) /\ IsSock(p.sock[o]) /\ p.fatal = FALSE
  BY <1>0 DEF Base, Shaped
<1>e. PICK e : e = <<>>
  OBVIOUS
<1>2. /\ p.leg[o].pipe = e /\ Buffered(p.leg[o]) = e /\ \A b \in Buffers : p.leg[o].buf[b] = e
      /\ e \in Units
  BY <1>1, <1>e, BufferedFacts, Joined
<1>3. Carries(q, r, o)
  BY DEF Passed
<1>4. Relayed(p, r, o)
  <2>1. 1 \in Buffers /\ 1 # 0
    BY DEF Buffers
  <2> QED
    BY <1>0, <1>1, <1>2, <1>3, <1>e, <2>1 DEF Relayed, Carries, Empties
<1>5. LostOf(r, o) = LostOf(p, o)
  BY <1>3 DEF Carries, Empties, LostOf
<1>6. \A b \in {2, 3} : r.leg[o].buf[b] # <<>> => p.leg[o].buf[b] # <<>>
  BY <1>3 DEF Carries, Empties, Buffers
<1>7. PICK a, b : Parted(q, r, o, x, a, b)
  BY DEF Passed
<1>t. PICK t : t = p.sock[o].tx
  OBVIOUS
<1>w. PICK w : w = t \o a
  OBVIOUS
<1>8. a \in Units /\ b \in Units /\ x = a \o b /\ t \in Units /\ w \in Units
  <2>1. t \in Units
    BY <1>1, <1>t DEF IsSock
  <2>2. a \in Units /\ b \in Units /\ x = a \o b
    BY <1>7 DEF Parted
  <2> QED
    BY <1>w, <2>1, <2>2, Joined
<1>9. Line(p, c) = w \o (b \o e)
  <2>1. Line(p, c) = t \o (e \o (e \o x))
    BY <1>2, <1>t DEF Line
  <2>2. e \o x = x /\ b \o e = b
    BY <1>8, <1>e, Joined
  <2>3. t \o (a \o b) = w \o b
    <3>1. Same(t, a, b)
      BY <1>8, Regroup, Zenon
    <3> QED
      BY <1>w, <3>1 DEF Same
  <2> QED
    BY <1>8, <2>1, <2>2, <2>3
<1>10. Line(r, c) = w \o e
  <2>1. r.sock[c].rx = e /\ DataIn(e) = e
    BY <1>0, <1>3, <1>e DEF Carries, Empties, DataIn
  <2>2. r.leg[o].pipe = e
    BY <1>2, <1>3 DEF Carries, Empties
  <2>k. PICK k : k = r.leg[o].buf[0]
    OBVIOUS
  <2>3. k \in Units /\ Buffered(r.leg[o]) = k
    <3>1. \A d \in Buffers : d # 0 => r.leg[o].buf[d] = <<>>
      BY <1>2, <1>3, <1>e DEF Carries, Empties
    <3>2. IsLeg(r.leg[o])
      BY <1>3 DEF Carries
    <3> QED
      BY <2>k, <3>1, <3>2, BufferedOne
  <2>4. Line(r, c) = r.sock[o].tx \o (e \o (k \o e))
    BY <2>1, <2>2, <2>3 DEF Line
  <2>5. k \o e = k /\ e \o k = k /\ w \o e = w
    BY <1>8, <1>e, <2>3, Joined
  <2>6. r.sock[o].tx \o k = w
    BY <1>0, <1>7, <1>t, <1>w, <2>k DEF Parted, Empties
  <2> QED
    BY <2>4, <2>5, <2>6
<1>11. LostOf(r, c) = LostOf(p, c) \cup Below(b)
  BY <1>0, <1>7 DEF Parted, Empties, LostOf
<1>12. Saves(p, r, c)
  BY <1>2, <1>8, <1>9, <1>10, <1>11, SavesLess
<1> QED
  BY <1>0, <1>4, <1>5, <1>6, <1>12, RelayedGood

LEMMA SpliceGood ==
  ASSUME NEW p, PairInv(p), NEW c \in Legs, InTcpMode(p, c), p.sock[c].rx # <<>>,
         PartnerAlive(p, c), ~HasUnsent(p.leg[Other(c)]), NEW r, r = SpliceBlock(p, c)
  PROVE  Good(p, r)
<1>o. PICK o : o = Other(c)
  OBVIOUS
<1>x. PICK x : x = p.sock[c].rx
  OBVIOUS
<1>a. PICK a : a = Taken(p, c)
  OBVIOUS
<1>l. PICK l : l = p.leg[o]
  OBVIOUS
<1>e. PICK e : e = <<>>
  OBVIOUS
<1>k. PICK k : k = a.leg[o].pipe \o x
  OBVIOUS
<1>q. PICK q : q = [a EXCEPT !.leg[o].pipe = k]
  OBVIOUS
<1>0. o \in Legs /\ o # c /\ Other(o) = c /\ Base(p) /\ Shaped(p)
  BY <1>o, Others DEF PairInv, Base
<1>1. /\ IsLeg(l) /\ BaseLeg(l) /\ IsSock(p.sock[o]) /\ p.fatal = FALSE /\ ~HasUnsent(l)
      /\ l.st # "none"
  BY <1>0, <1>l, <1>o DEF Base, Shaped, PartnerAlive, Alive
<1>2. /\ l.pipe = e /\ Buffered(l) = e /\ \A b \in Buffers : l.buf[b] = e
      /\ e \in Units
  BY <1>1, <1>e, BufferedFacts, Joined
<1>3. x \in Units /\ DataIn(x) = x /\ p.socks \notin Early
  BY <1>0, <1>x, ModeFacts
<1>4. Empties(p, a, c)
  BY <1>0, <1>a, TakenEmpties
<1>5. k = x /\ PairFields \subseteq DOMAIN a /\ DOMAIN a.leg = Legs /\ a.leg[o] = l
      /\ LegFields \subseteq DOMAIN l
  <2>1. PairFields \subseteq DOMAIN a /\ DOMAIN a.leg = Legs /\ a.leg[o] = l
    BY <1>0, <1>4, <1>l DEF Empties, Shaped
  <2>2. e \o x = x
    BY <1>3, <1>e, Joined
  <2> QED
    BY <1>1, <1>2, <1>k, <2>1, <2>2 DEF IsLeg
<1>6. /\ DOMAIN q = DOMAIN a /\ DOMAIN q.leg = Legs /\ q.leg[c] = a.leg[c] /\ q.sock = a.sock
      /\ q.fatal = a.fatal /\ q.socks = a.socks /\ q.lost = a.lost
      /\ q.leg[o] = [l EXCEPT !.pipe = x]
  BY <1>0, <1>5, <1>q DEF PairFields
<1>7. /\ LegFields \subseteq DOMAIN q.leg[o] /\ q.leg[o].st = l.st /\ q.leg[o].mask = l.mask
      /\ q.leg[o].prev = l.prev /\ q.leg[o].pipe = x /\ q.leg[o].buf = l.buf
  BY <1>5, <1>6 DEF LegFields
<1>8. Relayed(p, q, o)
  <2>1. IsLeg(q.leg[o])
    BY <1>1, <1>3, <1>7 DEF IsLeg
  <2>2. PairFields \subseteq DOMAIN q /\ DOMAIN q.leg = Legs /\ DOMAIN q.sock = Legs
    BY <1>4, <1>5, <1>6 DEF Empties
  <2>3. q.leg[c] = p.leg[c] /\ q.sock[o] = p.sock[o] /\ q.sock[c] = a.sock[c] /\ q.fatal = FALSE
        /\ q.socks = p.socks
    BY <1>1, <1>4, <1>6, <1>o DEF Empties
  <2>4. IsSock(a.sock[c]) /\ a.sock[c].st = p.sock[c].st /\ a.sock[c].tx = p.sock[c].tx
        /\ a.sock[c].rx = <<>>
    BY <1>4 DEF Empties
  <2> QED
    BY <1>0, <1>1, <1>3, <1>7, <1>l, <2>1, <2>2, <2>3, <2>4 DEF Relayed, BaseLeg
<1>9. LostOf(q, o) = LostOf(p, o) /\ LostOf(q, c) = LostOf(p, c)
  BY <1>4, <1>6 DEF Empties, LostOf
<1>10. Line(q, c) = Line(p, c)
  <2>t. PICK t : t = p.sock[o].tx
    OBVIOUS
  <2>1. Line(p, c) = t \o (e \o (e \o x))
    BY <1>2, <1>3, <1>l, <1>o, <1>x, <2>t DEF Line
  <2>2. Buffered(q.leg[o]) = e
    BY <1>2, <1>7 DEF Buffered
  <2>3. q.sock[c].rx = e /\ DataIn(e) = e /\ q.sock[o] = p.sock[o]
    BY <1>4, <1>6, <1>e, <1>o DEF Empties, DataIn
  <2>4. Line(q, c) = t \o (x \o (e \o e))
    BY <1>7, <1>o, <2>2, <2>3, <2>t DEF Line
  <2>5. e \o x = x /\ x \o e = x /\ e \o e = e
    BY <1>2, <1>3, <1>e, Joined
  <2> QED
    BY <2>1, <2>4, <2>5
<1>11. Good(p, q)
  <2>1. Saves(p, q, c)
    BY <1>9, <1>10, SavesSame
  <2>2. \A b \in {2, 3} : q.leg[o].buf[b] # <<>> => p.leg[o].buf[b] # <<>>
    BY <1>7, <1>l
  <2> QED
    BY <1>0, <1>8, <1>9, <2>1, <2>2, RelayedGood
<1>12. PairInv(q)
  BY <1>11 DEF Good
<1>s. PICK s : s = PipeSend(q, o)
  OBVIOUS
<1>f. PICK f : f = FailedWrite(q, o)
  OBVIOUS
<1>13. r = s \/ r = f
  <2>1. q = [Taken(p, c) EXCEPT !.leg[o].pipe = @ \o p.sock[c].rx]
    BY <1>0, <1>5, <1>a, <1>k, <1>q, <1>x DEF PairFields, LegFields
  <2> QED
    BY <2>1, <1>o, <1>s, <1>f DEF SpliceBlock
<1>14. Good(q, s)
  BY <1>0, <1>12, <1>s, PipeSendGood
<1>15. Still(q, f)
  BY <1>0, <1>12, <1>f, InvFormed, FailedWriteStill
<1> QED
  BY <1>11, <1>13, <1>14, <1>15, GoodThen, GoodStill

LEMMA ReceiveGood ==
  ASSUME NEW p, PairInv(p), NEW c \in Legs, InTcpMode(p, c), p.sock[c].rx # <<>>,
         PartnerAlive(p, c), ~HasUnsent(p.leg[Other(c)]), NEW how, NEW r, r = ReceiveBlock(p, c, how)
  PROVE  Good(p, r)
<1>o. PICK o : o = Other(c)
  OBVIOUS
<1>x. PICK x : x = p.sock[c].rx
  OBVIOUS
<1>a. PICK a : a = [p EXCEPT !.sock[c].rx = <<>>]
  OBVIOUS
<1>q. PICK q : q = Tamper(a, c, how.what)
  OBVIOUS
<1>n. PICK n : n = IF c = "local" THEN q.read + Len(x) ELSE q.read
  OBVIOUS
<1>s. PICK s : s = [q EXCEPT !.read = n]
  OBVIOUS
<1>t. PICK t : t = SendSplit(s, o, x, how.at, how.oob)
  OBVIOUS
<1>u. PICK u : u = SendOrBuffer(s, o, x)
  OBVIOUS
<1>0. o \in Legs /\ o # c /\ Other(o) = c /\ Base(p) /\ Shaped(p)
  BY <1>o, Others DEF PairInv, Base
<1>1. x \in Units /\ DataIn(x) = x /\ p.socks \notin Early
  BY <1>0, <1>x, ModeFacts
<1>2. Empties(p, a, c)
  BY <1>0, <1>a, EmptiesFacts
<1>3. Shaped(a)
  BY <1>0, <1>2, EmptiesShaped
<1>4. Aside(a, q)
  BY <1>3, <1>q, TamperAside
<1>5. Aside(q, s)
  BY <1>4, <1>s DEF Aside, PairFields
<1>6. Empties(p, s, c)
  BY <1>2, <1>4, <1>5, EmptiesAside
<1>7. Shaped(s)
  BY <1>0, <1>6, EmptiesShaped
<1>8. Ready0(s, o) /\ s.fatal \in BOOLEAN
  <2>1. s.leg = p.leg /\ s.fatal = FALSE
    BY <1>0, <1>6 DEF Empties, Base
  <2>2. p.leg[o].buf[0] = <<>>
    BY <1>o DEF HasUnsent, BuffersPresent, Buffers
  <2> QED
    BY <1>7, <2>1, <2>2 DEF Ready0
<1>9. r = u \/ (how.at \in 1..(Len(x) - 1) /\ r = t)
  <2>1. s = [q EXCEPT !.read = IF c = "local" THEN @ + Len(x) ELSE @]
    BY <1>4, <1>n, <1>s DEF Aside, PairFields
  <2> QED
    BY <2>1, <1>o, <1>x, <1>a, <1>q, <1>t, <1>u DEF ReceiveBlock
<1>10. Passed(s, u, o, x)
  BY <1>0, <1>1, <1>8, <1>u, SendOrBufferPassed
<1>11. how.at \in 1..(Len(x) - 1) => Passed(s, t, o, x)
  <2>1. how.at \in 1..(Len(x) - 1) => how.at \in 0..Len(x)
    BY <1>1 DEF Units
  <2> QED
    BY <1>0, <1>1, <1>8, <1>t, <2>1, SendSplitPassed
<1>12. Passed(s, r, o, x)
  BY <1>9, <1>10, <1>11
<1>13. p.leg[o].st # "none" /\ ~HasUnsent(p.leg[o])
  BY <1>o DEF PartnerAlive, Alive
<1> QED
  BY <1>1, <1>6, <1>12, <1>13, <1>o, <1>x, PassedGood

LEMMA RelayBlockGood ==
  ASSUME NEW p, PairInv(p), NEW c \in Legs, InTcpMode(p, c),
         PartnerAlive(p, c), ~HasUnsent(p.leg[Other(c)]), NEW how, NEW r, r = RelayBlock(p, c, how)
  PROVE  Good(p, r)
<1>a. PICK a : a = SpliceBlock(p, c)
  OBVIOUS
<1>b. PICK b : b = ReceiveBlock(p, c, how)
  OBVIOUS
<1>d. PICK d : d = IF Spliced(p, c) THEN a ELSE b
  OBVIOUS
<1>n. PICK n : n = BlockCounted(d, c)
  OBVIOUS
<1>e. PICK e : e = EpollSetFlowPair(n, c)
  OBVIOUS
<1>1. CASE p.sock[c].rx = <<>>
  BY <1>1, GoodSelf DEF RelayBlock
<1>2. CASE p.sock[c].rx # <<>>
  <2>1. Good(p, a) /\ Good(p, b)
    BY <1>2, <1>a, <1>b, SpliceGood, ReceiveGood
  <2>2. Good(p, d)
    BY <1>d, <2>1
  <2>3. Aside(d, n)
    BY <2>2, <1>n DEF Good, PairInv, Base, Shaped, BlockCounted, Aside, PairFields
  <2>4. Good(p, n)
    BY <2>2, <2>3, InvFormed, AsideStill, GoodStill DEF Good
  <2>5. Still(n, e)
    BY <2>4, <1>e, InvFormed, SetFlowPairStill DEF Good
  <2>6. r = e
    BY <1>2, <1>a, <1>b, <1>d, <1>n, <1>e DEF RelayBlock
  <2> QED
    BY <2>4, <2>5, <2>6, GoodStill
<1> QED
  BY <1>1, <1>2

\* What is thrown away unread is lost as far as it was on its way.
LEMMA DataBelow ==
  ASSUME NEW x \in Units, AllUnits(x) \/ Len(x) = 1
  PROVE  Below(DataIn(x)) = Below(x) /\ DataIn(x) \in Units
<1>1. CASE x # <<>> => x[1] < FirstMessage
  BY <1>1, BelowFacts
<1>2. CASE x # <<>> /\ ~(x[1] < FirstMessage)
  <2>1. Len(x) \in Nat /\ Len(x) # 0 /\ DOMAIN x = 1..Len(x) /\ 1 \in DOMAIN x /\ x[1] \in Nat
    BY <1>2, EmptySeq DEF Units
  <2>2. ~AllUnits(x)
    BY <1>2, <2>1 DEF AllUnits
  <2>3. Len(x) = 1 /\ DOMAIN x = {1}
    BY <2>1, <2>2
  <2>4. Below(x) = {}
    BY <1>2, <2>3 DEF Below
  <2>e. PICK e : e = <<>>
    OBVIOUS
  <2>5. DataIn(x) = e
    <3>1. x[1] >= FirstMessage
      BY <1>2, <2>1 DEF FirstMessage
    <3> QED
      BY <1>2, <2>e, <3>1 DEF DataIn
  <2>6. e \in Units /\ Below(e) = {}
    BY <2>e, Joined, BelowFacts, <2>1
  <2> QED
    BY <2>4, <2>5, <2>6
<1> QED
  BY <1>1, <1>2

LEMMA HeardAt ==
  ASSUME NEW p, Base(p), NEW c \in Legs
  PROVE  p.sock[c].rx \in Units /\ (AllUnits(p.sock[c].rx) \/ Len(p.sock[c].rx) = 1)
<1>1. p.sock[c].rx \in Units
  BY DEF Base, Shaped, IsSock
<1> QED
  BY <1>1 DEF Base, Heard, Legs

LEMMA ThrownGood ==
  ASSUME NEW p, PairInv(p), NEW c \in Legs, NEW x, x = p.sock[c].rx, NEW q, Empties(p, q, c),
         NEW why, NEW r, r = Lose(q, c, x, why)
  PROVE  Good(p, r)
<1>o. PICK o : o = Other(c)
  OBVIOUS
<1>e. PICK e : e = <<>>
  OBVIOUS
<1>0. o \in Legs /\ o # c /\ Other(o) = c /\ Base(p) /\ Shaped(p)
  BY <1>o, Others DEF PairInv, Base
<1>1. x \in Units /\ DataIn(x) \in Units /\ Below(DataIn(x)) = Below(x)
  BY <1>0, HeardAt, DataBelow
<1>2. PairFields \subseteq DOMAIN q
  BY DEF Empties
<1>3. /\ DOMAIN r = DOMAIN q /\ r.leg = q.leg /\ r.sock = q.sock /\ r.socks = q.socks
      /\ r.fatal = q.fatal
      /\ LostOf(r, c) = LostOf(q, c) \cup Below(x) /\ LostOf(r, o) = LostOf(q, o)
  BY <1>2, <1>o, LoseFacts
<1>4. Empties(p, q, c) /\ \A d \in Legs : LostOf(q, d) = LostOf(p, d)
  BY DEF Empties, LostOf
<1>5. Relayed(p, r, o)
  <2>1. IsLeg(p.leg[o]) /\ BaseLeg(p.leg[o]) /\ IsSock(p.sock[o]) /\ p.fatal = FALSE
    BY <1>0 DEF Base, Shaped
  <2>2. /\ PairFields \subseteq DOMAIN r /\ DOMAIN r.leg = Legs /\ DOMAIN r.sock = Legs
        /\ r.leg = p.leg /\ r.sock[o] = p.sock[o] /\ r.fatal = FALSE /\ r.socks = p.socks
        /\ IsSock(r.sock[c]) /\ r.sock[c].st = p.sock[c].st /\ r.sock[c].tx = p.sock[c].tx
        /\ r.sock[c].rx = <<>>
    BY <1>0, <1>3, <2>1, <1>o DEF Empties, Shaped
  <2> QED
    BY <1>0, <2>1, <2>2 DEF Relayed, BaseLeg
<1>6. Saves(p, r, c)
  <2>t. PICK t : t = p.sock[o].tx
    OBVIOUS
  <2>k. PICK k : k = p.leg[o].pipe
    OBVIOUS
  <2>b. PICK b : b = Buffered(p.leg[o])
    OBVIOUS
  <2>y. PICK y : y = DataIn(x)
    OBVIOUS
  <2>w. PICK w : w = t \o (k \o b)
    OBVIOUS
  <2>1. t \in Units /\ k \in Units /\ b \in Units /\ y \in Units /\ e \in Units
    <3>1. IsLeg(p.leg[o]) /\ IsSock(p.sock[o])
      BY <1>0 DEF Shaped
    <3>2. e \in Units
      BY <1>e DEF Units
    <3> QED
      BY <1>1, <2>t, <2>k, <2>b, <2>y, <3>1, <3>2, BufferedFacts DEF IsSock
  <2>2. AsOne(t, k, b, w)
    BY <2>1, <2>w, Regroup3
  <2>3. Line(p, c) = t \o (k \o (b \o y))
    BY <1>o, <2>t, <2>k, <2>b, <2>y DEF Line
  <2>4. Line(r, c) = t \o (k \o (b \o e))
    <3>1. r.leg = p.leg /\ r.sock[o] = p.sock[o] /\ r.sock[c].rx = e /\ DataIn(e) = e
      BY <1>3, <1>4, <1>e, <1>o DEF Empties, DataIn
    <3> QED
      BY <1>o, <2>t, <2>k, <2>b, <3>1 DEF Line
  <2>5. w \in Units /\ Line(p, c) = w \o (y \o e) /\ Line(r, c) = w \o e
    <3>1. y \o e = y
      BY <1>e, <2>1, Joined
    <3> QED
      BY <2>1, <2>2, <2>3, <2>4, <3>1 DEF AsOne
  <2>6. LostOf(r, c) = LostOf(p, c) \cup Below(y)
    BY <1>1, <1>3, <1>4, <2>y
  <2> QED
    BY <2>1, <2>5, <2>6, SavesLess
<1>7. LostOf(r, o) = LostOf(p, o) /\ r.leg = p.leg
  BY <1>0, <1>3, <1>4 DEF Empties
<1>8. \A b \in {2, 3} : r.leg[o].buf[b] # <<>> => p.leg[o].buf[b] # <<>>
  BY <1>7
<1> QED
  BY <1>0, <1>5, <1>6, <1>7, <1>8, RelayedGood

LEMMA HandleTcpGood ==
  ASSUME NEW p, PairInv(p), NEW c \in Legs, InTcpMode(p, c), NEW in, NEW how,
         NEW r, r = HandleTcp(p, c, in, how)
  PROVE  Good(p, r)
<1>a. PICK a : a = HandleUnsent(p, c)
  OBVIOUS
<1>b. PICK b : b = RelayBlock(a, c, how)
  OBVIOUS
<1>x. PICK x : x = a.sock[c].rx
  OBVIOUS
<1>q. PICK q : q = [a EXCEPT !.sock[c].rx = <<>>]
  OBVIOUS
<1>w. PICK w : w = "no partner"
  OBVIOUS
<1>h. PICK h : h = Lose(q, c, x, w)
  OBVIOUS
<1>1. Good(p, a)
  BY <1>a, HandleUnsentGood
<1>2. PairInv(a) /\ Shaped(a) /\ InTcpMode(a, c)
  BY <1>1 DEF Good, PairInv, Base, Stays, InTcpMode
<1>3. Good(p, Fail(a))
  BY <1>1, GoodFail
<1>4. Good(a, h)
  <2>1. Empties(a, q, c)
    BY <1>2, <1>q, EmptiesFacts
  <2> QED
    BY <1>2, <1>h, <1>x, <2>1, ThrownGood
<1>5. r = Fail(a) \/ r = a \/ r = h \/ (PartnerAlive(a, c) /\ ~HasUnsent(a.leg[Other(c)]) /\ r = b)
  BY <1>a, <1>b, <1>h, <1>q, <1>w, <1>x DEF HandleTcp, BlackHole
<1>6. PartnerAlive(a, c) /\ ~HasUnsent(a.leg[Other(c)]) => Good(a, b)
  BY <1>2, <1>b, RelayBlockGood
<1> QED
  BY <1>1, <1>3, <1>4, <1>5, <1>6, GoodThen

-----------------------------------------------------------------------------
\* A message of a SOCKS client, and the server's leg that a request opens.
NewRemote == [NewConn("unavailable") EXCEPT !.mask = {"out"}]
Opened(p, q) ==
  /\ DOMAIN q.leg = Legs /\ DOMAIN q.sock = Legs
  /\ q.leg["local"] = p.leg["local"] /\ q.sock["local"] = p.sock["local"]
  /\ q.leg["remote"] = NewRemote /\ q.sock["remote"] = Connecting
Heeded(p, q) ==
  /\ PairFields \subseteq DOMAIN q /\ q.lost = p.lost /\ q.fatal = p.fatal
  /\ \/ /\ q.leg = p.leg /\ q.sock = p.sock
        /\ \/ q.socks = p.socks
           \/ p.socks = "handshake" /\ q.socks = "request"
           \/ p.socks = "request" /\ q.socks = "resolve" /\ q.ok = p.ok
     \/ Opened(p, q) /\ p.socks \in {"request", "resolve"} /\ q.socks = "connection"
Serves(p, q) ==
  /\ PairInv(q) /\ Conserves(p, q) /\ q.leg["local"] = p.leg["local"]
  /\ q.leg["remote"] = p.leg["remote"] \/ q.leg["remote"].st = "unavailable"
  /\ p.socks # "resolve" /\ q.socks = "resolve" => q.ok = p.ok

LEMMA ConnectOpens ==
  ASSUME NEW p, Shaped(p), NEW q, q = ConnectRemote(p)
  PROVE  Opened(p, q) /\ DOMAIN q = DOMAIN p /\ q.lost = p.lost /\ q.fatal = p.fatal
<1>a. PICK a : a = [p EXCEPT !.leg["remote"] = NewConn("unavailable"), !.sock["remote"] = Connecting]
  OBVIOUS
<1>m. PICK m : m = {"out"}
  OBVIOUS
<1>0. /\ PairFields \subseteq DOMAIN p /\ DOMAIN p.leg = Legs /\ DOMAIN p.sock = Legs
      /\ "local" \in Legs /\ "remote" \in Legs
  BY DEF Shaped, Legs
<1>n. PICK n : n = NewConn("unavailable")
  OBVIOUS
<1>s. PICK s : s = Connecting
  OBVIOUS
<1>1. /\ DOMAIN a = DOMAIN p /\ DOMAIN a.leg = Legs /\ DOMAIN a.sock = Legs
      /\ a.leg["local"] = p.leg["local"] /\ a.sock["local"] = p.sock["local"]
      /\ a.leg["remote"] = n /\ a.sock["remote"] = s /\ a.lost = p.lost /\ a.fatal = p.fatal
  <2>1. a = [p EXCEPT !.leg["remote"] = n, !.sock["remote"] = s]
    BY <1>a, <1>n, <1>s
  <2> QED
    BY <1>0, <2>1 DEF PairFields
<1>2. q = [a EXCEPT !.leg["remote"].mask = m]
  BY <1>a, <1>m DEF ConnectRemote, EpollSet
<1>3. /\ DOMAIN q = DOMAIN a /\ DOMAIN q.leg = Legs /\ q.sock = a.sock
      /\ q.leg["local"] = a.leg["local"] /\ q.leg["remote"] = [n EXCEPT !.mask = m]
      /\ q.lost = a.lost /\ q.fatal = a.fatal
  BY <1>0, <1>1, <1>2 DEF PairFields
<1>4. q.leg["remote"] = NewRemote
  BY <1>3, <1>n, <1>m DEF NewRemote
<1> QED
  BY <1>1, <1>3, <1>4, <1>s DEF Opened

LEMMA ModeConnectHeeded ==
  ASSUME NEW p, Shaped(p), p.socks \in {"request", "resolve"}, NEW dest,
         NEW q, q = ProxyModeConnectRemote(p, dest)
  PROVE  Heeded(p, q)
<1>a. PICK a : a = Reply(p, "fail")
  OBVIOUS
<1>b. PICK b : b = ConnectRemote(p)
  OBVIOUS
<1>0. PairFields \subseteq DOMAIN p
  BY DEF Shaped
<1>1. CASE dest = "own" \/ dest = "unstartable"
  <2>1. q = Fail(a)
    BY <1>1, <1>a DEF ProxyModeConnectRemote
  <2>2. Aside(p, a)
    BY <1>0, <1>a DEF Aside, Reply, PairFields
  <2>3. Aside(a, q)
    BY <2>1, <2>2 DEF Aside, Fail, PairFields
  <2> QED
    BY <2>2, <2>3 DEF Aside, Heeded
<1>2. CASE ~(dest = "own" \/ dest = "unstartable")
  <2>1. q = [b EXCEPT !.socks = "connection"]
    BY <1>2, <1>b DEF ProxyModeConnectRemote
  <2>2. Opened(p, b) /\ DOMAIN b = DOMAIN p /\ b.lost = p.lost /\ b.fatal = p.fatal
    BY <1>b, ConnectOpens
  <2>3. /\ DOMAIN q = DOMAIN b /\ q.leg = b.leg /\ q.sock = b.sock /\ q.lost = b.lost
        /\ q.fatal = b.fatal /\ q.socks = "connection"
    BY <1>0, <2>1, <2>2 DEF PairFields
  <2> QED
    BY <1>0, <2>2, <2>3 DEF Heeded, Opened
<1> QED
  BY <1>1, <1>2

LEMMA MessageHeeded ==
  ASSUME NEW p, Shaped(p), NEW m, NEW dest, NEW q, q = ProxyMessage(p, m, dest)
  PROVE  Heeded(p, q)
<1>0. PairFields \subseteq DOMAIN p
  BY DEF Shaped
<1>a. PICK a : a = Reply(p, "ack")
  OBVIOUS
<1>1. CASE p.socks = "handshake" /\ m = Hello
  <2>1. q = [a EXCEPT !.socks = "request"]
    BY <1>1, <1>a DEF ProxyMessage
  <2>2. Aside(p, a)
    BY <1>0, <1>a DEF Aside, Reply, PairFields
  <2>3. /\ DOMAIN q = DOMAIN a /\ q.leg = a.leg /\ q.sock = a.sock /\ q.lost = a.lost
        /\ q.fatal = a.fatal /\ q.socks = "request"
    BY <2>1, <2>2 DEF Aside, PairFields
  <2> QED
    BY <1>1, <2>2, <2>3 DEF Heeded, Aside
<1>2. CASE p.socks = "request" /\ m = Host
  <2>1. q = [p EXCEPT !.socks = "resolve"]
    BY <1>2 DEF ProxyMessage
  <2>3. /\ DOMAIN q = DOMAIN p /\ q.leg = p.leg /\ q.sock = p.sock /\ q.lost = p.lost
        /\ q.fatal = p.fatal /\ q.socks = "resolve" /\ q.ok = p.ok
    BY <1>0, <2>1 DEF PairFields
  <2> QED
    BY <1>0, <1>2, <2>3 DEF Heeded
<1>3. CASE p.socks = "request" /\ m = Addr
  <2>1. q = ProxyModeConnectRemote(p, dest)
    BY <1>3 DEF ProxyMessage, Addr, Host
  <2> QED
    BY <1>3, <2>1, ModeConnectHeeded
<1>4. CASE q = Fail(p)
  BY <1>0, <1>4 DEF Heeded, Fail, PairFields
<1> QED
  BY <1>1, <1>2, <1>3, <1>4 DEF ProxyMessage

LEMMA NewFacts ==
  /\ IsLeg(NewRemote) /\ BaseLeg(NewRemote) /\ Told(NewRemote) /\ NewRemote.st = "unavailable"
  /\ NewRemote.pipe = <<>> /\ Buffered(NewRemote) = <<>> /\ NewRemote.buf[2] = <<>>
  /\ NewRemote.buf[3] = <<>>
  /\ IsSock(Connecting) /\ BaseSock(Connecting) /\ Connecting.tx = <<>> /\ Connecting.rx = <<>>
<1>e. PICK e : e = <<>>
  OBVIOUS
<1>1. e \in Units /\ Len(e) = 0
  BY <1>e DEF Units
<1>2. /\ LegFields \subseteq DOMAIN NewRemote /\ NewRemote.st = "unavailable"
      /\ NewRemote.mask = {"out"} /\ NewRemote.pipe = e /\ NewRemote.buf = [b \in Buffers |-> e]
      /\ NewRemote.prev = <<FALSE, FALSE, FALSE>>
  BY <1>e DEF NewRemote, NewConn, LegFields
<1>3. NewRemote.buf \in [Buffers -> Units] /\ \A b \in Buffers : NewRemote.buf[b] = e
  BY <1>1, <1>2
<1>4. IsLeg(NewRemote) /\ Told(NewRemote)
  BY <1>1, <1>2, <1>3 DEF IsLeg, Told, States, Masks
<1>5. Buffered(NewRemote) = e
  BY <1>3, <1>4, <1>e, BufferedFacts
<1>6. BaseLeg(NewRemote) /\ NewRemote.buf[2] = e /\ NewRemote.buf[3] = e
  BY <1>2, <1>3, <1>e DEF BaseLeg, Buffers
<1>7. /\ SockFields \subseteq DOMAIN Connecting /\ Connecting.rx = e /\ Connecting.tx = e
      /\ Connecting.st = "connecting"
  BY <1>e DEF Connecting, NoSocket, SockFields
<1>8. IsSock(Connecting) /\ BaseSock(Connecting)
  BY <1>1, <1>7, <1>e, CapAssumption DEF IsSock, BaseSock
<1> QED
  BY <1>e, <1>2, <1>4, <1>5, <1>6, <1>7, <1>8

LEMMA OpenedServes ==
  ASSUME NEW p, PairInv(p), p.socks \in {"request", "resolve"}, AllUnits(p.sock["local"].rx),
         NEW q, PairFields \subseteq DOMAIN q, q.lost = p.lost, q.fatal = p.fatal,
         Opened(p, q), q.socks = "connection"
  PROVE  Serves(p, q)
<1>0. /\ "local" \in Legs /\ "remote" \in Legs /\ Other("local") = "remote"
      /\ Other("remote") = "local" /\ \A c \in Legs : c = "local" \/ c = "remote"
  BY DEF Legs, Other
<1>1. /\ Base(p) /\ Shaped(p) /\ LastRead(p, "remote") /\ Told(p.leg["local"])
      /\ p.leg["remote"].st = "none" /\ p.sock["remote"].st = "none" /\ ~HasUnsent(p.leg["local"])
      /\ IsLeg(p.leg["local"]) /\ IsSock(p.sock["local"]) /\ p.fatal = FALSE
      /\ BaseLeg(p.leg["local"]) /\ BaseSock(p.sock["local"])
      /\ BaseLeg(p.leg["remote"]) /\ BaseSock(p.sock["remote"]) /\ IsLeg(p.leg["remote"])
  BY <1>0 DEF PairInv, Base, Shaped, Quiet, Early
<1>2. Shaped(q)
  <2>1. \A c \in Legs : IsLeg(q.leg[c]) /\ IsSock(q.sock[c])
    BY <1>0, <1>1, NewFacts DEF Opened
  <2> QED
    BY <2>1 DEF Shaped, Opened
<1>3. Heard(q) /\ Quiet(q)
  <2>1. q.sock["remote"].rx = <<>> /\ AllUnits(q.sock["local"].rx)
    BY NewFacts DEF Opened
  <2>2. AllUnits(<<>>)
    BY DEF AllUnits
  <2> QED
    BY <2>1, <2>2 DEF Heard, Quiet, Early
<1>4. \A c \in Legs : BaseLeg(q.leg[c]) /\ BaseSock(q.sock[c])
  BY <1>0, <1>1, NewFacts DEF Opened
<1>5. Base(q)
  BY <1>1, <1>2, <1>3, <1>4 DEF Base
<1>6. \A c \in Legs : Told(q.leg[c])
  BY <1>0, <1>1, NewFacts DEF Opened
<1>7. LastRead(q, "local") /\ LastRead(q, "remote")
  <2>1. p.leg["local"].buf[2] = <<>> /\ p.leg["local"].buf[3] = <<>>
    BY <1>1 DEF HasUnsent, BuffersPresent, Buffers
  <2> QED
    BY <1>0, <2>1, NewFacts DEF LastRead, Opened
<1>8. PairInv(q)
  BY <1>0, <1>5, <1>6, <1>7 DEF PairInv
<1>9. \A c \in Legs : LostOf(q, c) = LostOf(p, c)
  BY DEF LostOf
<1>10. Line(q, "local") = Line(p, "local") /\ Line(q, "remote") = Line(p, "remote")
  <2>1. /\ p.sock["remote"].tx = <<>> /\ p.sock["remote"].rx = <<>>
        /\ p.leg["remote"].pipe = <<>> /\ Buffered(p.leg["remote"]) = <<>>
    BY <1>1, BufferedFacts DEF BaseLeg, BaseSock
  <2>2. /\ q.sock["remote"].tx = <<>> /\ q.sock["remote"].rx = <<>>
        /\ q.leg["remote"].pipe = <<>> /\ Buffered(q.leg["remote"]) = <<>>
        /\ q.leg["local"] = p.leg["local"] /\ q.sock["local"] = p.sock["local"]
    BY NewFacts DEF Opened
  <2> QED
    BY <1>0, <2>1, <2>2 DEF Line
<1>11. Conserves(p, q)
  BY <1>0, <1>9, <1>10, SavesSame DEF Conserves
<1> QED
  BY <1>8, <1>11, NewFacts DEF Serves, Opened

LEMMA HeededServes ==
  ASSUME NEW p, PairInv(p), AllUnits(p.sock["local"].rx), NEW q, Heeded(p, q)
  PROVE  Serves(p, q)
<1>1. CASE Opened(p, q) /\ p.socks \in {"request", "resolve"} /\ q.socks = "connection"
  BY <1>1, OpenedServes DEF Heeded
<1>2. CASE q.leg = p.leg /\ q.sock = p.sock
           /\ (q.socks = p.socks \/ (p.socks = "handshake" /\ q.socks = "request")
               \/ (p.socks = "request" /\ q.socks = "resolve" /\ q.ok = p.ok))
  <2>1. Base(p) /\ Shaped(p) /\ \A c \in Legs : LastRead(p, c) /\ Told(p.leg[c])
    BY DEF PairInv, Base
  <2>2. PairFields \subseteq DOMAIN q /\ q.lost = p.lost /\ q.fatal = p.fatal
    BY DEF Heeded
  <2>3. q.socks \in Early <=> p.socks \in Early
    BY <1>2 DEF Early
  <2>4. Shaped(q)
    BY <1>2, <2>1, <2>2, <2>3 DEF Shaped, Early
  <2>5. Heard(q)
    BY <1>2, <2>1 DEF Heard, Base
  <2>6. Quiet(q)
    BY <1>2, <2>1, <2>3 DEF Quiet, Base
  <2>7. Base(q)
    BY <1>2, <2>1, <2>2, <2>4, <2>5, <2>6 DEF Base
  <2>8. PairInv(q)
    BY <1>2, <2>1, <2>7 DEF PairInv, LastRead
  <2>9. \A c \in Legs : Line(q, c) = Line(p, c) /\ LostOf(q, c) = LostOf(p, c)
    BY <1>2, <2>2 DEF Line, LostOf
  <2>10. Conserves(p, q)
    BY <2>9, SavesSame DEF Conserves
  <2> QED
    BY <1>2, <2>8, <2>10 DEF Serves
<1> QED
  BY <1>1, <1>2 DEF Heeded

LEMMA ProxyModeServes ==
  ASSUME NEW p, PairInv(p), NEW dest, NEW r, r = HandleProxyMode(p, dest)
  PROVE  Serves(p, r)
<1>x. PICK x : x = p.sock["local"].rx
  OBVIOUS
<1>q. PICK q : q = [p EXCEPT !.sock["local"].rx = <<>>]
  OBVIOUS
<1>m. PICK m : m = ProxyMessage(q, Head(x), dest)
  OBVIOUS
<1>w. PICK w : w = "early"
  OBVIOUS
<1>c. PICK c : c = "local"
  OBVIOUS
<1>a. PICK a : a = Lose(q, c, x, w)
  OBVIOUS
<1>b. PICK b : b = Lose(m, c, x, w)
  OBVIOUS
<1>0. c \in Legs /\ Base(p) /\ Shaped(p)
  BY <1>c DEF Legs, PairInv, Base
<1>1. CASE x = <<>>
  <2>1. r = Fail(p)
    BY <1>1, <1>x DEF HandleProxyMode
  <2>2. Good(p, r) /\ Aside(p, r)
    BY <1>0, <2>1, GoodSelf, GoodFail, FailAside
  <2> QED
    BY <2>2 DEF Good, Aside, Serves
<1>2. CASE x # <<>>
  <2>1. r = b
    BY <1>2, <1>x, <1>q, <1>m, <1>w, <1>c, <1>b DEF HandleProxyMode
  <2>2. Empties(p, q, c)
    <3>1. q = [p EXCEPT !.sock[c].rx = <<>>]
      BY <1>q, <1>c
    <3> QED
      BY <1>0, <3>1, EmptiesFacts
  <2>3. Shaped(q)
    BY <1>0, <2>2, EmptiesShaped
  <2>4. Good(p, a)
    <3>1. x = p.sock[c].rx
      BY <1>x, <1>c
    <3> QED
      BY <1>0, <1>a, <2>2, <3>1, ThrownGood
  <2>5. Heeded(q, m)
    BY <1>m, <2>3, MessageHeeded
  <2>6. Heeded(a, b) /\ a.leg = p.leg /\ a.sock = q.sock
    <3>1. /\ PairFields \subseteq DOMAIN q /\ PairFields \subseteq DOMAIN m /\ m.lost = q.lost
      BY <2>2, <2>5 DEF Empties, Heeded
    <3>2. /\ DOMAIN a = DOMAIN q /\ a.leg = q.leg /\ a.sock = q.sock /\ a.socks = q.socks
          /\ a.fatal = q.fatal /\ a.ok = q.ok
      BY <1>0, <1>a, <3>1, LoseFacts
    <3>3. /\ DOMAIN b = DOMAIN m /\ b.leg = m.leg /\ b.sock = m.sock /\ b.socks = m.socks
          /\ b.fatal = m.fatal /\ b.ok = m.ok
      BY <1>0, <1>b, <3>1, LoseFacts
    <3>4. b.lost = a.lost
      BY <1>a, <1>b, <3>1 DEF Lose, PairFields
    <3> QED
      BY <2>2, <2>5, <3>1, <3>2, <3>3, <3>4 DEF Heeded, Opened, Empties
  <2>7. AllUnits(a.sock["local"].rx)
    <3>1. a.sock["local"].rx = <<>>
      BY <1>c, <2>2, <2>6 DEF Empties
    <3> QED
      BY <3>1 DEF AllUnits
  <2>8. PairInv(a)
    BY <2>4 DEF Good
  <2>9. Serves(a, b)
    BY <2>6, <2>7, <2>8, HeededServes
  <2>10. Conserves(p, b)
    BY <2>4, <2>9, SavesThen DEF Good, Serves
  <2>11. a.socks = p.socks /\ a.ok = q.ok /\ q.ok = p.ok
    <3>1. PairFields \subseteq DOMAIN q /\ q.socks = p.socks
      BY <2>2 DEF Empties
    <3>2. a.socks = q.socks /\ a.ok = q.ok
      BY <1>0, <1>a, <3>1, LoseFacts
    <3>3. q.ok = p.ok
      BY <1>0, <1>q DEF Shaped, PairFields
    <3> QED
      BY <3>1, <3>2, <3>3
  <2> QED
    BY <2>1, <2>6, <2>9, <2>10, <2>11 DEF Serves
<1> QED
  BY <1>1, <1>2

-----------------------------------------------------------------------------
\* One event of one leg: at its end the invariant holds again, nothing was
\* lost that is not recorded, and only this leg may have seen its end.
Done(p, q, c) ==
  /\ PairInv(q) /\ Conserves(p, q)
  /\ \A d \in Legs : /\ q.leg[d].st = "rdhup" => p.leg[d].st = "rdhup" \/ d = c
                     /\ q.leg[d].st = "none" => p.leg[d].st = "none"
  /\ p.socks # "resolve" /\ q.socks = "resolve" => Alive(q, "local")

LEMMA GoodDone == ASSUME NEW p, NEW q, NEW c, Good(p, q) PROVE Done(p, q, c)
  BY DEF Good, Done, Stays
LEMMA StillDone ==
  ASSUME NEW p, NEW a, NEW q, NEW c, Still(p, a), Done(a, q, c) PROVE Done(p, q, c)
<1>1. Conserves(p, q)
  BY StillConserves, SavesThen DEF Done
<1>2. \A d \in Legs : /\ a.leg[d].st = "rdhup" => p.leg[d].st = "rdhup"
                      /\ a.leg[d].st = "none" => p.leg[d].st = "none"
  BY DEF Still, StillLeg
<1>3. a.socks = "resolve" => p.socks = "resolve"
  BY DEF Still
<1> QED
  BY <1>1, <1>2, <1>3 DEF Done

LEMMA ShutdownAfterStill ==
  ASSUME NEW p, NEW c \in Legs, Formed(p), NEW q, q = ShutdownAfter(p, c)
  PROVE  Still(p, q) /\ (~Alive(p, Other(c)) => q = p)
<1>a. PICK a : a = ConnShutdown(p, Other(c))
  OBVIOUS
<1>1. Other(c) \in Legs
  BY Others
<1>2. Still(p, a) /\ Still(p, p)
  BY <1>1, <1>a, ShutdownStill, FormedSelf
<1> QED
  BY <1>2, <1>a DEF ShutdownAfter

LEMMA InOrOutDone ==
  ASSUME NEW p, PairInv(p), NEW c \in Legs, Alive(p, c), p.ok = TRUE, NEW evt, NEW how,
         NEW r, r = InOrOut(p, c, evt, how)
  PROVE  Done(p, r, c)
<1>h. PICK h : h = HandleEpoll(p, c, evt, how)
  OBVIOUS
<1>s. PICK s : s = ShutdownAfter(h, c)
  OBVIOUS
<1>q. PICK q : q = IF h.ok THEN s ELSE h
  OBVIOUS
<1>k. PICK k : k = CloseWithPartnerCheck(q, c)
  OBVIOUS
<1>0. r = IF q.ok THEN q ELSE k
  BY <1>h, <1>s, <1>q, <1>k DEF InOrOut, Then
<1>1. ASSUME PairInv(h)
      PROVE  Still(h, q) /\ Still(h, k) /\ (~Alive(h, Other(c)) => s = h)
  <2>1. Formed(h)
    BY <1>1, InvFormed
  <2>2. Still(h, s) /\ Still(h, h) /\ (~Alive(h, Other(c)) => s = h)
    BY <1>s, <2>1, ShutdownAfterStill, FormedSelf
  <2>3. Still(h, q)
    BY <1>q, <2>2
  <2>4. Formed(q)
    BY <2>1, <2>3, FormedThen
  <2>5. Still(q, k)
    BY <1>k, <2>4, CloseCheckStill
  <2> QED
    BY <2>2, <2>3, <2>5, StillThen
<1>2. CASE InTcpMode(p, c) \/ "in" \notin evt
  <2>1. Good(p, h)
    <3>1. CASE InTcpMode(p, c)
      <4>i. PICK i : i = ("in" \in evt)
        OBVIOUS
      <4>1. h = HandleTcp(p, c, i, how)
        BY <3>1, <1>h, <4>i DEF HandleEpoll
      <4> QED
        BY <3>1, <4>1, HandleTcpGood
    <3>2. CASE ~InTcpMode(p, c)
      BY <1>2, <1>h, <3>2, GoodSelf DEF HandleEpoll
    <3> QED
      BY <3>1, <3>2
  <2>2. PairInv(h)
    BY <2>1 DEF Good
  <2>3. Good(p, q) /\ Good(p, k)
    BY <1>1, <2>1, <2>2, GoodStill
  <2>4. Good(p, r)
    BY <1>0, <2>3
  <2> QED
    BY <2>4, GoodDone
<1>3. CASE ~(InTcpMode(p, c) \/ "in" \notin evt)
  <2>1. h = HandleProxyMode(p, how.dest) /\ c = "local" /\ Other(c) = "remote"
    BY <1>3, <1>h DEF HandleEpoll, InTcpMode, Legs, Other
  <2>2. Serves(p, h)
    BY <2>1, ProxyModeServes
  <2>3. Done(p, h, c)
    <3>1. \A d \in Legs : /\ h.leg[d].st = "rdhup" => p.leg[d].st = "rdhup"
                          /\ h.leg[d].st = "none" => p.leg[d].st = "none"
      BY <2>2 DEF Serves, Legs
    <3>2. Alive(h, "local")
      BY <2>1, <2>2 DEF Serves, Alive
    <3> QED
      BY <2>2, <3>1, <3>2 DEF Done, Serves
  <2>4. CASE p.socks # "resolve" /\ h.socks = "resolve"
    <3>1. h.ok = TRUE
      BY <2>2, <2>4 DEF Serves
    <3>2. h.leg["remote"].st = "none"
      BY <2>2, <2>4 DEF Serves, PairInv, Base, Quiet, Early
    <3>3. s = h
      BY <1>1, <2>1, <2>2, <3>2 DEF Serves, Alive
    <3>4. r = h
      BY <1>0, <1>q, <3>1, <3>3
    <3> QED
      BY <2>3, <3>4
  <2>5. CASE ~(p.socks # "resolve" /\ h.socks = "resolve")
    <3>1. ASSUME NEW z, Still(h, z) PROVE Done(p, z, c)
      <4>1. Good(h, z)
        BY <2>2, <3>1, StillGood DEF Serves
      <4>2. Conserves(p, z)
        BY <2>2, <4>1, SavesThen DEF Serves, Good
      <4> QED
        BY <2>3, <2>5, <4>1, <4>2 DEF Done, Good, Stays
    <3>2. Done(p, q, c) /\ Done(p, k, c)
      BY <1>1, <2>2, <3>1 DEF Serves
    <3> QED
      BY <1>0, <3>2
  <2> QED
    BY <2>4, <2>5
<1> QED
  BY <1>2, <1>3

-----------------------------------------------------------------------------
\* The end of a leg's stream: what it still holds goes behind all that waits
\* in its partner, to a buffer that was never filled before.
ReadOut(p, r, c, b) ==
  /\ Base(r) /\ Stays(p, r) /\ Conserves(p, r) /\ \A d \in Legs : Told(r.leg[d])
  /\ r.leg[c].st = p.leg[c].st /\ LastRead(r, Other(c))
  /\ b = 2 => r.leg[Other(c)].buf[3] = <<>>

Refilled(buf, b, x) == [buf EXCEPT ![b] = x]
LEMMA JointBehind ==
  ASSUME NEW buf \in [Buffers -> Units], NEW x \in Units, NEW b \in {2, 3},
         buf[b] = <<>>, buf[3] = <<>>, NEW f, f = Refilled(buf, b, x)
  PROVE  /\ f \in [Buffers -> Units] /\ Joint(f) = Joint(buf) \o x
         /\ f[b] = x /\ \A k \in Buffers : k # b => f[k] = buf[k]
<1>e. PICK e : e = <<>>
  OBVIOUS
<1>0. /\ 0 \in Buffers /\ 1 \in Buffers /\ 2 \in Buffers /\ 3 \in Buffers
  BY DEF Buffers
<1>1. f \in [Buffers -> Units] /\ f[b] = x /\ \A k \in Buffers : k # b => f[k] = buf[k]
  BY <1>0 DEF Refilled
<1>j. PICK j : j = buf[0] \o buf[1]
  OBVIOUS
<1>2. j \in Units /\ e \in Units
  BY <1>0, <1>j, <1>e, Joined
<1>3. CASE b = 2
  <2>1. Joint(buf) = (j \o e) \o e
    BY <1>3, <1>j, <1>e DEF Joint
  <2>f. f[0] = buf[0] /\ f[1] = buf[1] /\ f[2] = x /\ f[3] = e
    BY <1>0, <1>1, <1>3, <1>e
  <2>2. Joint(f) = (j \o x) \o e
    BY <1>j, <2>f DEF Joint
  <2>3. j \o e = j /\ j \o x \in Units
    BY <1>2, <1>e, Joined
  <2>4. (j \o x) \o e = j \o x
    BY <1>e, <2>3, Joined
  <2> QED
    BY <1>1, <2>1, <2>2, <2>3, <2>4
<1>4. CASE b = 3
  <2>k. PICK k : k = j \o buf[2]
    OBVIOUS
  <2>1. Joint(buf) = k \o e
    BY <1>j, <1>e, <2>k DEF Joint
  <2>f. f[0] = buf[0] /\ f[1] = buf[1] /\ f[2] = buf[2] /\ f[3] = x
    BY <1>0, <1>1, <1>4
  <2>2. Joint(f) = k \o x
    BY <1>j, <2>f, <2>k DEF Joint
  <2>3. k \in Units
    BY <1>0, <1>2, <2>k, Joined
  <2>4. k \o e = k
    BY <1>e, <2>3, Joined
  <2> QED
    BY <1>1, <2>1, <2>2, <2>4
<1> QED
  BY <1>3, <1>4

LEMMA BothAlive ==
  ASSUME NEW p, Base(p), NEW c \in Legs, Alive(p, c), Alive(p, Other(c)), NEW x, x = p.sock[c].rx
  PROVE  p.socks \notin Early /\ x \in Units /\ DataIn(x) = x
<1>1. p.socks \notin Early
  BY DEF Base, Quiet, Alive, Legs, Other
<1>2. x \in Units
  BY HeardAt
<1>3. AllUnits(x)
  BY <1>1 DEF Base, Heard, Legs, Early
<1>4. x # <<>> => x[1] < FirstMessage
  <2>1. x # <<>> => 1 \in DOMAIN x
    BY <1>2, EmptySeq DEF Units
  <2> QED
    BY <1>3, <2>1 DEF AllUnits
<1> QED
  BY <1>1, <1>2, <1>4, BelowFacts

LEMMA PutFacts ==
  ASSUME NEW p, PairFields \subseteq DOMAIN p, DOMAIN p.leg = Legs, NEW o \in Legs, NEW b,
         NEW l, l = p.leg[o], LegFields \subseteq DOMAIN l,
         NEW y, NEW f, f = Refilled(l.buf, b, y), NEW q, q = SendBufferCreate(p, o, b, y)
  PROVE  /\ DOMAIN q = DOMAIN p /\ DOMAIN q.leg = Legs /\ q.leg[Other(o)] = p.leg[Other(o)]
         /\ q.sock = p.sock /\ q.socks = p.socks /\ q.lost = p.lost
         /\ q.fatal = (p.fatal \/ l.buf[b] # <<>>)
         /\ LegFields \subseteq DOMAIN q.leg[o] /\ q.leg[o].st = l.st /\ q.leg[o].mask = l.mask
         /\ q.leg[o].prev = l.prev /\ q.leg[o].pipe = l.pipe /\ q.leg[o].buf = f
<1>0. Other(o) # o
  BY Others
<1>1. /\ DOMAIN q = DOMAIN p /\ DOMAIN q.leg = Legs /\ q.leg[Other(o)] = p.leg[Other(o)]
      /\ q.sock = p.sock /\ q.socks = p.socks /\ q.lost = p.lost
      /\ q.fatal = (p.fatal \/ l.buf[b] # <<>>)
      /\ q.leg[o] = [l EXCEPT !.buf = [@ EXCEPT ![b] = y]]
  BY <1>0 DEF SendBufferCreate, PairFields
<1>2. q.leg[o] = [l EXCEPT !.buf = f]
  BY <1>1 DEF LegFields, Refilled
<1>3. /\ LegFields \subseteq DOMAIN q.leg[o] /\ q.leg[o].st = l.st /\ q.leg[o].mask = l.mask
      /\ q.leg[o].prev = l.prev /\ q.leg[o].pipe = l.pipe /\ q.leg[o].buf = f
  BY <1>2 DEF LegFields
<1> QED
  BY <1>1, <1>3

LEMMA BufferedGood ==
  ASSUME NEW p, PairInv(p), NEW c \in Legs, Alive(p, c), Alive(p, Other(c)), NEW b \in {2, 3},
         b = 2 => p.leg[c].st # "rdhup", NEW r,
         r = SendBufferCreate(Taken(p, c), Other(c), b, p.sock[c].rx)
  PROVE  ReadOut(p, r, c, b)
<1>o. PICK o : o = Other(c)
  OBVIOUS
<1>x. PICK x : x = p.sock[c].rx
  OBVIOUS
<1>a. PICK a : a = Taken(p, c)
  OBVIOUS
<1>l. PICK l : l = p.leg[o]
  OBVIOUS
<1>f. PICK f : f = Refilled(l.buf, b, x)
  OBVIOUS
<1>e. PICK e : e = <<>>
  OBVIOUS
<1>0. /\ o \in Legs /\ o # c /\ Other(o) = c /\ Base(p) /\ Shaped(p)
      /\ \A d \in Legs : d = c \/ d = o
  BY <1>o, Others DEF PairInv, Base
<1>1. /\ IsLeg(l) /\ BaseLeg(l) /\ IsSock(p.sock[o]) /\ p.fatal = FALSE /\ l.st # "none"
      /\ BaseSock(p.sock[c]) /\ BaseSock(p.sock[o]) /\ IsLeg(p.leg[c]) /\ BaseLeg(p.leg[c])
      /\ LegFields \subseteq DOMAIN l /\ l.buf \in [Buffers -> Units]
  BY <1>0, <1>l, <1>o DEF Base, Shaped, Alive, IsLeg
<1>2. x \in Units /\ DataIn(x) = x /\ p.socks \notin Early
  BY <1>0, <1>x, BothAlive
<1>3. l.buf[b] = e /\ l.buf[3] = e
  <2>1. LastRead(p, c)
    BY DEF PairInv
  <2> QED
    BY <1>e, <1>l, <1>o, <2>1 DEF LastRead, Alive
<1>4. Empties(p, a, c)
  BY <1>0, <1>a, TakenEmpties
<1>5. /\ PairFields \subseteq DOMAIN a /\ DOMAIN a.leg = Legs /\ a.leg = p.leg /\ a.leg[o] = l
  BY <1>0, <1>4, <1>l DEF Empties, Shaped
<1>6. /\ DOMAIN r = DOMAIN a /\ DOMAIN r.leg = Legs /\ r.leg[c] = p.leg[c] /\ r.sock = a.sock
      /\ r.socks = a.socks /\ r.lost = a.lost /\ r.fatal = (a.fatal \/ l.buf[b] # <<>>)
      /\ LegFields \subseteq DOMAIN r.leg[o] /\ r.leg[o].st = l.st /\ r.leg[o].mask = l.mask
      /\ r.leg[o].prev = l.prev /\ r.leg[o].pipe = l.pipe /\ r.leg[o].buf = f
  <2>1. r = SendBufferCreate(a, o, b, x)
    BY <1>a, <1>o, <1>x
  <2>2. l = a.leg[o]
    BY <1>5
  <2> QED
    BY <1>0, <1>1, <1>5, <1>f, <2>1, <2>2, PutFacts
<1>7. /\ LegFields \subseteq DOMAIN r.leg[o] /\ r.leg[o].st = l.st /\ r.leg[o].mask = l.mask
      /\ r.leg[o].prev = l.prev /\ r.leg[o].pipe = l.pipe /\ r.leg[o].buf = f
  BY <1>6
<1>8. /\ f \in [Buffers -> Units] /\ Joint(f) = Joint(l.buf) \o x
      /\ f[b] = x /\ \A k \in Buffers : k # b => f[k] = l.buf[k]
  <2>y. PICK y : y = l.buf
    OBVIOUS
  <2>1. /\ y \in [Buffers -> Units] /\ y[b] = <<>> /\ y[3] = <<>> /\ f = Refilled(y, b, x)
        /\ x \in Units /\ b \in {2, 3}
    BY <1>1, <1>2, <1>3, <1>e, <1>f, <2>y
  <2>2. /\ f \in [Buffers -> Units] /\ Joint(f) = Joint(y) \o x
        /\ f[b] = x /\ \A k \in Buffers : k # b => f[k] = y[k]
    BY <2>1, JointBehind
  <2> QED
    BY <2>2, <2>y
<1>9. r.fatal = FALSE /\ r.socks = p.socks /\ r.lost = p.lost /\ r.sock[o] = p.sock[o]
      /\ DOMAIN r.sock = Legs /\ PairFields \subseteq DOMAIN r
      /\ IsSock(r.sock[c]) /\ r.sock[c].st = p.sock[c].st /\ r.sock[c].tx = p.sock[c].tx
      /\ r.sock[c].rx = e
  BY <1>1, <1>3, <1>4, <1>5, <1>6, <1>e, <1>o DEF Empties
<1>10. IsLeg(r.leg[o]) /\ BaseLeg(r.leg[o])
  <2>1. f[1] = <<>>
    BY <1>1, <1>8 DEF BaseLeg, Buffers
  <2> QED
    BY <1>1, <1>7, <1>8, <2>1 DEF IsLeg, BaseLeg
<1>11. Base(r)
  <2>1. Shaped(r)
    BY <1>0, <1>1, <1>6, <1>9, <1>10 DEF Shaped
  <2>2. Heard(r)
    <3>1. AllUnits(<<>>)
      BY DEF AllUnits
    <3>2. Heard(p)
      BY <1>0 DEF Base
    <3>3. \A d \in Legs : r.sock[d].rx = p.sock[d].rx \/ r.sock[d].rx = <<>>
      BY <1>0, <1>9, <1>e
    <3>4. r.socks = p.socks
      BY <1>9
    <3> QED
      BY <3>1, <3>2, <3>3, <3>4 DEF Heard, Legs
  <2>3. Quiet(r)
    BY <1>2, <1>9 DEF Quiet
  <2>4. BaseSock(r.sock[c])
    BY <1>1, <1>9, <1>e DEF BaseSock
  <2> QED
    BY <1>0, <1>1, <1>6, <1>9, <1>10, <2>1, <2>2, <2>3, <2>4 DEF Base
<1>12. Stays(p, r)
  <2>1. \A d \in Legs : r.leg[d].st = p.leg[d].st
    <3>1. r.leg[c].st = p.leg[c].st
      BY <1>6
    <3>2. r.leg[o].st = p.leg[o].st
      BY <1>7, <1>l
    <3>3. \A d \in Legs : d = c \/ d = o
      BY <1>0
    <3> QED
      BY <3>1, <3>2, <3>3
  <2> QED
    BY <1>9, <2>1 DEF Stays
<1>13. \A d \in Legs : Told(r.leg[d])
  <2>1. Told(p.leg[c]) /\ Told(l)
    BY <1>0, <1>l DEF PairInv
  <2>2. Told(r.leg[o])
    BY <1>7, <2>1 DEF Told
  <2> QED
    BY <1>0, <1>6, <2>1, <2>2
<1>14. LastRead(r, o)
  <2>1. LastRead(p, o)
    BY <1>0 DEF PairInv
  <2> QED
    BY <1>0, <1>6, <1>7, <1>l, <2>1 DEF LastRead
<1>15. b = 2 => r.leg[o].buf[3] = <<>>
  BY <1>3, <1>7, <1>8, <1>e DEF Buffers
<1>16. Line(r, o) = Line(p, o)
  BY <1>0, <1>6, <1>9 DEF Line
<1>17. Line(r, c) = Line(p, c)
  <2>t. PICK t : t = p.sock[o].tx
    OBVIOUS
  <2>j. PICK j : j = Joint(l.buf)
    OBVIOUS
  <2>1. j \in Units
    <3>1. Buffered(l) \in Units
      BY <1>1, BufferedFacts
    <3> QED
      BY <2>j, <3>1 DEF Buffered, Joint
  <2>2. Line(p, c) = t \o (l.pipe \o (j \o x))
    BY <1>2, <1>l, <1>o, <1>x, <2>t, <2>j DEF Line, Buffered, Joint
  <2>w. PICK w : w = j \o x
    OBVIOUS
  <2>3. Buffered(r.leg[o]) = w
    BY <1>7, <1>8, <2>j, <2>w DEF Buffered, Joint
  <2>4. DataIn(r.sock[c].rx) = e
    BY <1>9, <1>e DEF DataIn
  <2>5. Line(r, c) = t \o (l.pipe \o (w \o e))
    BY <1>7, <1>9, <1>o, <2>3, <2>4, <2>t DEF Line
  <2>6. w \o e = w
    BY <1>2, <1>e, <2>1, <2>w, Joined
  <2> QED
    BY <2>2, <2>5, <2>6, <2>w
<1>18. Conserves(p, r)
  <2>1. \A d \in Legs : Line(r, d) = Line(p, d) /\ LostOf(r, d) = LostOf(p, d)
    BY <1>0, <1>9, <1>16, <1>17 DEF LostOf
  <2> QED
    BY <2>1, SavesSame DEF Conserves
<1> QED
  BY <1>6, <1>11, <1>12, <1>13, <1>14, <1>15, <1>18, <1>o DEF ReadOut

-----------------------------------------------------------------------------
LEMMA ReadStill ==
  ASSUME NEW p, NEW r, NEW s, NEW c \in Legs, NEW b, ReadOut(p, r, c, b), Still(r, s),
         s.leg[c].st = r.leg[c].st
  PROVE  ReadOut(p, s, c, b)
<1>0. Other(c) \in Legs
  BY Others
<1>1. Base(s) /\ Stays(r, s) /\ (\A d \in Legs : Told(s.leg[d])) /\ LastRead(s, Other(c))
  BY <1>0, StillBase DEF ReadOut
<1>2. Stays(p, s)
  BY <1>1 DEF ReadOut, Stays
<1>3. Conserves(p, s)
  BY StillConserves, SavesThen DEF ReadOut
<1>4. s.leg[Other(c)].buf = r.leg[Other(c)].buf
  BY <1>0 DEF Still, StillLeg
<1> QED
  BY <1>1, <1>2, <1>3, <1>4 DEF ReadOut

LEMMA ReadSelf ==
  ASSUME NEW p, PairInv(p), NEW c \in Legs, Alive(p, c), NEW b \in {2, 3},
         b = 2 => p.leg[c].st # "rdhup"
  PROVE  ReadOut(p, p, c, b)
<1>0. Other(c) \in Legs
  BY Others
<1>1. Good(p, p)
  BY GoodSelf
<1>2. LastRead(p, c) /\ LastRead(p, Other(c))
  BY <1>0 DEF PairInv
<1>3. p.leg[Other(c)].buf[3] = <<>>
  BY <1>2 DEF LastRead, Alive
<1> QED
  BY <1>1, <1>2, <1>3 DEF ReadOut, Good, PairInv

LEMMA WantsOutStill ==
  ASSUME NEW p, NEW c \in Legs, Formed(p), NEW q, q = [p EXCEPT !.leg[c].flowOut = TRUE]
  PROVE  Still(p, q) /\ \A d \in Legs : q.leg[d].st = p.leg[d].st
<1>0. /\ Other(c) \in Legs /\ Other(c) # c /\ PairFields \subseteq DOMAIN p /\ DOMAIN p.leg = Legs
      /\ IsLeg(p.leg[c]) /\ Told(p.leg[c]) /\ \A d \in Legs : d = c \/ d = Other(c)
  BY Others DEF Formed, Shaped
<1>2. /\ DOMAIN q = DOMAIN p /\ q.sock = p.sock /\ q.lost = p.lost /\ q.fatal = p.fatal
      /\ q.socks = p.socks /\ DOMAIN q.leg = DOMAIN p.leg
      /\ q.leg[Other(c)] = p.leg[Other(c)] /\ q.leg[c] = [p.leg[c] EXCEPT !.flowOut = TRUE]
  BY <1>0 DEF PairFields
<1>3. /\ DOMAIN q.leg[c] = DOMAIN p.leg[c] /\ q.leg[c].st = p.leg[c].st
      /\ q.leg[c].mask = p.leg[c].mask /\ q.leg[c].prev = p.leg[c].prev
      /\ q.leg[c].pipe = p.leg[c].pipe /\ q.leg[c].buf = p.leg[c].buf
  BY <1>0, <1>2 DEF IsLeg, LegFields
<1>5. StillLeg(p.leg[c], q.leg[c])
  BY <1>0, <1>3 DEF StillLeg, IsLeg, Told
<1>6. OnlyLeg(p, q, c) /\ Shaped(p) /\ Told(p.leg[Other(c)])
  BY <1>0, <1>2 DEF OnlyLeg, Formed
<1>7. Still(p, q)
  BY <1>5, <1>6, LegStill
<1>8. \A d \in Legs : q.leg[d].st = p.leg[d].st
  BY <1>0, <1>2, <1>3
<1> QED
  BY <1>7, <1>8

LEMMA ReadFormed ==
  ASSUME NEW p, NEW r, NEW c, NEW b, ReadOut(p, r, c, b) PROVE Formed(r)
  BY DEF ReadOut, Formed, Base

LEMMA ReadAllOut ==
  ASSUME NEW p, PairInv(p), NEW c \in Legs, Alive(p, c), NEW b \in {2, 3},
         b = 2 => p.leg[c].st # "rdhup", NEW what, NEW r, r = ReadAllAndBuffer(p, c, b, what)
  PROVE  ReadOut(p, r, c, b)
<1>o. PICK o : o = Other(c)
  OBVIOUS
<1>0. o \in Legs /\ o # c /\ Other(o) = c
  BY <1>o, Others
<1>1. CASE ~(Alive(p, o) /\ p.sock[c].rx # <<>>)
  <2>1. r = p
    BY <1>1, <1>o DEF ReadAllAndBuffer
  <2> QED
    BY <2>1, ReadSelf
<1>2. CASE Alive(p, o) /\ p.sock[c].rx # <<>>
  <2>q. PICK q : q = SendBufferCreate(Taken(p, c), Other(c), b, p.sock[c].rx)
    OBVIOUS
  <2>w. PICK w : w = [q EXCEPT !.leg[o].flowOut = TRUE]
    OBVIOUS
  <2>t. PICK t : t = Tamper(w, c, what)
    OBVIOUS
  <2>1. r = EpollUpdateFlow(t, o)
    BY <1>2, <1>o, <2>q, <2>w, <2>t DEF ReadAllAndBuffer
  <2>2. ReadOut(p, q, c, b)
    BY <1>2, <1>o, <2>q, BufferedGood
  <2>3. Formed(q)
    BY <2>2, ReadFormed
  <2>4. Still(q, w) /\ w.leg[c].st = q.leg[c].st
    BY <1>0, <2>3, <2>w, WantsOutStill
  <2>5. ReadOut(p, w, c, b)
    BY <2>2, <2>4, ReadStill
  <2>6. Formed(w)
    BY <2>5, ReadFormed
  <2>7. Aside(w, t)
    BY <2>6, <2>t, TamperAside DEF Formed
  <2>8. Still(w, t) /\ t.leg[c].st = w.leg[c].st
    BY <2>6, <2>7, AsideStill DEF Aside
  <2>9. ReadOut(p, t, c, b)
    BY <2>5, <2>8, ReadStill
  <2>10. Formed(t)
    BY <2>9, ReadFormed
  <2>11. CanTell(t.leg[o]) /\ Told(t.leg[Other(o)]) /\ Shaped(t)
    BY <1>0, <2>10, ToldTells DEF Formed
  <2>12. Still(t, r) /\ OnlyLeg(t, r, o)
    BY <1>0, <2>1, <2>11, UpdateStill
  <2>13. r.leg[c].st = t.leg[c].st
    BY <1>0, <2>12 DEF OnlyLeg
  <2> QED
    BY <2>9, <2>12, <2>13, ReadStill
<1> QED
  BY <1>1, <1>2

\* A leg whose end was read: only what epoll is told of it is still to come.
Ended(p, q, c) ==
  /\ Base(q) /\ (\A d \in Legs : LastRead(q, d)) /\ CanTell(q.leg[c]) /\ Told(q.leg[Other(c)])
  /\ Conserves(p, q) /\ (q.socks = "resolve" => p.socks = "resolve")
  /\ \A d \in Legs : /\ q.leg[d].st = "rdhup" => p.leg[d].st = "rdhup" \/ d = c
                     /\ q.leg[d].st = "none" => p.leg[d].st = "none"

LEMMA EndedStill ==
  ASSUME NEW p, NEW q, NEW c, Ended(p, q, c), NEW z, Still(q, z) PROVE Done(p, z, c)
<1>1. Base(z) /\ Stays(q, z) /\ \A d \in Legs : Told(z.leg[d]) /\ LastRead(z, d)
  BY StillBase DEF Ended
<1>2. Conserves(p, z)
  BY StillConserves, SavesThen DEF Ended
<1>3. PairInv(z)
  BY <1>1 DEF PairInv
<1> QED
  BY <1>1, <1>2, <1>3 DEF Done, Ended, Stays

LEMMA OutStill ==
  ASSUME NEW p, NEW q, NEW c \in Legs, NEW b, ReadOut(p, q, c, b), NEW z, Still(q, z),
         z.leg[c].st \in {"closed", "none"}
  PROVE  Done(p, z, c)
<1>0. Other(c) \in Legs /\ \A d \in Legs : d = c \/ d = Other(c)
  BY Others
<1>1. Base(z) /\ Stays(q, z) /\ (\A d \in Legs : Told(z.leg[d])) /\ LastRead(z, Other(c))
  BY <1>0, StillBase DEF ReadOut
<1>2. LastRead(z, c)
  BY DEF LastRead
<1>3. Conserves(p, z)
  BY StillConserves, SavesThen DEF ReadOut
<1>4. PairInv(z)
  BY <1>0, <1>1, <1>2 DEF PairInv
<1>5. Stays(p, z)
  BY <1>1 DEF ReadOut, Stays
<1> QED
  BY <1>3, <1>4, <1>5, GoodDone DEF Good

LEMMA EndNoted ==
  ASSUME NEW p, NEW a, NEW c \in Legs, NEW b, b = 2, ReadOut(p, a, c, b), Alive(p, c),
         p.leg[c].st # "rdhup", NEW q, q = [a EXCEPT !.leg[c].st = "rdhup"]
  PROVE  Ended(p, q, c)
<1>o. PICK o : o = Other(c)
  OBVIOUS
<1>0. /\ o \in Legs /\ o # c /\ Other(o) = c /\ \A d \in Legs : d = c \/ d = o
  BY <1>o, Others
<1>1. /\ Base(a) /\ Shaped(a) /\ IsLeg(a.leg[c]) /\ BaseLeg(a.leg[c]) /\ a.leg[c].st = p.leg[c].st
      /\ PairFields \subseteq DOMAIN a /\ DOMAIN a.leg = Legs /\ Told(a.leg[c]) /\ Told(a.leg[o])
  BY <1>0 DEF ReadOut, Base, Shaped
<1>2. /\ DOMAIN q = DOMAIN a /\ q.sock = a.sock /\ q.lost = a.lost /\ q.fatal = a.fatal
      /\ q.socks = a.socks /\ DOMAIN q.leg = Legs
      /\ q.leg[o] = a.leg[o] /\ q.leg[c] = [a.leg[c] EXCEPT !.st = "rdhup"]
  BY <1>0, <1>1 DEF PairFields
<1>3. /\ DOMAIN q.leg[c] = DOMAIN a.leg[c] /\ q.leg[c].st = "rdhup"
      /\ q.leg[c].mask = a.leg[c].mask /\ q.leg[c].prev = a.leg[c].prev
      /\ q.leg[c].pipe = a.leg[c].pipe /\ q.leg[c].buf = a.leg[c].buf
  BY <1>1, <1>2 DEF IsLeg, LegFields
<1>4. IsLeg(q.leg[c]) /\ BaseLeg(q.leg[c])
  BY <1>1, <1>3 DEF IsLeg, BaseLeg, States
<1>5. \A d \in Legs : q.leg[d].buf = a.leg[d].buf /\ q.leg[d].pipe = a.leg[d].pipe
  BY <1>0, <1>2, <1>3
<1>6. Base(q)
  <2>1. Shaped(q)
    <3>1. \A d \in Legs : IsLeg(q.leg[d])
      BY <1>0, <1>1, <1>2, <1>4 DEF Shaped
    <3> QED
      BY <1>1, <1>2, <3>1 DEF Shaped
  <2>2. Heard(q)
    BY <1>1, <1>2 DEF Base, Heard
  <2>3. Quiet(q)
    <3>1. HasUnsent(q.leg["local"]) <=> HasUnsent(a.leg["local"])
      BY <1>5 DEF HasUnsent, BuffersPresent, Legs
    <3>2. a.socks \in Early => c # "remote"
      BY <1>1 DEF Base, Quiet, Alive
    <3>3. a.socks \in Early => q.leg["remote"] = a.leg["remote"]
      BY <1>0, <1>2, <3>2 DEF Legs
    <3> QED
      BY <1>1, <1>2, <3>1, <3>3 DEF Base, Quiet
  <2>4. \A d \in Legs : BaseLeg(q.leg[d]) /\ BaseSock(q.sock[d])
    BY <1>0, <1>1, <1>2, <1>4 DEF Base
  <2> QED
    BY <1>1, <1>2, <2>1, <2>2, <2>3, <2>4 DEF Base
<1>7. LastRead(q, c)
  <2>1. a.leg[o].buf[3] = <<>>
    BY <1>o DEF ReadOut
  <2> QED
    BY <1>2, <1>3, <1>o, <2>1 DEF LastRead
<1>8. LastRead(q, o)
  <2>1. LastRead(a, o)
    BY <1>o DEF ReadOut
  <2> QED
    BY <1>0, <1>2, <1>3, <2>1 DEF LastRead
<1>9. CanTell(q.leg[c])
  <2>1. ~a.leg[c].prev[3]
    BY <1>1 DEF Told, Alive
  <2> QED
    BY <1>3, <2>1 DEF CanTell
<1>10. Conserves(p, q)
  <2>1. \A d \in Legs : Line(q, d) = Line(a, d) /\ LostOf(q, d) = LostOf(a, d)
    <3> SUFFICES ASSUME NEW d \in Legs PROVE Line(q, d) = Line(a, d) /\ LostOf(q, d) = LostOf(a, d)
      OBVIOUS
    <3>1. Other(d) \in Legs
      BY Others
    <3>2. Buffered(q.leg[Other(d)]) = Buffered(a.leg[Other(d)])
      BY <1>5, <3>1 DEF Buffered
    <3> QED
      BY <1>2, <1>5, <3>1, <3>2 DEF Line, LostOf
  <2>2. Conserves(a, q)
    BY <2>1, SavesSame DEF Conserves
  <2> QED
    BY <2>2, SavesThen DEF ReadOut
<1>11. Stays(p, a)
  BY DEF ReadOut
<1>12. \A d \in Legs : /\ q.leg[d].st = "rdhup" => p.leg[d].st = "rdhup" \/ d = c
                       /\ q.leg[d].st = "none" => p.leg[d].st = "none"
  BY <1>0, <1>2, <1>3, <1>11 DEF Stays
<1>13. q.socks = "resolve" => p.socks = "resolve"
  BY <1>2, <1>11 DEF Stays
<1>14. Told(q.leg[Other(c)])
  BY <1>1, <1>2, <1>o
<1>15. \A d \in Legs : LastRead(q, d)
  BY <1>0, <1>7, <1>8
<1> QED
  BY <1>6, <1>9, <1>10, <1>12, <1>13, <1>14, <1>15 DEF Ended

LEMMA NoInTells ==
  ASSUME NEW p, NEW c \in Legs, Shaped(p), CanTell(p.leg[c]), Told(p.leg[Other(c)]),
         NEW r, r = [p EXCEPT !.leg[c].flowIn = FALSE], NEW q, q = EpollUpdateFlow(r, c)
  PROVE  Still(p, q)
<1>0. /\ Other(c) \in Legs /\ Other(c) # c /\ PairFields \subseteq DOMAIN p /\ DOMAIN p.leg = Legs
      /\ IsLeg(p.leg[c])
  BY Others DEF Shaped
<1>1. /\ DOMAIN r = DOMAIN p /\ r.sock = p.sock /\ r.lost = p.lost /\ r.fatal = p.fatal
      /\ r.socks = p.socks /\ DOMAIN r.leg = DOMAIN p.leg
      /\ r.leg[Other(c)] = p.leg[Other(c)]
  BY <1>0 DEF PairFields
<1>2. r.leg[c] = [p.leg[c] EXCEPT !.flowIn = FALSE]
  BY <1>0 DEF PairFields
<1>3. /\ DOMAIN r.leg[c] = DOMAIN p.leg[c] /\ r.leg[c].st = p.leg[c].st
      /\ r.leg[c].mask = p.leg[c].mask /\ r.leg[c].prev = p.leg[c].prev
      /\ r.leg[c].pipe = p.leg[c].pipe /\ r.leg[c].buf = p.leg[c].buf
  BY <1>0, <1>2 DEF IsLeg, LegFields
<1>4. IsLeg(r.leg[c]) /\ CanTell(r.leg[c])
  BY <1>0, <1>3 DEF IsLeg, CanTell
<1>5. Shaped(r) /\ Told(r.leg[Other(c)])
  <2>1. \A d \in Legs : IsLeg(r.leg[d])
    BY <1>0, <1>1, <1>4, Others DEF Shaped
  <2> QED
    BY <1>1, <2>1 DEF Shaped
<1>7. Still(r, q) /\ OnlyLeg(r, q, c)
  BY <1>4, <1>5, UpdateStill
<1>8. StillLeg(p.leg[c], q.leg[c])
  <2>1. StillLeg(r.leg[c], q.leg[c])
    BY <1>7 DEF Still
  <2> QED
    BY <1>3, <2>1 DEF StillLeg
<1>9. OnlyLeg(p, q, c)
  BY <1>1, <1>7 DEF OnlyLeg
<1> QED
  BY <1>8, <1>9, LegStill

LEMMA RdhupDoneStill ==
  ASSUME NEW p, NEW c \in Legs, Shaped(p), CanTell(p.leg[c]), Told(p.leg[Other(c)]),
         NEW z, z = RdhupDone(p, c)
  PROVE  Still(p, z)
<1>o. PICK o : o = Other(c)
  OBVIOUS
<1>r. PICK r : r = [p EXCEPT !.leg[c].flowIn = FALSE]
  OBVIOUS
<1>q. PICK q : q = EpollUpdateFlow(r, c)
  OBVIOUS
<1>s. PICK s : s = ConnShutdown(q, o)
  OBVIOUS
<1>k. PICK k : k = CloseTcpConn(q, c)
  OBVIOUS
<1>m. PICK m : m = CloseWithPartnerCheck(s, c)
  OBVIOUS
<1>0. o \in Legs
  BY <1>o, Others
<1>1. z \in {k, q, m, s}
  BY <1>o, <1>r, <1>q, <1>s, <1>k, <1>m DEF RdhupDone
<1>2. Still(p, q)
  BY <1>r, <1>q, NoInTells
<1>3. Formed(q)
  BY <1>2, StillShape DEF Formed
<1>4. Still(q, s) /\ Still(q, k)
  BY <1>0, <1>3, <1>s, <1>k, ShutdownStill, CloseStill
<1>5. Formed(s)
  BY <1>3, <1>4, FormedThen
<1>6. Still(s, m)
  BY <1>5, <1>m, CloseCheckStill
<1>7. Still(p, s) /\ Still(p, k)
  BY <1>2, <1>4, StillThen
<1>8. Still(p, m)
  BY <1>6, <1>7, StillThen
<1> QED
  BY <1>1, <1>2, <1>7, <1>8

LEMMA RdhupIsDone ==
  ASSUME NEW p, PairInv(p), NEW c \in Legs, Alive(p, c), p.leg[c].st # "rdhup", NEW what,
         NEW z, z = Rdhup(p, c, what)
  PROVE  Done(p, z, c)
<1>t. PICK two : two = 2
  OBVIOUS
<1>a. PICK a : a = ReadAllAndBuffer(p, c, two, what)
  OBVIOUS
<1>b. PICK b : b = IF c = "local" /\ a.set.tamper THEN FailedWithoutAnswer(a) ELSE a
  OBVIOUS
<1>q. PICK q : q = [b EXCEPT !.leg[c].st = "rdhup"]
  OBVIOUS
<1>y. PICK yes : yes = TRUE
  OBVIOUS
<1>n. PICK no : no = FALSE
  OBVIOUS
<1>e. PICK e : e = EpollSetFlow(q, c, no, yes)
  OBVIOUS
<1>d. PICK d : d = RdhupDone(q, c)
  OBVIOUS
<1>1. z \in {e, d}
  BY <1>t, <1>a, <1>b, <1>q, <1>y, <1>n, <1>e, <1>d DEF Rdhup
<1>2. ReadOut(p, a, c, two)
  <2>1. two \in {2, 3}
    BY <1>t
  <2> QED
    BY <1>a, <2>1, ReadAllOut
<1>3. Formed(a)
  BY <1>2, ReadFormed
<1>4. ReadOut(p, b, c, two)
  <2>w. PICK w : w = FailedWithoutAnswer(a)
    OBVIOUS
  <2>1. Aside(a, w)
    BY <1>3, <2>w, WithoutAnswerAside DEF Formed
  <2>2. Still(a, w) /\ w.leg[c].st = a.leg[c].st
    BY <1>3, <2>1, AsideStill DEF Aside
  <2>3. ReadOut(p, w, c, two)
    BY <1>2, <2>2, ReadStill
  <2> QED
    BY <1>2, <1>b, <2>w, <2>3
<1>5. Ended(p, q, c)
  BY <1>t, <1>q, <1>4, EndNoted
<1>6. Shaped(q) /\ CanTell(q.leg[c]) /\ Told(q.leg[Other(c)])
  BY <1>5 DEF Ended, Base
<1>7. Still(q, e) /\ Still(q, d)
  BY <1>6, <1>e, <1>d, SetFlowTells, RdhupDoneStill
<1> QED
  BY <1>1, <1>5, <1>7, EndedStill

LEMMA LingerStill ==
  ASSUME NEW p, Formed(p), NEW c \in Legs, NEW q, q = [p EXCEPT !.sock[c].linger0 = TRUE]
  PROVE  Still(p, q)
<1>1. Other(c) \in Legs /\ Other(c) # c
  BY Others
<1>2. PairFields \subseteq DOMAIN p /\ DOMAIN p.sock = Legs /\ SockFields \subseteq DOMAIN p.sock[c]
  BY DEF Formed, Shaped, IsSock
<1>3. OnlySock(p, q, c)
  BY <1>1, <1>2 DEF OnlySock, PairFields
<1>4. StillSock(p.sock[c], q.sock[c])
  BY <1>2 DEF StillSock, PairFields, SockFields
<1> QED
  BY <1>3, <1>4, SockStill

LEMMA HupIsDone ==
  ASSUME NEW p, PairInv(p), NEW c \in Legs, Alive(p, c), NEW what, NEW z, z = HupOrErr(p, c, what)
  PROVE  Done(p, z, c)
<1>t. PICK three : three = 3
  OBVIOUS
<1>e. PICK e : e = p.sock[c].err
  OBVIOUS
<1>k. PICK k : k = RemoteConnAck(p, c, e)
  OBVIOUS
<1>a. PICK a : a = ReadAllAndBuffer(k, c, three, what)
  OBVIOUS
<1>w. PICK w : w = FailedWithoutAnswer(a)
  OBVIOUS
<1>x. PICK x : x = IF c = "remote" /\ a.set.tamper THEN w ELSE a
  OBVIOUS
<1>l. PICK l : l = [x EXCEPT !.sock[Other(c)].linger0 = TRUE]
  OBVIOUS
<1>b. PICK b \in {a, l} : z = CloseWithPartnerCheck([b EXCEPT !.sock[c].err = FALSE], c)
  <2>1. z = CloseWithPartnerCheck([a EXCEPT !.sock[c].err = FALSE], c)
        \/ z = CloseWithPartnerCheck([l EXCEPT !.sock[c].err = FALSE], c)
    BY <1>t, <1>e, <1>k, <1>a, <1>w, <1>x, <1>l DEF HupOrErr
  <2> QED
    BY <2>1
<1>f. PICK f : f = FailedWrite(b, c)
  OBVIOUS
<1>0. Other(c) \in Legs
  BY Others
<1>1. z = CloseWithPartnerCheck(f, c)
  BY <1>b, <1>f DEF FailedWrite
<1>2. Still(p, k) /\ k.leg = p.leg
  BY <1>k, InvFormed, AckStill
<1>3. PairInv(k) /\ Alive(k, c)
  BY <1>2, StillGood DEF Good, Alive
<1>4. ReadOut(k, a, c, three)
  <2>1. three \in {2, 3} /\ three # 2
    BY <1>t
  <2> QED
    BY <1>3, <1>a, <2>1, ReadAllOut
<1>5. Formed(a)
  BY <1>4, ReadFormed
<1>6. Still(a, a) /\ Still(a, w)
  <2>1. Aside(a, w)
    BY <1>5, <1>w, WithoutAnswerAside DEF Formed
  <2> QED
    BY <1>5, <2>1, AsideStill, FormedSelf
<1>7. Still(a, x)
  BY <1>6, <1>x
<1>8. Formed(x)
  BY <1>5, <1>7, FormedThen
<1>9. Still(x, l)
  BY <1>0, <1>8, <1>l, LingerStill
<1>10. Still(a, l)
  BY <1>7, <1>9, StillThen
<1>11. Still(a, b)
  BY <1>b, <1>6, <1>10
<1>12. Formed(b)
  BY <1>5, <1>11, FormedThen
<1>13. Still(b, f)
  BY <1>12, <1>f, FailedWriteStill
<1>14. Formed(f)
  BY <1>12, <1>13, FormedThen
<1>15. Still(f, z) /\ z.leg[c].st \in {"closed", "none"}
  BY <1>1, <1>14, CloseCheckStill
<1>16. Still(a, z)
  <2>1. Still(a, f)
    BY <1>11, <1>13, StillThen
  <2> QED
    BY <1>15, <2>1, StillThen
<1>17. Done(k, z, c)
  BY <1>4, <1>15, <1>16, OutStill
<1> QED
  BY <1>2, <1>17, StillDone

LEMMA LegEventDone ==
  ASSUME NEW p, PairInv(p), p.ok = TRUE, NEW c \in Legs, NEW evt, NEW how,
         "rdhup" \in evt => p.leg[c].st # "rdhup", NEW z, z = LegEvent(p, c, evt, how)
  PROVE  Done(p, z, c)
<1>1. CASE ~Alive(p, c)
  <2>1. z = p
    BY <1>1 DEF LegEvent
  <2> QED
    BY <2>1, GoodSelf, GoodDone
<1>2. CASE Alive(p, c) /\ evt \cap {"hup", "err"} # {}
  <2>w. PICK what : what = how.what
    OBVIOUS
  <2>1. z = HupOrErr(p, c, what)
    BY <1>2, <2>w DEF LegEvent
  <2> QED
    BY <1>2, <2>1, HupIsDone
<1>3. CASE Alive(p, c) /\ ~(evt \cap {"hup", "err"} # {})
  <2>w. PICK what : what = how.what
    OBVIOUS
  <2>x. PICK x : x = CheckConnectionAttempt(p, c)
    OBVIOUS
  <2>q. PICK q : q = IF "out" \in evt THEN x ELSE p
    OBVIOUS
  <2>0. z = IF ~q.ok THEN CloseBoth(q, c)
            ELSE IF "rdhup" \in evt THEN Rdhup(q, c, what) ELSE InOrOut(q, c, evt, how)
    BY <1>3, <2>w, <2>x, <2>q DEF LegEvent
  <2>1. Formed(p)
    BY InvFormed
  <2>2. Still(p, x) /\ x.leg[c].st \in {p.leg[c].st, "available"}
    BY <2>1, <2>x, ConnectedStill
  <2>3. Still(p, q) /\ q.leg[c].st \in {p.leg[c].st, "available"}
    BY <2>1, <2>2, <2>q, FormedSelf
  <2>4. PairInv(q)
    BY <2>3, StillGood DEF Good
  <2>5. Alive(q, c) /\ ("rdhup" \in evt => q.leg[c].st # "rdhup")
    BY <1>3, <2>3 DEF Alive
  <2>6. Done(q, z, c)
    <3>1. CASE ~q.ok
      <4>1. Formed(q) /\ z = CloseBoth(q, c)
        BY <2>0, <2>4, <3>1, InvFormed
      <4>2. Still(q, z)
        BY <4>1, CloseBothStill
      <4> QED
        BY <2>4, <4>2, StillGood, GoodDone
    <3>2. CASE q.ok /\ "rdhup" \in evt
      BY <2>0, <2>4, <2>5, <3>2, RdhupIsDone
    <3>3. CASE q.ok /\ "rdhup" \notin evt
      <4>1. z = InOrOut(q, c, evt, how)
        BY <2>0, <3>3
      <4> QED
        BY <2>4, <2>5, <3>3, <4>1, InOrOutDone
    <3> QED
      BY <3>1, <3>2, <3>3
  <2> QED
    BY <2>3, <2>6, StillDone
<1> QED
  BY <1>1, <1>2, <1>3

-----------------------------------------------------------------------------
\* The end of a leg: what it holds, and what its socket does not deliver, is lost.
BelowBoth(s, a, b) == Below(s) = Below(a) \cup Below(b)
LEMMA BelowJoined ==
  ASSUME NEW a \in Units, NEW b \in Units, NEW s, s = a \o b
  PROVE  BelowBoth(s, a, b)
<1>1. IsCat(s, a, b)
  BY CatFacts
<1>2. /\ Len(a) \in Nat /\ Len(b) \in Nat /\ DOMAIN a = 1..Len(a) /\ DOMAIN b = 1..Len(b)
      /\ DOMAIN s = 1..(Len(a) + Len(b))
  BY <1>1 DEF IsCat, Units
<1>3. \A i \in DOMAIN a : i \in DOMAIN s /\ s[i] = a[i]
  BY <1>1, <1>2 DEF IsCat
<1>4. \A i \in DOMAIN b : Len(a) + i \in DOMAIN s /\ s[Len(a) + i] = b[i]
  BY <1>1, <1>2 DEF IsCat
<1>5. ASSUME NEW i \in DOMAIN s
      PROVE  (\E j \in DOMAIN a : s[i] = a[j]) \/ (\E j \in DOMAIN b : s[i] = b[j])
  <2>1. CASE i <= Len(a)
    <3>1. i \in DOMAIN a
      BY <1>2, <2>1
    <3> QED
      BY <1>3, <3>1
  <2>2. CASE i > Len(a)
    <3>a. i \in Int /\ Len(a) \in Int
      BY <1>2
    <3>0. PICK j \in Int : i = Len(a) + j
      BY <3>a, Offset
    <3>1. j \in DOMAIN b
      BY <1>2, <2>2, <3>0
    <3> QED
      BY <1>4, <3>0, <3>1
  <2> QED
    BY <1>2, <2>1, <2>2
<1>6. Below(a) \subseteq Below(s)
  BY <1>3 DEF Below
<1>7. Below(b) \subseteq Below(s)
  BY <1>4 DEF Below
<1>8. Below(s) \subseteq Below(a) \cup Below(b)
  BY <1>5 DEF Below
<1> QED
  BY <1>6, <1>7, <1>8 DEF BelowBoth

LEMMA AbsentFacts ==
  /\ IsLeg(Absent) /\ Told(Absent) /\ BaseLeg(Absent) /\ ~HasUnsent(Absent)
  /\ Absent.st = "none" /\ Absent.buf[2] = <<>> /\ Absent.buf[3] = <<>>
  /\ Absent.pipe = <<>> /\ Buffered(Absent) = <<>>
<1>e. PICK e : e = <<>>
  OBVIOUS
<1>1. e \in Units
  BY <1>e DEF Units
<1>2. /\ LegFields \subseteq DOMAIN Absent /\ Absent.st = "none"
      /\ Absent.mask = {} /\ Absent.pipe = e /\ Absent.buf = [b \in Buffers |-> e]
      /\ Absent.prev = <<FALSE, FALSE, FALSE>>
  BY <1>e DEF Absent, NewConn, LegFields
<1>3. Absent.buf \in [Buffers -> Units] /\ \A b \in Buffers : Absent.buf[b] = e
  BY <1>1, <1>2
<1>4. IsLeg(Absent) /\ Told(Absent)
  BY <1>1, <1>2, <1>3 DEF IsLeg, Told, States, Masks
<1>5. Buffered(Absent) = e
  BY <1>3, <1>4, <1>e, BufferedFacts
<1>6. BaseLeg(Absent) /\ Absent.buf[2] = e /\ Absent.buf[3] = e /\ ~HasUnsent(Absent)
  BY <1>2, <1>3, <1>e DEF BaseLeg, Buffers, HasUnsent, BuffersPresent
<1> QED
  BY <1>e, <1>2, <1>4, <1>5, <1>6

LEMMA ClosedFacts ==
  ASSUME NEW s, IsSock(s), NEW t, t = Closed(s)
  PROVE  /\ IsSock(t) /\ BaseSock(t) /\ t.rx = <<>>
         /\ t.st = "closing" => t.tx = s.tx
         /\ t.st # "closing" => t.tx = <<>>
         /\ s.st = "none" => t.st = "none"
<1>e. PICK e : e = <<>>
  OBVIOUS
<1>1. e \in Units /\ Len(e) = 0 /\ RxCap \in Nat /\ TxCap \in Nat
  BY <1>e, CapAssumption DEF Units
<1>2. CASE s.st = "open" /\ ~Resets(s)
  <2>1. t = [s EXCEPT !.st = "closing", !.wshut = TRUE]
    BY <1>2 DEF Closed
  <2>2. DOMAIN t = DOMAIN s /\ t.st = "closing" /\ t.rx = s.rx /\ t.tx = s.tx /\ s.rx = e
    BY <1>2, <1>e, <2>1 DEF Resets, IsSock, SockFields
  <2> QED
    BY <1>2, <1>e, <2>2 DEF IsSock, BaseSock
<1>3. CASE ~(s.st = "open" /\ ~Resets(s))
  <2>w. PICK w : w = IF s.st = "open" THEN "cut" ELSE "none"
    OBVIOUS
  <2>1. t = [NoSocket EXCEPT !.st = w]
    BY <1>3, <2>w DEF Closed
  <2>2. SockFields \subseteq DOMAIN t /\ t.st = w /\ t.rx = e /\ t.tx = e
    BY <1>e, <2>1 DEF NoSocket, SockFields
  <2> QED
    BY <1>1, <1>e, <2>w, <2>2 DEF IsSock, BaseSock
<1> QED
  BY <1>2, <1>3

Freed(p, r, c) ==
  /\ PairFields \subseteq DOMAIN r /\ DOMAIN r.leg = Legs /\ DOMAIN r.sock = Legs
  /\ r.leg[c] = Absent /\ r.sock[c] = Closed(p.sock[c])
  /\ r.leg[Other(c)] = p.leg[Other(c)] /\ r.sock[Other(c)] = p.sock[Other(c)]
  /\ r.socks = p.socks /\ r.fatal = p.fatal
\* s was the socket of the leg, w what waited in the leg.
Losses(p, r, c, s, w) ==
  /\ LostOf(r, c) = LostOf(p, c) \cup Below(s.rx)
  /\ Closed(s).st = "closing" =>
       LostOf(r, Other(c)) = LostOf(p, Other(c)) \cup Below(w)
  /\ Closed(s).st # "closing" =>
       LostOf(r, Other(c)) = (LostOf(p, Other(c)) \cup Below(w)) \cup Below(s.tx)

LEMMA FreeFacts ==
  ASSUME NEW p, Shaped(p), NEW c \in Legs, NEW l, l = p.leg[c], NEW s, s = p.sock[c],
         NEW w, w = l.pipe \o Buffered(l), NEW r, r = FreeConn(p, c)
  PROVE  Freed(p, r, c) /\ Losses(p, r, c, s, w)
<1>o. PICK o : o = Other(c)
  OBVIOUS
<1>y. PICK why : why = WhyOf(p, c, "closed")
  OBVIOUS
<1>d. PICK closed : closed = "closed"
  OBVIOUS
<1>e. PICK reset : reset = "reset"
  OBVIOUS
<1>a. PICK a : a = Lose(p, o, w, why)
  OBVIOUS
<1>h. PICK h : h = Lose(a, c, s.rx, closed)
  OBVIOUS
<1>k. PICK k : k = Lose(h, o, s.tx, reset)
  OBVIOUS
<1>z. PICK z : z = IF Closed(s).st = "closing" THEN h ELSE k
  OBVIOUS
<1>n. PICK n : n = Absent
  OBVIOUS
<1>0. /\ o \in Legs /\ o # c /\ Other(o) = c /\ PairFields \subseteq DOMAIN p
      /\ DOMAIN p.leg = Legs /\ DOMAIN p.sock = Legs
  BY <1>o, Others DEF Shaped
<1>1. r = [z EXCEPT !.leg[c] = n, !.sock[c] = Closed(@)]
  BY <1>o, <1>y, <1>d, <1>e, <1>a, <1>h, <1>k, <1>z, <1>n DEF FreeConn
<1>2. /\ DOMAIN a = DOMAIN p /\ a.leg = p.leg /\ a.sock = p.sock /\ a.socks = p.socks
      /\ a.fatal = p.fatal
      /\ LostOf(a, o) = LostOf(p, o) \cup Below(w) /\ LostOf(a, c) = LostOf(p, c)
  BY <1>0, <1>a, LoseFacts
<1>3. /\ DOMAIN h = DOMAIN a /\ h.leg = a.leg /\ h.sock = a.sock /\ h.socks = a.socks
      /\ h.fatal = a.fatal
      /\ LostOf(h, c) = LostOf(a, c) \cup Below(s.rx) /\ LostOf(h, o) = LostOf(a, o)
  <2>1. PairFields \subseteq DOMAIN a
    BY <1>0, <1>2
  <2> QED
    BY <1>h, <1>o, <2>1, LoseFacts
<1>4. /\ DOMAIN k = DOMAIN h /\ k.leg = h.leg /\ k.sock = h.sock /\ k.socks = h.socks
      /\ k.fatal = h.fatal
      /\ LostOf(k, o) = LostOf(h, o) \cup Below(s.tx) /\ LostOf(k, c) = LostOf(h, c)
  <2>1. PairFields \subseteq DOMAIN h
    BY <1>0, <1>2, <1>3
  <2> QED
    BY <1>0, <1>k, <2>1, LoseFacts
<1>5. /\ DOMAIN z = DOMAIN p /\ z.leg = p.leg /\ z.sock = p.sock /\ z.socks = p.socks
      /\ z.fatal = p.fatal
      /\ LostOf(z, c) = LostOf(p, c) \cup Below(s.rx)
      /\ Closed(s).st = "closing" => LostOf(z, o) = LostOf(p, o) \cup Below(w)
      /\ Closed(s).st # "closing" => LostOf(z, o) = (LostOf(p, o) \cup Below(w)) \cup Below(s.tx)
  <2>1. CASE Closed(s).st = "closing"
    <3>1. z = h
      BY <1>z, <2>1
    <3> QED
      BY <1>2, <1>3, <2>1, <3>1
  <2>2. CASE Closed(s).st # "closing"
    <3>1. z = k
      BY <1>z, <2>2
    <3> QED
      BY <1>2, <1>3, <1>4, <2>2, <3>1
  <2> QED
    BY <2>1, <2>2
<1>m. PICK m : m = Closed(s)
  OBVIOUS
<1>6. r = [z EXCEPT !.leg[c] = n, !.sock[c] = m]
  BY <1>0, <1>1, <1>5, <1>m DEF PairFields
<1>7. /\ DOMAIN r = DOMAIN z /\ DOMAIN r.leg = Legs /\ DOMAIN r.sock = Legs
      /\ r.leg[c] = n /\ r.sock[c] = m /\ r.leg[o] = z.leg[o] /\ r.sock[o] = z.sock[o]
      /\ r.socks = z.socks /\ r.fatal = z.fatal /\ r.lost = z.lost
  BY <1>0, <1>5, <1>6 DEF PairFields
<1>8. LostOf(r, c) = LostOf(z, c) /\ LostOf(r, o) = LostOf(z, o)
  BY <1>7 DEF LostOf
<1>9. Freed(p, r, c)
  BY <1>0, <1>5, <1>7, <1>m, <1>n, <1>o DEF Freed
<1>10. Losses(p, r, c, s, w)
  BY <1>5, <1>8, <1>o DEF Losses
<1> QED
  BY <1>9, <1>10

\* A closed leg is freed, and one that is alive is not.
Leaves(p, r) ==
  /\ PairInv(r) /\ Conserves(p, r)
  /\ Alive(p, "local") => Alive(r, "local")

LEMMA FreedInv ==
  ASSUME NEW p, PairInv(p), NEW c \in Legs, NEW r, Freed(p, r, c) PROVE PairInv(r)
<1>o. PICK o : o = Other(c)
  OBVIOUS
<1>0. o \in Legs /\ o # c /\ Other(o) = c /\ (\A d \in Legs : d = c \/ d = o) /\ Base(p) /\ Shaped(p)
  BY <1>o, Others DEF PairInv, Base
<1>s. PICK s : s = p.sock[c]
  OBVIOUS
<1>1. /\ PairFields \subseteq DOMAIN r /\ DOMAIN r.leg = Legs /\ DOMAIN r.sock = Legs
      /\ r.leg[c] = Absent /\ r.sock[c] = Closed(s) /\ r.leg[o] = p.leg[o]
      /\ r.sock[o] = p.sock[o] /\ r.socks = p.socks /\ r.fatal = p.fatal
  BY <1>o, <1>s DEF Freed
<1>2. /\ IsSock(r.sock[c]) /\ BaseSock(r.sock[c]) /\ r.sock[c].rx = <<>>
      /\ s.st = "none" => r.sock[c].st = "none"
  <2>1. IsSock(s)
    BY <1>0, <1>s DEF Shaped
  <2> QED
    BY <1>1, <2>1, ClosedFacts
<1>3. /\ IsLeg(r.leg[c]) /\ Told(r.leg[c]) /\ BaseLeg(r.leg[c]) /\ ~HasUnsent(r.leg[c])
      /\ r.leg[c].st = "none" /\ r.leg[c].buf[2] = <<>> /\ r.leg[c].buf[3] = <<>>
  BY <1>1, AbsentFacts
<1>4. Shaped(r)
  <2>1. \A d \in Legs : IsLeg(r.leg[d]) /\ IsSock(r.sock[d])
    BY <1>0, <1>1, <1>2, <1>3 DEF Shaped
  <2> QED
    BY <1>0, <1>1, <2>1 DEF Shaped
<1>5. Heard(r)
  <2>1. AllUnits(<<>>)
    BY DEF AllUnits
  <2> QED
    BY <1>0, <1>1, <1>2, <2>1 DEF Heard, Base, Legs
<1>6. Quiet(r)
  BY <1>0, <1>1, <1>2, <1>3, <1>s DEF Quiet, Base, Legs
<1>7. Base(r)
  BY <1>0, <1>1, <1>2, <1>3, <1>4, <1>5, <1>6 DEF Base
<1>8. LastRead(r, c) /\ LastRead(r, o)
  BY <1>0, <1>3 DEF LastRead
<1>9. Told(r.leg[o])
  BY <1>0, <1>1 DEF PairInv
<1> QED
  BY <1>0, <1>3, <1>7, <1>8, <1>9 DEF PairInv

LEMMA FreeSaves ==
  ASSUME NEW p, PairInv(p), NEW c \in Legs, NEW o, o = Other(c), NEW r, r = FreeConn(p, c)
  PROVE  Saves(p, r, o)
<1>l. PICK l : l = p.leg[c]
  OBVIOUS
<1>s. PICK s : s = p.sock[c]
  OBVIOUS
<1>w. PICK w : w = l.pipe \o Buffered(l)
  OBVIOUS
<1>t. PICK t : t = s.tx
  OBVIOUS
<1>k. PICK k : k = l.pipe
  OBVIOUS
<1>b. PICK b : b = Buffered(l)
  OBVIOUS
<1>i. PICK i : i = DataIn(p.sock[o].rx)
  OBVIOUS
<1>e. PICK e : e = <<>>
  OBVIOUS
<1>0. o \in Legs /\ o # c /\ Other(o) = c /\ Base(p) /\ Shaped(p)
  BY Others DEF PairInv, Base
<1>1. /\ t \in Units /\ k \in Units /\ b \in Units /\ i \in Units /\ e \in Units /\ IsSock(s)
      /\ w = k \o b /\ w \in Units
  <2>1. IsLeg(l) /\ IsSock(s) /\ IsSock(p.sock[o])
    BY <1>0, <1>l, <1>s DEF Shaped
  <2>2. t \in Units /\ k \in Units /\ b \in Units /\ i \in Units /\ e \in Units
    BY <1>t, <1>k, <1>b, <1>i, <1>e, <2>1, BufferedFacts, DataFacts DEF IsSock, Units
  <2>3. w = k \o b
    BY <1>w, <1>k, <1>b
  <2>4. k \o b \in Units
    BY <2>2, Joined
  <2> QED
    BY <2>1, <2>2, <2>3, <2>4
<1>2. Line(p, o) = t \o (w \o i)
  <2>1. Line(p, o) = t \o (k \o (b \o i))
    BY <1>0, <1>l, <1>s, <1>t, <1>k, <1>b, <1>i DEF Line
  <2>2. (k \o b) \o i = k \o (b \o i)
    <3>1. Same(k, b, i)
      BY <1>1, Regroup, Zenon
    <3> QED
      BY <3>1 DEF Same
  <2> QED
    BY <1>1, <2>1, <2>2
<1>3. /\ Freed(p, r, c)
      /\ Closed(s).st = "closing" => LostOf(r, o) = LostOf(p, o) \cup Below(w)
      /\ Closed(s).st # "closing" => LostOf(r, o) = (LostOf(p, o) \cup Below(w)) \cup Below(t)
  <2>1. Shaped(p) /\ l = p.leg[c] /\ s = p.sock[c] /\ w = l.pipe \o Buffered(l)
    BY <1>0, <1>l, <1>s, <1>w
  <2>2. Freed(p, r, c) /\ Losses(p, r, c, s, w)
    BY <2>1, FreeFacts
  <2> QED
    BY <1>t, <2>2 DEF Losses
<1>u. PICK u : u = Closed(s).tx
  OBVIOUS
<1>4. Line(r, o) = u \o i /\ u \in Units
  <2>1. /\ r.sock[c] = Closed(s) /\ r.leg[c] = Absent /\ r.sock[o] = p.sock[o]
        /\ Absent.pipe = e /\ Buffered(Absent) = e
    BY <1>3, <1>s, <1>e, AbsentFacts DEF Freed
  <2>2. Line(r, o) = u \o (e \o (e \o i))
    BY <1>0, <1>u, <1>i, <2>1 DEF Line
  <2>3. e \o i = i
    BY <1>1, <1>e, Joined
  <2>4. u \in Units
    BY <1>1, <1>u, ClosedFacts DEF IsSock
  <2> QED
    BY <2>2, <2>3, <2>4
<1>5. CASE Closed(s).st = "closing"
  <2>1. u = t
    BY <1>1, <1>u, <1>t, <1>5, ClosedFacts
  <2> QED
    BY <1>1, <1>2, <1>3, <1>4, <1>5, <2>1, SavesLess
<1>6. CASE Closed(s).st # "closing"
  <2>y. PICK y : y = t \o w
    OBVIOUS
  <2>1. u = e
    BY <1>1, <1>e, <1>u, <1>6, ClosedFacts
  <2>2. y \in Units
    BY <1>1, <2>y, Joined
  <2>3. (t \o w) \o i = t \o (w \o i)
    <3>1. Same(t, w, i)
      BY <1>1, Regroup, Zenon
    <3> QED
      BY <3>1 DEF Same
  <2>4. y \o i \in Units /\ e \o (y \o i) = y \o i
    <3>1. y \o i \in Units
      BY <1>1, <2>2, Joined
    <3> QED
      BY <1>e, <3>1, Joined
  <2>5. Line(p, o) = e \o (y \o i)
    BY <1>2, <2>y, <2>3, <2>4
  <2>6. Below(y) = Below(t) \cup Below(w)
    <3>1. t \in Units /\ w \in Units
      BY <1>1
    <3>2. BelowBoth(y, t, w)
      BY <2>y, <3>1, BelowJoined, Zenon
    <3> QED
      BY <3>2 DEF BelowBoth
  <2>7. LostOf(r, o) = LostOf(p, o) \cup Below(y)
    BY <1>3, <1>6, <2>6
  <2>8. Line(r, o) = e \o i
    BY <1>4, <2>1
  <2> QED
    BY <1>1, <2>2, <2>5, <2>7, <2>8, SavesLess
<1> QED
  BY <1>5, <1>6

LEMMA FreeDrops ==
  ASSUME NEW p, PairInv(p), NEW c \in Legs, NEW r, r = FreeConn(p, c)
  PROVE  Saves(p, r, c)
<1>o. PICK o : o = Other(c)
  OBVIOUS
<1>x. PICK x : x = p.sock[c].rx
  OBVIOUS
<1>e. PICK e : e = <<>>
  OBVIOUS
<1>t. PICK t : t = p.sock[o].tx
  OBVIOUS
<1>k. PICK k : k = p.leg[o].pipe
  OBVIOUS
<1>b. PICK b : b = Buffered(p.leg[o])
  OBVIOUS
<1>y. PICK y : y = DataIn(x)
  OBVIOUS
<1>w. PICK w : w = t \o (k \o b)
  OBVIOUS
<1>0. o \in Legs /\ o # c /\ Other(o) = c /\ Base(p) /\ Shaped(p)
  BY <1>o, Others DEF PairInv, Base
<1>1. x \in Units /\ y \in Units /\ Below(y) = Below(x)
  BY <1>0, <1>x, <1>y, HeardAt, DataBelow
<1>2. t \in Units /\ k \in Units /\ b \in Units /\ e \in Units
  <2>1. IsLeg(p.leg[o]) /\ IsSock(p.sock[o])
    BY <1>0 DEF Shaped
  <2>2. e \in Units
    BY <1>e DEF Units
  <2> QED
    BY <1>t, <1>k, <1>b, <2>1, <2>2, BufferedFacts DEF IsSock
<1>3. AsOne(t, k, b, w)
  BY <1>2, <1>w, Regroup3
<1>4. Line(p, c) = t \o (k \o (b \o y))
  BY <1>o, <1>x, <1>t, <1>k, <1>b, <1>y DEF Line
<1>5. Freed(p, r, c) /\ LostOf(r, c) = LostOf(p, c) \cup Below(x)
  <2>l. PICK l : l = p.leg[c]
    OBVIOUS
  <2>s. PICK s : s = p.sock[c]
    OBVIOUS
  <2>v. PICK v : v = l.pipe \o Buffered(l)
    OBVIOUS
  <2>1. Freed(p, r, c) /\ Losses(p, r, c, s, v)
    BY <1>0, <2>l, <2>s, <2>v, FreeFacts
  <2> QED
    BY <1>x, <2>s, <2>1 DEF Losses
<1>6. Line(r, c) = t \o (k \o (b \o e))
  <2>1. r.leg[o] = p.leg[o] /\ r.sock[o] = p.sock[o]
    BY <1>5, <1>o DEF Freed
  <2>2. r.sock[c].rx = e
    BY <1>0, <1>5, <1>e, ClosedFacts DEF Freed, Shaped
  <2>3. DataIn(e) = e
    BY <1>e DEF DataIn
  <2> QED
    BY <1>o, <1>t, <1>k, <1>b, <2>1, <2>2, <2>3 DEF Line
<1>7. w \in Units /\ Line(p, c) = w \o (y \o e) /\ Line(r, c) = w \o e
  <2>1. y \o e = y
    BY <1>e, <1>1, Joined
  <2> QED
    BY <1>1, <1>2, <1>3, <1>4, <1>6, <2>1 DEF AsOne
<1> QED
  BY <1>1, <1>2, <1>5, <1>7, SavesLess

LEMMA FreeLeaves ==
  ASSUME NEW p, PairInv(p), NEW c \in Legs, p.leg[c].st = "closed", NEW r, r = FreeConn(p, c)
  PROVE  Leaves(p, r)
<1>1. Freed(p, r, c)
  <2>l. PICK l : l = p.leg[c]
    OBVIOUS
  <2>s. PICK s : s = p.sock[c]
    OBVIOUS
  <2>v. PICK v : v = l.pipe \o Buffered(l)
    OBVIOUS
  <2>1. Shaped(p)
    BY DEF PairInv, Base
  <2> QED
    BY <2>l, <2>s, <2>v, <2>1, FreeFacts
<1>2. Saves(p, r, c) /\ Saves(p, r, Other(c))
  BY FreeDrops, FreeSaves
<1>3. Conserves(p, r)
  BY <1>2, Others DEF Conserves
<1>4. Alive(p, "local") => c = "remote" /\ r.leg["local"] = p.leg["local"]
  BY <1>1 DEF Alive, Legs, Other, Freed
<1> QED
  BY <1>1, <1>3, <1>4, FreedInv DEF Leaves, Alive

-----------------------------------------------------------------------------
\* The resolver's answer, and the end of a turn.
Resolved(p, q) ==
  /\ PairInv(q) /\ Conserves(p, q)
  /\ \A d \in Legs : q.leg[d].st = "rdhup" => p.leg[d].st = "rdhup"

LEMMA GoodResolved == ASSUME NEW p, NEW q, Good(p, q) PROVE Resolved(p, q)
  BY DEF Good, Resolved, Stays
LEMMA ResolvedStill ==
  ASSUME NEW p, NEW q, NEW r, Resolved(p, q), Still(q, r) PROVE Resolved(p, r)
<1>1. Good(q, r)
  BY StillGood DEF Resolved
<1>2. Conserves(p, r)
  BY <1>1, SavesThen DEF Resolved, Good
<1> QED
  BY <1>1, <1>2 DEF Resolved, Good, Stays

LEMMA CompleteResolved ==
  ASSUME NEW p, PairInv(p), NEW ok, NEW dest, NEW q, q = ResolveComplete(p, ok, dest)
  PROVE  Resolved(p, q)
<1>a. PICK a : a = Reply(p, "fail")
  OBVIOUS
<1>1. CASE q = p
  BY <1>1, GoodSelf, GoodResolved
<1>2. CASE q = Fail(a)
  <2>1. Formed(p)
    BY InvFormed
  <2>2. Still(p, a)
    BY <1>a, <2>1, ReplyStill
  <2>3. Formed(a)
    BY <2>1, <2>2, FormedThen
  <2>4. Still(a, q)
    BY <1>2, <2>3, FailStill
  <2>5. Still(p, q)
    BY <2>2, <2>4, StillThen
  <2> QED
    BY <2>5, StillGood, GoodResolved
<1>3. CASE p.socks = "resolve" /\ q = ProxyModeConnectRemote(p, dest)
  <2>1. Shaped(p) /\ Heard(p)
    BY DEF PairInv, Base
  <2>2. Heeded(p, q)
    BY <1>3, <2>1, ModeConnectHeeded
  <2>3. AllUnits(p.sock["local"].rx)
    BY <1>3, <2>1 DEF Heard
  <2>4. Serves(p, q)
    BY <2>2, <2>3, HeededServes
  <2> QED
    BY <2>4 DEF Serves, Resolved, Legs
<1> QED
  BY <1>a, <1>1, <1>2, <1>3 DEF ResolveComplete

LEMMA ResolverEventResolved ==
  ASSUME NEW p, PairInv(p), NEW dest, NEW z, z = ResolverEvent(p, dest)
  PROVE  Resolved(p, z)
<1>o. PICK ok : ok = job.ok
  OBVIOUS
<1>q. PICK q : q = ResolveComplete(p, ok, dest)
  OBVIOUS
<1>c. PICK c : c = "local"
  OBVIOUS
<1>k. PICK k : k = CloseTcpConn(q, c)
  OBVIOUS
<1>0. c \in Legs
  BY <1>c DEF Legs
<1>1. Resolved(p, q)
  BY <1>q, CompleteResolved
<1>2. Formed(q)
  BY <1>1, InvFormed DEF Resolved
<1>3. Still(q, k)
  BY <1>0, <1>2, <1>k, CloseStill
<1>4. Resolved(p, k)
  BY <1>1, <1>3, ResolvedStill
<1>5. z \in {q, k}
  BY <1>o, <1>q, <1>c, <1>k DEF ResolverEvent
<1> QED
  BY <1>1, <1>4, <1>5

LEMMA FreeIfLeaves ==
  ASSUME NEW p, PairInv(p), NEW c \in Legs, NEW r, r = FreeIfClosed(p, c)
  PROVE  Leaves(p, r)
<1>f. PICK f : f = FreeConn(p, c)
  OBVIOUS
<1>1. CASE p.leg[c].st = "closed"
  BY <1>1, FreeLeaves DEF FreeIfClosed
<1>2. CASE p.leg[c].st # "closed"
  <2>1. r = p
    BY <1>2 DEF FreeIfClosed
  <2> QED
    BY <2>1, GoodSelf DEF Good, Leaves
<1> QED
  BY <1>1, <1>2

LEMMA EndLeaves ==
  ASSUME NEW p, PairInv(p), NEW late, NEW r, r = EndOfTurn(p, late)
  PROVE  Leaves(p, r)
<1>c. PICK c : c = "local"
  OBVIOUS
<1>d. PICK d : d = "remote"
  OBVIOUS
<1>k. PICK k : k = CloseTcpConn(p, d)
  OBVIOUS
<1>t. PICK t : t = CloseTimedOut(p, late)
  OBVIOUS
<1>a. PICK a : a = FreeIfClosed(t, c)
  OBVIOUS
<1>0. c \in Legs /\ d \in Legs /\ Other(d) = c
  BY <1>c, <1>d DEF Legs, Other
<1>1. Formed(p)
  BY InvFormed
<1>2. Still(p, k) /\ k.leg[c] = p.leg[c]
  BY <1>0, <1>1, <1>k, CloseStill
<1>3. Still(p, p)
  BY <1>1, FormedSelf
<1>4. t \in {k, p}
  BY <1>d, <1>k, <1>t DEF CloseTimedOut
<1>5. Good(p, t) /\ t.leg[c] = p.leg[c]
  BY <1>2, <1>3, <1>4, StillGood
<1>6. Leaves(t, a)
  BY <1>0, <1>5, <1>a, FreeIfLeaves DEF Good
<1>7. r = FreeIfClosed(a, d)
  BY <1>c, <1>d, <1>t, <1>a DEF EndOfTurn
<1>8. Leaves(a, r)
  BY <1>0, <1>6, <1>7, FreeIfLeaves DEF Leaves
<1>9. Conserves(p, r)
  <2>1. Conserves(p, a)
    BY <1>5, <1>6, SavesThen DEF Good, Leaves
  <2> QED
    BY <1>8, <2>1, SavesThen DEF Leaves
<1>10. Alive(p, "local") => Alive(r, "local")
  BY <1>5, <1>6, <1>8, <1>c DEF Leaves, Alive
<1> QED
  BY <1>8, <1>9, <1>10 DEF Leaves

LEMMA OkStill ==
  ASSUME NEW p, PairInv(p), NEW q, q = [p EXCEPT !.ok = TRUE]
  PROVE  /\ PairInv(q) /\ Conserves(p, q) /\ q.ok = TRUE /\ q.leg = p.leg
<1>1. Formed(p) /\ PairFields \subseteq DOMAIN p
  BY InvFormed DEF Formed, Shaped
<1>2. Aside(p, q) /\ q.ok = TRUE
  BY <1>1 DEF Aside, PairFields
<1>3. Still(p, q)
  BY <1>1, <1>2, AsideStill
<1> QED
  BY <1>2, <1>3, StillGood DEF Good, Aside

-----------------------------------------------------------------------------
\* A connection as it is accepted.
FreshLeg(l) ==
  /\ IsLeg(l) /\ Told(l) /\ BaseLeg(l) /\ ~HasUnsent(l) /\ l.pipe = <<>> /\ Buffered(l) = <<>>
  /\ l.buf[2] = <<>> /\ l.buf[3] = <<>>
FreshSock(s) == IsSock(s) /\ BaseSock(s) /\ s.rx = <<>> /\ s.tx = <<>>
Started(p) ==
  /\ PairFields \subseteq DOMAIN p /\ DOMAIN p.leg = Legs /\ DOMAIN p.sock = Legs
  /\ \A c \in Legs : FreshLeg(p.leg[c]) /\ FreshSock(p.sock[c])
  /\ p.lost = {} /\ p.fatal = FALSE /\ p.ok = TRUE /\ p.socks \in {"handshake", "tcp"}
  /\ p.socks = "handshake" => p.leg["remote"].st = "none" /\ p.sock["remote"].st = "none"

Blank(l, st, m) ==
  /\ LegFields \subseteq DOMAIN l /\ l.st = st /\ l.mask = m /\ l.pipe = <<>>
  /\ l.buf = [b \in Buffers |-> <<>>] /\ l.prev = <<FALSE, FALSE, FALSE>>

LEMMA BlankFresh ==
  ASSUME NEW st \in States, st # "rdhup", NEW m \in Masks, NEW l, Blank(l, st, m)
  PROVE  FreshLeg(l)
<1>e. PICK e : e = <<>>
  OBVIOUS
<1>1. e \in Units
  BY <1>e DEF Units
<1>2. l.buf \in [Buffers -> Units] /\ (\A b \in Buffers : l.buf[b] = e) /\ l.pipe = e
  BY <1>1, <1>e DEF Blank
<1>3. IsLeg(l)
  BY <1>1, <1>2 DEF IsLeg, Blank
<1>4. Told(l)
  BY DEF Told, Blank
<1>5. Buffered(l) = e
  BY <1>2, <1>3, <1>e, BufferedFacts
<1>6. BaseLeg(l) /\ l.buf[2] = e /\ l.buf[3] = e /\ ~HasUnsent(l)
  BY <1>2, <1>e DEF BaseLeg, Buffers, HasUnsent, BuffersPresent
<1> QED
  BY <1>e, <1>2, <1>3, <1>4, <1>5, <1>6 DEF FreshLeg

LEMMA MaskedBlank ==
  ASSUME NEW st, NEW m, NEW n, n = NewConn(st), NEW l, l = [n EXCEPT !.mask = m]
  PROVE  Blank(l, st, m) /\ LegFields \subseteq DOMAIN n
<1>e. PICK e : e = <<>>
  OBVIOUS
<1>b. PICK b : b = [k \in Buffers |-> <<>>]
  OBVIOUS
<1>v. PICK v : v = <<FALSE, FALSE, FALSE>>
  OBVIOUS
<1>o. PICK o : o = {}
  OBVIOUS
<1>1. n = [st |-> st, flowIn |-> FALSE, flowOut |-> FALSE, prev |-> v,
           mask |-> o, pipe |-> e, buf |-> b, shut |-> FALSE, orphan |-> FALSE]
  BY <1>e, <1>b, <1>v, <1>o DEF NewConn
<1>2. /\ LegFields \subseteq DOMAIN n /\ n.st = st /\ n.pipe = e /\ n.buf = b /\ n.prev = v
  BY <1>1 DEF LegFields
<1>3. /\ DOMAIN l = DOMAIN n /\ l.mask = m /\ l.st = n.st /\ l.pipe = n.pipe /\ l.buf = n.buf
      /\ l.prev = n.prev
  BY <1>2 DEF LegFields
<1> QED
  BY <1>2, <1>3, <1>e, <1>b, <1>v DEF Blank

LEMMA NewSocksFresh ==
  /\ FreshSock(Accepted) /\ FreshSock(Connecting) /\ FreshSock(NoSocket)
  /\ NoSocket.st = "none"
<1>e. PICK e : e = <<>>
  OBVIOUS
<1>1. e \in Units /\ Len(e) = 0 /\ RxCap \in Nat /\ TxCap \in Nat
  BY <1>e, CapAssumption DEF Units
<1>2. /\ SockFields \subseteq DOMAIN NoSocket /\ NoSocket.st = "none"
      /\ NoSocket.rx = e /\ NoSocket.tx = e
  BY <1>e DEF NoSocket, SockFields
<1>3. /\ SockFields \subseteq DOMAIN Accepted /\ Accepted.st = "open"
      /\ Accepted.rx = e /\ Accepted.tx = e
  BY <1>e DEF Accepted, NoSocket, SockFields
<1>4. /\ SockFields \subseteq DOMAIN Connecting /\ Connecting.st = "connecting"
      /\ Connecting.rx = e /\ Connecting.tx = e
  BY <1>e DEF Connecting, NoSocket, SockFields
<1> QED
  BY <1>1, <1>2, <1>3, <1>4, <1>e DEF FreshSock, IsSock, BaseSock

LEMMA LeggedFields ==
  ASSUME NEW set, NEW p, p = Legged(set)
  PROVE  /\ PairFields \subseteq DOMAIN p /\ DOMAIN p.leg = Legs /\ DOMAIN p.sock = Legs
         /\ p.leg["local"] = NewConn("available") /\ p.leg["remote"] = Absent
         /\ p.sock["local"] = Accepted /\ p.sock["remote"] = NoSocket
         /\ p.lost = {} /\ p.fatal = FALSE /\ p.ok = TRUE
         /\ p.socks = IF set.mode = "socks" THEN "handshake" ELSE "tcp"
<1>a. PICK a : a = [c \in Legs |-> IF c = "local" THEN NewConn("available") ELSE Absent]
  OBVIOUS
<1>b. PICK b : b = [c \in Legs |-> IF c = "local" THEN Accepted ELSE NoSocket]
  OBVIOUS
<1>s. PICK s : s = IF set.mode = "socks" THEN "handshake" ELSE "tcp"
  OBVIOUS
<1>t. PICK t : t = [dp |-> TRUE, ah |-> FALSE, cutoff |-> FALSE, checked |-> FALSE,
                    matches |-> FALSE]
  OBVIOUS
<1>u. PICK u : u = [fails |-> set.fails, listed |-> set.listed]
  OBVIOUS
<1>1. p = [leg |-> a, sock |-> b, socks |-> s, reply |-> "none", read |-> 0, blocks |-> 0, set |-> set,
           lost |-> {}, fatal |-> FALSE, ok |-> TRUE, track |-> t, auto |-> u]
  BY <1>a, <1>b, <1>s, <1>t, <1>u DEF Legged
<1>2. /\ PairFields \subseteq DOMAIN p /\ p.leg = a /\ p.sock = b /\ p.socks = s
      /\ p.lost = {} /\ p.fatal = FALSE /\ p.ok = TRUE
  BY <1>1 DEF PairFields
<1>3. /\ DOMAIN a = Legs /\ DOMAIN b = Legs
      /\ a["local"] = NewConn("available") /\ a["remote"] = Absent
      /\ b["local"] = Accepted /\ b["remote"] = NoSocket
  BY <1>a, <1>b DEF Legs
<1> QED
  BY <1>2, <1>3, <1>s

LEMMA AddStarts ==
  ASSUME NEW set, NEW p, p = AddTcpConnection(set) PROVE Started(p)
<1>g. PICK g : g = Legged(set)
  OBVIOUS
<1>c. PICK c : c = "local"
  OBVIOUS
<1>i. PICK i : i = {"in", "rdhup"}
  OBVIOUS
<1>r. PICK r : r = {"rdhup"}
  OBVIOUS
<1>h. PICK h : h = ConnectRemote(g)
  OBVIOUS
<1>n. PICK n : n = NewConn("available")
  OBVIOUS
<1>0. c \in Legs /\ "remote" \in Legs /\ c # "remote" /\ \A d \in Legs : d = c \/ d = "remote"
  BY <1>c DEF Legs
<1>1. /\ PairFields \subseteq DOMAIN g /\ DOMAIN g.leg = Legs /\ DOMAIN g.sock = Legs
      /\ g.leg[c] = n /\ g.leg["remote"] = Absent
      /\ g.sock[c] = Accepted /\ g.sock["remote"] = NoSocket
      /\ g.lost = {} /\ g.fatal = FALSE /\ g.ok = TRUE
      /\ g.socks = IF set.mode = "socks" THEN "handshake" ELSE "tcp"
  BY <1>g, <1>c, <1>n, LeggedFields
<1>4. ASSUME NEW m \in Masks, NEW l, l = [n EXCEPT !.mask = m]
      PROVE  FreshLeg(l) /\ LegFields \subseteq DOMAIN n
  <2>s. PICK s : s = "available"
    OBVIOUS
  <2>1. s \in States /\ s # "rdhup" /\ n = NewConn(s)
    BY <1>n, <2>s DEF States
  <2>2. Blank(l, s, m) /\ LegFields \subseteq DOMAIN n
    BY <1>4, <2>1, MaskedBlank
  <2> QED
    BY <2>1, <2>2, BlankFresh
<1>2. IsLeg(n)
  <2>m. PICK m : m = {}
    OBVIOUS
  <2>l. PICK l : l = [n EXCEPT !.mask = m]
    OBVIOUS
  <2>1. m \in Masks
    BY <2>m DEF Masks
  <2>2. FreshLeg(l) /\ LegFields \subseteq DOMAIN n
    BY <1>4, <2>1, <2>l
  <2>3. l.st = n.st /\ l.pipe = n.pipe /\ l.buf = n.buf
    BY <2>2, <2>l DEF LegFields
  <2>4. n.mask \in Masks
    BY <1>n DEF NewConn, Masks
  <2> QED
    BY <2>2, <2>3, <2>4 DEF FreshLeg, IsLeg
<1>3. Shaped(g)
  <2>1. \A d \in Legs : IsLeg(g.leg[d]) /\ IsSock(g.sock[d])
    BY <1>0, <1>1, <1>2, AbsentFacts, NewSocksFresh DEF FreshSock
  <2> QED
    BY <1>1, <2>1 DEF Shaped, Early
<1>5. CASE set.mode = "socks"
  <2>1. p = [g EXCEPT !.leg[c].mask = i]
    BY <1>5, <1>g, <1>c, <1>i DEF AddTcpConnection, EpollSet
  <2>2. /\ DOMAIN p = DOMAIN g /\ DOMAIN p.leg = Legs /\ p.sock = g.sock /\ p.lost = g.lost
        /\ p.fatal = g.fatal /\ p.ok = g.ok /\ p.socks = g.socks
        /\ p.leg["remote"] = g.leg["remote"] /\ p.leg[c] = [g.leg[c] EXCEPT !.mask = i]
    BY <1>0, <1>1, <2>1 DEF PairFields
  <2>3. FreshLeg(p.leg[c])
    <3>1. i \in Masks /\ p.leg[c] = [n EXCEPT !.mask = i]
      BY <1>1, <1>i, <2>2 DEF Masks
    <3> QED
      BY <1>4, <3>1
  <2>4. FreshLeg(p.leg["remote"])
    BY <1>1, <2>2, AbsentFacts DEF FreshLeg
  <2>5. \A d \in Legs : FreshLeg(p.leg[d]) /\ FreshSock(p.sock[d])
    BY <1>0, <1>1, <2>2, <2>3, <2>4, NewSocksFresh
  <2> QED
    BY <1>1, <1>5, <2>2, <2>5, AbsentFacts, NewSocksFresh DEF Started
<1>6. CASE set.mode # "socks"
  <2>1. p = [h EXCEPT !.leg[c].mask = r]
    BY <1>6, <1>g, <1>c, <1>r, <1>h DEF AddTcpConnection, EpollSet
  <2>2. Opened(g, h) /\ DOMAIN h = DOMAIN g /\ h.lost = g.lost /\ h.fatal = g.fatal
    BY <1>3, <1>h, ConnectOpens
  <2>3. h.ok = g.ok /\ h.socks = g.socks
    BY <1>1, <1>h DEF ConnectRemote, EpollSet, PairFields
  <2>4. /\ DOMAIN h.leg = Legs /\ DOMAIN h.sock = Legs /\ h.leg[c] = n /\ h.leg["remote"] = NewRemote
        /\ h.sock[c] = Accepted /\ h.sock["remote"] = Connecting /\ PairFields \subseteq DOMAIN h
    BY <1>1, <1>c, <2>2 DEF Opened
  <2>5. /\ DOMAIN p = DOMAIN h /\ DOMAIN p.leg = Legs /\ p.sock = h.sock /\ p.lost = h.lost
        /\ p.fatal = h.fatal /\ p.ok = h.ok /\ p.socks = h.socks
        /\ p.leg["remote"] = h.leg["remote"] /\ p.leg[c] = [h.leg[c] EXCEPT !.mask = r]
    BY <1>0, <2>1, <2>4 DEF PairFields
  <2>6. FreshLeg(p.leg[c])
    <3>1. r \in Masks /\ p.leg[c] = [n EXCEPT !.mask = r]
      BY <1>r, <2>4, <2>5 DEF Masks
    <3> QED
      BY <1>4, <3>1
  <2>7. FreshLeg(NewRemote)
    <3>m. PICK m : m = {"out"}
      OBVIOUS
    <3>s. PICK s : s = "unavailable"
      OBVIOUS
    <3>l. PICK l : l = NewRemote
      OBVIOUS
    <3>w. PICK w : w = NewConn(s)
      OBVIOUS
    <3>1. l = [w EXCEPT !.mask = m] /\ m \in Masks /\ s \in States /\ s # "rdhup"
      BY <3>m, <3>s, <3>l, <3>w DEF NewRemote, Masks, States
    <3>2. Blank(l, s, m)
      BY <3>1, <3>w, MaskedBlank
    <3> QED
      BY <3>l, <3>1, <3>2, BlankFresh
  <2>8. \A d \in Legs : FreshLeg(p.leg[d]) /\ FreshSock(p.sock[d])
    BY <1>0, <2>4, <2>5, <2>6, <2>7, NewSocksFresh
  <2>9. p.socks = "tcp"
    BY <1>1, <1>6, <2>3, <2>5
  <2> QED
    BY <1>1, <2>2, <2>3, <2>4, <2>5, <2>8, <2>9 DEF Started
<1> QED
  BY <1>5, <1>6

LEMMA StartedInv ==
  ASSUME NEW p, Started(p)
  PROVE  PairInv(p) /\ \A c \in Legs : Line(p, c) = <<>> /\ LostOf(p, c) = {}
<1>1. /\ PairFields \subseteq DOMAIN p /\ DOMAIN p.leg = Legs /\ DOMAIN p.sock = Legs
      /\ \A c \in Legs : FreshLeg(p.leg[c]) /\ FreshSock(p.sock[c])
      /\ p.lost = {} /\ p.fatal = FALSE /\ p.socks \in {"handshake", "tcp"}
  BY DEF Started
<1>2. Shaped(p)
  BY <1>1 DEF Shaped, FreshLeg, FreshSock, Early
<1>3. Heard(p)
  <2>1. p.sock["remote"].rx = <<>> /\ p.sock["local"].rx = <<>>
    BY <1>1 DEF FreshSock, Legs
  <2> QED
    BY <2>1 DEF Heard, AllUnits
<1>4. Quiet(p)
  BY <1>1 DEF Quiet, Started, FreshLeg, Early, Legs
<1>5. Base(p)
  BY <1>1, <1>2, <1>3, <1>4 DEF Base, FreshLeg, FreshSock
<1>6. \A c \in Legs : LastRead(p, c) /\ Told(p.leg[c])
  BY <1>1, Others DEF LastRead, FreshLeg
<1>7. ASSUME NEW c \in Legs PROVE Line(p, c) = <<>> /\ LostOf(p, c) = {}
  <2>e. PICK e : e = <<>>
    OBVIOUS
  <2>0. Other(c) \in Legs
    BY Others
  <2>1. /\ p.sock[Other(c)].tx = e /\ p.leg[Other(c)].pipe = e
        /\ Buffered(p.leg[Other(c)]) = e /\ p.sock[c].rx = e
    BY <1>1, <2>0, <2>e DEF FreshLeg, FreshSock
  <2>2. DataIn(e) = e
    BY <2>e DEF DataIn
  <2>3. e \in Units /\ e \o e = e
    <3>1. e \in Units
      BY <2>e DEF Units
    <3> QED
      BY <2>e, <3>1, Joined
  <2>4. Line(p, c) = e
    BY <2>1, <2>2, <2>3 DEF Line
  <2>5. LostOf(p, c) = {}
    BY <1>1 DEF LostOf
  <2> QED
    BY <2>e, <2>4, <2>5
<1> QED
  BY <1>5, <1>6, <1>7 DEF PairInv

-----------------------------------------------------------------------------
\* What the client, the server and the network do to one socket.
Outside(p, q, c) ==
  /\ PairFields \subseteq DOMAIN q /\ q.leg = p.leg /\ DOMAIN q.sock = Legs
  /\ q.sock[Other(c)] = p.sock[Other(c)] /\ q.socks = p.socks /\ q.fatal = p.fatal
  /\ IsSock(q.sock[c]) /\ BaseSock(q.sock[c]) /\ Heard(q)
  /\ p.sock[c].st = "open" \/ q.sock[c].st = p.sock[c].st

LEMMA OutsideInv ==
  ASSUME NEW p, PairInv(p), NEW c \in Legs, NEW q, Outside(p, q, c) PROVE PairInv(q)
<1>o. PICK o : o = Other(c)
  OBVIOUS
<1>0. o \in Legs /\ (\A d \in Legs : d = c \/ d = o) /\ Base(p) /\ Shaped(p)
  BY <1>o, Others DEF PairInv, Base
<1>1. /\ PairFields \subseteq DOMAIN q /\ q.leg = p.leg /\ DOMAIN q.sock = Legs
      /\ q.sock[o] = p.sock[o] /\ q.socks = p.socks /\ q.fatal = p.fatal
      /\ IsSock(q.sock[c]) /\ BaseSock(q.sock[c]) /\ Heard(q)
      /\ p.sock[c].st = "open" \/ q.sock[c].st = p.sock[c].st
  BY <1>o DEF Outside
<1>2. Shaped(q)
  <2>1. \A d \in Legs : IsLeg(q.leg[d]) /\ IsSock(q.sock[d])
    BY <1>0, <1>1 DEF Shaped
  <2> QED
    BY <1>0, <1>1, <2>1 DEF Shaped
<1>3. Quiet(q)
  <2>1. p.sock["remote"].st = "none" => q.sock["remote"].st = "none"
    BY <1>0, <1>1 DEF Legs
  <2> QED
    BY <1>0, <1>1, <2>1 DEF Quiet, Base
<1>4. Base(q)
  BY <1>0, <1>1, <1>2, <1>3 DEF Base
<1>5. \A d \in Legs : LastRead(q, d) /\ Told(q.leg[d])
  BY <1>1 DEF PairInv, LastRead
<1> QED
  BY <1>4, <1>5 DEF PairInv

\* A line is what the socket has not delivered and all that is behind it.
Rest(p, c) == p.leg[Other(c)].pipe \o (Buffered(p.leg[Other(c)]) \o DataIn(p.sock[c].rx))
LEMMA LineParts ==
  ASSUME NEW p, Base(p), NEW c \in Legs
  PROVE  /\ Line(p, c) = p.sock[Other(c)].tx \o Rest(p, c)
         /\ Rest(p, c) \in Units /\ p.sock[Other(c)].tx \in Units /\ Line(p, c) \in Units
<1>a. PICK a : a = p.leg[Other(c)].pipe
  OBVIOUS
<1>b. PICK b : b = Buffered(p.leg[Other(c)])
  OBVIOUS
<1>i. PICK i : i = DataIn(p.sock[c].rx)
  OBVIOUS
<1>t. PICK t : t = p.sock[Other(c)].tx
  OBVIOUS
<1>w. PICK w : w = a \o (b \o i)
  OBVIOUS
<1>1. a \in Units /\ b \in Units /\ i \in Units /\ t \in Units
  <2>1. IsLeg(p.leg[Other(c)]) /\ IsSock(p.sock[Other(c)]) /\ IsSock(p.sock[c])
    BY Others DEF Base, Shaped
  <2> QED
    BY <1>a, <1>b, <1>i, <1>t, <2>1, BufferedFacts, DataFacts DEF IsSock
<1>2. w \in Units
  <2>1. b \o i \in Units
    BY <1>1, Joined
  <2> QED
    BY <1>1, <1>w, <2>1, Joined
<1>3. t \o w \in Units
  BY <1>1, <1>2, Joined
<1>4. Rest(p, c) = w /\ Line(p, c) = t \o w
  BY <1>a, <1>b, <1>i, <1>t, <1>w DEF Rest, Line
<1> QED
  BY <1>1, <1>2, <1>3, <1>4, <1>t

LEMMA RestSame ==
  ASSUME NEW p, NEW q, NEW c, q.leg = p.leg, DataIn(q.sock[c].rx) = DataIn(p.sock[c].rx)
  PROVE  Rest(q, c) = Rest(p, c)
  BY DEF Rest

Longer(x, y, v) ==
  /\ y \in Units /\ v \in Units /\ AllUnits(y) /\ Len(y) = Len(x) + 1
  /\ DataIn(x) = x /\ DataIn(y) = x \o v
LEMMA UnitIn ==
  ASSUME NEW x \in Units, AllUnits(x), NEW u \in Nat, u < FirstMessage,
         NEW y, y = Append(x, u), NEW v, v = <<u>>
  PROVE  Longer(x, y, v)
<1>1. /\ x \in Seq(Nat) /\ y \in Units /\ v \in Units /\ Len(x) \in Nat /\ Len(y) = Len(x) + 1
      /\ y[Len(x) + 1] = u /\ \A i \in 1..Len(x) : y[i] = x[i]
  BY DEF Units
<1>2. DOMAIN x = 1..Len(x) /\ DOMAIN y = 1..(Len(x) + 1)
  BY <1>1 DEF Units
<1>3. AllUnits(y)
  BY <1>1, <1>2 DEF AllUnits
<1>4. ASSUME NEW s \in Units, AllUnits(s) PROVE DataIn(s) = s
  <2>1. s # <<>> => 1 \in DOMAIN s
    BY EmptySeq DEF Units
  <2>2. s # <<>> => s[1] < FirstMessage
    BY <1>4, <2>1 DEF AllUnits
  <2> QED
    BY <2>2, BelowFacts
<1>5. y = x \o v
  BY DEF Units
<1> QED
  BY <1>1, <1>3, <1>4, <1>5 DEF Longer

LEMMA ExactNext ==
  ASSUME NEW s \in Units, NEW n \in Nat, NEW lost, Exact(s, n, lost),
         NEW u, u = n + 1, NEW v, v = <<u>>
  PROVE  Exact(s \o v, u, lost)
<1>w. PICK w : w = s \o v
  OBVIOUS
<1>1. v \in Units /\ Len(v) = 1 /\ v[1] = u
  BY DEF Units
<1>2. IsCat(w, s, v)
  BY <1>w, <1>1, CatFacts
<1>3. /\ Len(s) \in Nat /\ DOMAIN s = 1..Len(s) /\ DOMAIN w = 1..(Len(s) + 1)
      /\ w[Len(s) + 1] = u /\ \A i \in 1..Len(s) : w[i] = s[i]
  BY <1>1, <1>2 DEF IsCat, Units
<1>4. /\ lost \subseteq 1..n /\ Elements(s) = (1..n) \ lost
      /\ \A i, j \in DOMAIN s : i < j => s[i] < s[j]
  BY DEF Exact
<1>5. \A i \in DOMAIN s : s[i] \in 1..n
  BY <1>4 DEF Elements
<1>6. Elements(w) = Elements(s) \cup {u}
  <2>1. \A i \in DOMAIN w : w[i] \in Elements(s) \cup {u}
    BY <1>3 DEF Elements
  <2>2. u \in Elements(w)
    BY <1>3 DEF Elements
  <2>3. Elements(s) \subseteq Elements(w)
    BY <1>3 DEF Elements
  <2> QED
    BY <2>1, <2>2, <2>3 DEF Elements
<1>7. lost \subseteq 1..u /\ (1..u) \ lost = ((1..n) \ lost) \cup {u}
  <2>1. \A i : i \in 1..u <=> i \in 1..n \/ i = u
    OBVIOUS
  <2>2. u \notin 1..n
    OBVIOUS
  <2> QED
    BY <1>4, <2>1, <2>2
<1>8. \A i, j \in DOMAIN w : i < j => w[i] < w[j]
  <2> SUFFICES ASSUME NEW i \in DOMAIN w, NEW j \in DOMAIN w, i < j PROVE w[i] < w[j]
    OBVIOUS
  <2>1. i \in DOMAIN s /\ w[i] = s[i] /\ s[i] \in 1..n
    BY <1>3, <1>5
  <2>2. CASE j \in DOMAIN s
    <3>1. w[j] = s[j] /\ s[i] < s[j]
      BY <1>3, <1>4, <2>1, <2>2
    <3> QED
      BY <2>1, <3>1
  <2>3. CASE j \notin DOMAIN s
    <3>1. j = Len(s) + 1
      BY <1>3, <2>3
    <3> QED
      BY <1>3, <2>1, <3>1
  <2> QED
    BY <2>2, <2>3
<1>9. w \in Units
  BY <1>2 DEF IsCat
<1> QED
  BY <1>w, <1>4, <1>6, <1>7, <1>8, <1>9 DEF Exact

LEMMA AppendJoins ==
  ASSUME NEW g \in Units, NEW u \in Nat
  PROVE  Append(g, u) = g \o <<u>> /\ Append(g, u) \in Units
  BY DEF Units

LEMMA HeadTail ==
  ASSUME NEW s \in Units, s # <<>>
  PROVE  /\ <<Head(s)>> \in Units /\ Tail(s) \in Units /\ <<Head(s)>> \o Tail(s) = s
         /\ Len(Tail(s)) = Len(s) - 1 /\ Head(s) \in Nat
<1>v. PICK v : v = <<Head(s)>>
  OBVIOUS
<1>t. PICK t : t = Tail(s)
  OBVIOUS
<1>1. /\ Head(s) \in Nat /\ t \in Seq(Nat) /\ Len(t) = Len(s) - 1
      /\ \A i \in 1..Len(t) : t[i] = s[i + 1]
  BY <1>t, HeadTailProperties DEF Units
<1>2. v \in Units /\ Len(v) = 1 /\ v[1] = s[1]
  BY <1>1, <1>v DEF Units
<1>3. t \in Units
  BY <1>1 DEF Units
<1>w. PICK w : w = v \o t
  OBVIOUS
<1>4. IsCat(w, v, t)
  BY <1>2, <1>3, <1>w, CatFacts
<1>5. Len(s) \in Nat /\ Len(w) = Len(s)
  BY <1>1, <1>2, <1>4 DEF IsCat, Units
<1>6. ASSUME NEW i \in 1..Len(s) PROVE w[i] = s[i]
  <2>1. w[1] = s[1]
    BY <1>2, <1>4 DEF IsCat
  <2>2. CASE i # 1
    <3>0. PICK j \in Int : i = 1 + j
      BY <1>5, Offset
    <3>1. j \in 1..Len(t)
      BY <1>1, <1>5, <2>2, <3>0
    <3>2. w[Len(v) + j] = t[j]
      BY <1>4, <3>1 DEF IsCat
    <3>3. t[j] = s[j + 1]
      BY <1>1, <3>1
    <3>4. Len(v) + j = i /\ j + 1 = i
      BY <1>2, <3>0
    <3> QED
      BY <3>2, <3>3, <3>4
  <2> QED
    BY <2>1, <2>2
<1>7. w = s
  BY <1>4, <1>5, <1>6, SeqEqual DEF IsCat, Units
<1> QED
  BY <1>1, <1>2, <1>3, <1>t, <1>v, <1>w, <1>7

WithSock(p, c, t) == [p EXCEPT !.sock[c] = t]
LEMMA SetSock ==
  ASSUME NEW p, Shaped(p), NEW c \in Legs, NEW t, NEW q, q = WithSock(p, c, t)
  PROVE  /\ DOMAIN q = DOMAIN p /\ q.leg = p.leg /\ DOMAIN q.sock = Legs /\ q.sock[c] = t
         /\ q.sock[Other(c)] = p.sock[Other(c)] /\ q.socks = p.socks /\ q.fatal = p.fatal
         /\ q.lost = p.lost /\ q.ok = p.ok
<1>1. Other(c) \in Legs /\ Other(c) # c /\ PairFields \subseteq DOMAIN p /\ DOMAIN p.sock = Legs
  BY Others DEF Shaped
<1> QED
  BY <1>1 DEF PairFields, WithSock

\* A unit or a message reaches the receive buffer of a socket.
Refill(s, y) == [s EXCEPT !.rx = y]
WithRx(p, c, y) == [p EXCEPT !.sock[c].rx = y]
MayHold(p, c, y) ==
  /\ y \in Units /\ Len(y) <= RxCap
  /\ \/ AllUnits(y)
     \/ c = "local" /\ Len(y) = 1 /\ p.socks \in {"handshake", "request"}
LEMMA ReceivedOutside ==
  ASSUME NEW p, PairInv(p), NEW c \in Legs, p.sock[c].st = "open",
         NEW y, MayHold(p, c, y), NEW q, q = WithRx(p, c, y)
  PROVE  /\ Outside(p, q, c) /\ q.lost = p.lost /\ q.ok = p.ok
         /\ q.sock[c].rx = y /\ q.sock[c].tx = p.sock[c].tx
<1>s. PICK s : s = p.sock[c]
  OBVIOUS
<1>t. PICK t : t = Refill(s, y)
  OBVIOUS
<1>0. Base(p) /\ Shaped(p) /\ IsSock(s) /\ s.st = "open" /\ SockFields \subseteq DOMAIN s
  BY <1>s DEF PairInv, Base, Shaped, IsSock
<1>1. DOMAIN t = DOMAIN s /\ t.rx = y /\ t.tx = s.tx /\ t.st = s.st
  BY <1>0, <1>t DEF Refill, SockFields
<1>2. q = WithSock(p, c, t)
  BY <1>0, <1>s, <1>t DEF Refill, Shaped, PairFields, WithSock, WithRx
<1>3. /\ DOMAIN q = DOMAIN p /\ q.leg = p.leg /\ DOMAIN q.sock = Legs /\ q.sock[c] = t
      /\ q.sock[Other(c)] = p.sock[Other(c)] /\ q.socks = p.socks /\ q.fatal = p.fatal
      /\ q.lost = p.lost /\ q.ok = p.ok
  <2>1. Shaped(p) /\ q = WithSock(p, c, t)
    BY <1>0, <1>2
  <2> QED
    BY <2>1, SetSock
<1>4. IsSock(t) /\ BaseSock(t)
  BY <1>0, <1>1 DEF IsSock, BaseSock, MayHold
<1>5. Heard(q)
  <2>1. CASE c = "remote"
    <3>1. Other(c) = "local" /\ AllUnits(y)
      BY <2>1 DEF Other, MayHold
    <3> QED
      BY <1>0, <1>1, <1>3, <2>1, <3>1 DEF Heard, Base
  <2>2. CASE c = "local"
    <3>1. Other(c) = "remote"
      BY <2>2 DEF Other
    <3> QED
      BY <1>0, <1>1, <1>3, <2>2, <3>1 DEF Heard, Base, MayHold
  <2> QED
    BY <2>1, <2>2 DEF Legs
<1>6. Outside(p, q, c)
  BY <1>0, <1>1, <1>3, <1>4, <1>5, <1>s DEF Outside, Shaped
<1> QED
  BY <1>1, <1>3, <1>6, <1>s

\* A unit of leg c goes to the end of its line, and the other line stays.
SentOn(p, q, c, v) == Line(q, c) = Line(p, c) \o v /\ Line(q, Other(c)) = Line(p, Other(c))
LEMMA UnitSent ==
  ASSUME NEW p, Base(p), NEW c \in Legs, NEW q, q.leg = p.leg,
         q.sock[Other(c)] = p.sock[Other(c)], q.sock[c].tx = p.sock[c].tx,
         NEW v \in Units, NEW x \in Units,
         DataIn(p.sock[c].rx) = x, DataIn(q.sock[c].rx) = x \o v
  PROVE  SentOn(p, q, c, v)
<1>o. PICK o : o = Other(c)
  OBVIOUS
<1>0. o \in Legs /\ Other(o) = c
  BY <1>o, Others
<1>a. PICK a : a = p.leg[o].pipe
  OBVIOUS
<1>b. PICK b : b = Buffered(p.leg[o])
  OBVIOUS
<1>t. PICK t : t = p.sock[o].tx
  OBVIOUS
<1>w. PICK w : w = t \o (a \o b)
  OBVIOUS
<1>y. PICK y : y = x \o v
  OBVIOUS
<1>1. a \in Units /\ b \in Units /\ t \in Units /\ y \in Units
  <2>1. IsLeg(p.leg[o]) /\ IsSock(p.sock[o])
    BY <1>0 DEF Base, Shaped
  <2> QED
    BY <1>a, <1>b, <1>t, <1>y, <2>1, BufferedFacts, Joined DEF IsSock
<1>2. AsOne(t, a, b, w)
  BY <1>1, <1>w, Regroup3
<1>3. Line(p, c) = t \o (a \o (b \o x)) /\ Line(q, c) = t \o (a \o (b \o y))
  BY <1>a, <1>b, <1>t, <1>o, <1>y DEF Line
<1>4. w \in Units /\ Line(p, c) = w \o x /\ Line(q, c) = w \o y
  BY <1>1, <1>2, <1>3 DEF AsOne
<1>5. (w \o x) \o v = w \o (x \o v)
  <2>1. Same(w, x, v)
    BY <1>4, Regroup, Zenon
  <2> QED
    BY <2>1 DEF Same
<1>6. Line(q, o) = Line(p, o)
  BY <1>0, <1>o DEF Line
<1> QED
  BY <1>4, <1>5, <1>6, <1>o, <1>y DEF SentOn

\* A unit of leg o is delivered to the peer of leg c.
HandsOver(s, x, g, h) == s # <<>> /\ x = Tail(s) /\ h = Append(g, Head(s))
HandedOver(p, q, c, g, h) ==
  /\ h \in Units /\ h \o Line(q, Other(c)) = g \o Line(p, Other(c))
  /\ Line(q, c) = Line(p, c)
LEMMA UnitDelivered ==
  ASSUME NEW p, Base(p), NEW c \in Legs, NEW q, q.leg = p.leg,
         q.sock[Other(c)] = p.sock[Other(c)], q.sock[c].rx = p.sock[c].rx,
         NEW s, s = p.sock[c].tx, NEW t, t = q.sock[c].tx,
         NEW g \in Units, NEW h, HandsOver(s, t, g, h)
  PROVE  HandedOver(p, q, c, g, h)
<1>o. PICK o : o = Other(c)
  OBVIOUS
<1>0. o \in Legs /\ Other(o) = c
  BY <1>o, Others
<1>v. PICK v : v = <<Head(s)>>
  OBVIOUS
<1>p. t = Tail(s) /\ s # <<>> /\ h = Append(g, Head(s))
  BY DEF HandsOver
<1>k. PICK k : k = Rest(p, o)
  OBVIOUS
<1>1. Line(p, o) = s \o k /\ k \in Units /\ s \in Units
  BY <1>0, <1>k, LineParts
<1>2. v \in Units /\ t \in Units /\ v \o t = s /\ Head(s) \in Nat
  BY <1>1, <1>v, <1>p, HeadTail
<1>3. Line(q, o) = t \o k
  <2>1. q.sock[o] = p.sock[o]
    BY <1>o
  <2>2. Rest(q, o) = Rest(p, o)
    BY <2>1, RestSame
  <2>3. Line(q, o) = q.sock[c].tx \o Rest(q, o)
    BY <1>0 DEF Line, Rest
  <2> QED
    BY <1>k, <2>2, <2>3
<1>4. h = g \o v /\ h \in Units
  <2>u. PICK u : u = Head(s)
    OBVIOUS
  <2>1. u \in Nat /\ h = Append(g, u) /\ v = <<u>>
    BY <1>2, <1>p, <1>v, <2>u
  <2> QED
    BY <2>1, AppendJoins
<1>5. h \o Line(q, o) = g \o Line(p, o)
  <2>a. PICK a : a = t \o k
    OBVIOUS
  <2>1. a \in Units
    BY <1>1, <1>2, <2>a, Joined
  <2>2. (g \o v) \o a = g \o (v \o a)
    <3>1. Same(g, v, a)
      BY <1>2, <2>1, Regroup, Zenon
    <3> QED
      BY <3>1 DEF Same
  <2>3. (v \o t) \o k = v \o (t \o k)
    <3>1. Same(v, t, k)
      BY <1>1, <1>2, Regroup, Zenon
    <3> QED
      BY <3>1 DEF Same
  <2> QED
    BY <1>1, <1>2, <1>3, <1>4, <2>a, <2>2, <2>3
<1>6. Line(q, c) = Line(p, c)
  BY <1>o DEF Line
<1> QED
  BY <1>4, <1>5, <1>6, <1>o DEF HandedOver

\* A reset takes the units that were written and not delivered with it.
Broke(s) == [s EXCEPT !.st = "reset", !.err = TRUE, !.tx = <<>>]
LEMMA ResetGood ==
  ASSUME NEW p, PairInv(p), NEW c \in Legs, p.sock[c].st = "open", NEW why,
         NEW s, s = p.sock[c], NEW a, a = Lose(p, Other(c), s.tx, why),
         NEW t, t = Broke(s),
         NEW q, q = WithSock(a, c, t)
  PROVE  Outside(p, q, c) /\ Conserves(p, q) /\ q.ok = p.ok
<1>o. PICK o : o = Other(c)
  OBVIOUS
<1>e. PICK e : e = <<>>
  OBVIOUS
<1>0. /\ o \in Legs /\ o # c /\ Other(o) = c /\ Base(p) /\ Shaped(p) /\ IsSock(s)
      /\ PairFields \subseteq DOMAIN p /\ \A d \in Legs : d = c \/ d = o
  BY <1>o, Others DEF PairInv, Base, Shaped
<1>1. /\ DOMAIN a = DOMAIN p /\ a.leg = p.leg /\ a.sock = p.sock /\ a.socks = p.socks
      /\ a.fatal = p.fatal /\ a.ok = p.ok
      /\ LostOf(a, o) = LostOf(p, o) \cup Below(s.tx) /\ LostOf(a, c) = LostOf(p, c)
  BY <1>0, <1>o, LoseFacts
<1>2. /\ DOMAIN t = DOMAIN s /\ t.st = "reset" /\ t.rx = s.rx /\ t.tx = e
  BY <1>0, <1>e DEF IsSock, SockFields, Broke
<1>3. /\ DOMAIN q = DOMAIN a /\ q.leg = a.leg /\ DOMAIN q.sock = Legs /\ q.sock[c] = t
      /\ q.sock[o] = a.sock[o] /\ q.socks = a.socks /\ q.fatal = a.fatal
      /\ q.lost = a.lost /\ q.ok = a.ok
  <2>1. Shaped(a)
    BY <1>0, <1>1 DEF Shaped
  <2> QED
    BY <1>o, <2>1, SetSock
<1>4. e \in Units /\ Len(e) = 0 /\ TxCap \in Nat
  BY <1>e, CapAssumption DEF Units
<1>5. IsSock(t) /\ BaseSock(t)
  BY <1>0, <1>2, <1>4 DEF IsSock, BaseSock
<1>6. Heard(q)
  <2>1. q.sock[c].rx = p.sock[c].rx /\ q.sock[o].rx = p.sock[o].rx
    BY <1>1, <1>2, <1>3
  <2>2. "local" \in Legs /\ "remote" \in Legs /\ \A d \in Legs : d = c \/ d = o
    BY <1>0 DEF Legs
  <2>3. q.sock["remote"].rx = p.sock["remote"].rx /\ q.sock["local"].rx = p.sock["local"].rx
    BY <2>1, <2>2
  <2> QED
    BY <1>0, <1>1, <1>3, <2>3 DEF Heard, Base
<1>7. Outside(p, q, c)
  BY <1>0, <1>1, <1>3, <1>5, <1>6, <1>o DEF Outside
<1>8. LostOf(q, o) = LostOf(a, o) /\ LostOf(q, c) = LostOf(a, c)
  BY <1>3 DEF LostOf
<1>9. Saves(p, q, c)
  <2>1. Line(q, c) = Line(p, c)
    BY <1>1, <1>2, <1>3, <1>o DEF Line
  <2> QED
    BY <1>1, <1>8, <2>1, SavesSame
<1>10. Saves(p, q, o)
  <2>k. PICK k : k = Rest(p, o)
    OBVIOUS
  <2>y. PICK y : y = s.tx
    OBVIOUS
  <2>1. Line(p, o) = y \o k /\ k \in Units /\ y \in Units
    BY <1>0, <2>k, <2>y, LineParts
  <2>2. Line(q, o) = e \o k
    <3>1. Rest(q, o) = Rest(p, o)
      <4>1. q.leg = p.leg /\ q.sock[o] = p.sock[o]
        BY <1>1, <1>3
      <4>2. DataIn(q.sock[o].rx) = DataIn(p.sock[o].rx)
        BY <4>1
      <4> QED
        BY <4>1, <4>2, RestSame
    <3>2. Line(q, o) = q.sock[c].tx \o Rest(q, o)
      BY <1>0 DEF Line, Rest
    <3> QED
      BY <1>2, <1>3, <2>k, <3>1, <3>2
  <2>3. y \o k \in Units
    BY <2>1, Joined
  <2>4. e \o (y \o k) = y \o k
    BY <1>e, <2>3, Joined
  <2>5. LostOf(q, o) = LostOf(p, o) \cup Below(y)
    BY <1>1, <1>8, <2>y
  <2> QED
    BY <1>4, <2>1, <2>2, <2>4, <2>5, SavesLess
<1>11. Conserves(p, q)
  BY <1>0, <1>9, <1>10 DEF Conserves
<1> QED
  BY <1>1, <1>3, <1>7, <1>11

-----------------------------------------------------------------------------
\* What the client and the server got, with the line behind it, is what the
\* other one sent; an end that was handled is not in the batch again.
PeerFields == {"sent", "fin", "got", "eof", "rst"}
Peered(e) ==
  /\ DOMAIN e = Legs
  /\ \A c \in Legs : /\ PeerFields \subseteq DOMAIN e[c]
                     /\ e[c].sent \in 0..Sends[c] /\ e[c].got \in Units
Arrives(p, e, c) == Exact(e[Other(c)].got \o Line(p, c), e[c].sent, LostOf(p, c))
Awaits(p, b) == \A d \in Legs : d \in DOMAIN b /\ "rdhup" \in b[d] => p.leg[d].st # "rdhup"
Served(p, j) == "attached" \in DOMAIN j /\ (j.attached => p.leg["local"].st # "none")
Holds(p, b, j, e) ==
  /\ PairInv(p) /\ p.ok = TRUE
  /\ Awaits(p, b) /\ DOMAIN b \subseteq Legs \cup {"resolver"}
  /\ Served(p, j)
  /\ Peered(e) /\ \A c \in Legs : Arrives(p, e, c)
ProxyInv == Holds(pair, batch, job, peer)

LEMMA HoldsNext ==
  ASSUME Holds(pair', batch', job', peer') PROVE ProxyInv'
  BY DEF ProxyInv

LEMMA PeerCounts ==
  ASSUME NEW e, Peered(e), NEW c \in Legs
  PROVE  /\ e[c].sent \in Nat /\ e[c].sent \in 0..(FirstMessage - 1)
         /\ e[c].got \in Units /\ e[Other(c)].got \in Units
<1>1. Sends[c] \in 0..(FirstMessage - 1) /\ FirstMessage = 100
  BY ProxyAssumption DEF FirstMessage
<1>2. e[c].sent \in 0..Sends[c] /\ e[c].got \in Units /\ e[Other(c)].got \in Units
  BY Others DEF Peered
<1> QED
  BY <1>1, <1>2

LEMMA ConservedArrives ==
  ASSUME NEW p, NEW q, Conserves(p, q), NEW e, Peered(e), NEW c \in Legs, Arrives(p, e, c)
  PROVE  Arrives(q, e, c)
<1>g. PICK g : g = e[Other(c)].got
  OBVIOUS
<1>n. PICK n : n = e[c].sent
  OBVIOUS
<1>1. g \in Units /\ n \in 0..(FirstMessage - 1)
  BY <1>g, <1>n, PeerCounts
<1>2. Exact(g \o Line(p, c), n, LostOf(p, c))
  BY <1>g, <1>n DEF Arrives
<1>3. Saves(p, q, c)
  BY DEF Conserves
<1>4. Exact(g \o Line(q, c), n, LostOf(q, c))
  BY <1>1, <1>2, <1>3 DEF Saves
<1> QED
  BY <1>g, <1>n, <1>4 DEF Arrives

LEMMA InitHolds ==
  ASSUME Init PROVE ProxyInv
<1>e. PICK e : e = <<>>
  OBVIOUS
<1>z. PICK z : z = 0
  OBVIOUS
<1>x. PICK x : x = {}
  OBVIOUS
<1>1. Started(pair)
  <2>1. PICK set \in Settings : pair = AddTcpConnection(set)
    BY DEF Init
  <2> QED
    BY <2>1, AddStarts
<1>2. PairInv(pair) /\ \A c \in Legs : Line(pair, c) = e /\ LostOf(pair, c) = x
  BY <1>1, <1>e, <1>x, StartedInv
<1>3. DOMAIN batch = {}
  BY DEF Init, NoBatch
<1>4. Served(pair, job)
  BY DEF Init, NoJob, Served
<1>5. Peered(peer) /\ \A c \in Legs : peer[c].sent = z /\ peer[c].got = e
  <2>0. e \in Units /\ z \in Nat /\ \A c \in Legs : z \in 0..Sends[c]
    BY <1>e, <1>z, ProxyAssumption DEF Units
  <2>1. DOMAIN peer = Legs /\ \A c \in Legs : peer[c] = Silent
    BY DEF Init
  <2>2. Silent.sent = z /\ Silent.got = e /\ DOMAIN Silent = PeerFields
    BY <1>e, <1>z DEF Silent, PeerFields
  <2> QED
    BY <2>0, <2>1, <2>2 DEF Peered
<1>6. ASSUME NEW c \in Legs PROVE Arrives(pair, peer, c)
  <2>0. e \in Units
    BY <1>e DEF Units
  <2>1. e \o e = e
    BY <1>e, <2>0, Joined
  <2>2. Exact(e, z, x)
    BY <1>e, <1>z, <1>x DEF Exact, Units, Elements
  <2>3. peer[Other(c)].got = e /\ peer[c].sent = z
    BY <1>5, Others
  <2> QED
    BY <1>2, <2>1, <2>2, <2>3 DEF Arrives
<1>7. pair.ok = TRUE
  BY <1>1 DEF Started
<1> QED
  BY <1>2, <1>3, <1>4, <1>5, <1>6, <1>7 DEF ProxyInv, Holds, Awaits

\* What an event's handler leaves to the loop, and what the loop makes of it.
Handled(p, q, x) ==
  /\ PairInv(q) /\ Conserves(p, q)
  /\ \A d \in Legs : q.leg[d].st = "rdhup" => p.leg[d].st = "rdhup" \/ d = x
LeftOf(b, x) == [y \in DOMAIN b \ {x} |-> b[y]]
LEMMA AwaitsLeft ==
  ASSUME NEW p, NEW q, NEW x, Handled(p, q, x), NEW b, Awaits(p, b), NEW a, a = LeftOf(b, x)
  PROVE  Awaits(q, a)
<1>1. \A d \in DOMAIN a : d \in DOMAIN b /\ d # x /\ a[d] = b[d]
  BY DEF LeftOf
<1>2. \A d \in Legs : q.leg[d].st = "rdhup" => p.leg[d].st = "rdhup" \/ d = x
  BY DEF Handled
<1> QED
  BY <1>1, <1>2 DEF Awaits

LEMMA TurnHolds ==
  ASSUME ProxyInv, NEW p, NEW x, Handled(pair, p, x), x \in DOMAIN batch, Turn(x, p),
         NEW q, q = pair', NEW b, b = batch'
  PROVE  /\ PairInv(q) /\ q.ok = TRUE /\ Conserves(pair, q)
         /\ Awaits(q, b) /\ DOMAIN b \subseteq Legs \cup {"resolver"}
         /\ Alive(p, "local") => Alive(q, "local")
<1>a. PICK a : a = LeftOf(batch, x)
  OBVIOUS
<1>1. b = a /\ Awaits(pair, batch) /\ DOMAIN batch \subseteq Legs \cup {"resolver"}
  BY <1>a DEF Turn, Left, LeftOf, ProxyInv, Holds
<1>2. DOMAIN a = DOMAIN batch \ {x}
  BY <1>a DEF LeftOf
<1>3. PairInv(p) /\ Conserves(pair, p)
  BY DEF Handled
<1>4. CASE DOMAIN batch = {x}
  <2>1. PICK late : q = [EndOfTurn(p, late) EXCEPT !.ok = TRUE]
    BY <1>4 DEF Turn
  <2>r. PICK r : r = EndOfTurn(p, late)
    OBVIOUS
  <2>2. Leaves(p, r)
    BY <1>3, <2>r, EndLeaves
  <2>3. PairInv(r) /\ q = [r EXCEPT !.ok = TRUE]
    BY <2>1, <2>2, <2>r DEF Leaves
  <2>4. PairInv(q) /\ Conserves(r, q) /\ q.ok = TRUE /\ q.leg = r.leg
    BY <2>3, OkStill
  <2>5. Conserves(pair, r)
    BY <1>3, <2>2, SavesThen DEF Leaves
  <2>6. Conserves(pair, q)
    BY <2>4, <2>5, SavesThen
  <2>7. Awaits(q, b)
    BY <1>1, <1>2, <1>4 DEF Awaits
  <2>8. Alive(p, "local") => Alive(q, "local")
    BY <2>2, <2>4 DEF Leaves, Alive
  <2> QED
    BY <1>1, <1>2, <2>4, <2>6, <2>7, <2>8
<1>5. CASE DOMAIN batch # {x}
  <2>1. q = [p EXCEPT !.ok = TRUE]
    BY <1>5 DEF Turn
  <2>2. PairInv(q) /\ Conserves(p, q) /\ q.ok = TRUE /\ q.leg = p.leg
    BY <1>3, <2>1, OkStill
  <2>3. Conserves(pair, q)
    BY <1>3, <2>2, SavesThen
  <2>4. Awaits(p, a)
    BY <1>1, <1>a, AwaitsLeft
  <2>5. Awaits(q, b)
    BY <1>1, <2>2, <2>4 DEF Awaits
  <2>6. Alive(p, "local") => Alive(q, "local")
    BY <2>2 DEF Alive
  <2> QED
    BY <1>1, <1>2, <2>2, <2>3, <2>5, <2>6
<1> QED
  BY <1>4, <1>5

-----------------------------------------------------------------------------
\* The program's actions.
LEMMA HandleLegKeeps ==
  ASSUME ProxyInv, NEW c \in Legs, HandleLeg(c) PROVE ProxyInv'
<1>q. PICK q : q = pair'
  OBVIOUS
<1>b. PICK b : b = batch'
  OBVIOUS
<1>e. PICK e : e = batch[c]
  OBVIOUS
<1>1. c \in DOMAIN batch /\ peer' = peer
  BY DEF HandleLeg
<1>2. /\ PairInv(pair) /\ pair.ok = TRUE /\ Awaits(pair, batch) /\ Served(pair, job) /\ Peered(peer)
      /\ \A d \in Legs : Arrives(pair, peer, d)
  BY DEF ProxyInv, Holds
<1>p. PICK p, how : p = LegEvent(pair, c, e, how) /\ Turn(c, p) /\ QueueJob(p)
  BY <1>e DEF HandleLeg
<1>3. "rdhup" \in e => pair.leg[c].st # "rdhup"
  BY <1>1, <1>2, <1>e DEF Awaits
<1>4. Done(pair, p, c)
  BY <1>2, <1>3, <1>p, LegEventDone
<1>5. Handled(pair, p, c)
  BY <1>4 DEF Done, Handled
<1>6. /\ PairInv(q) /\ q.ok = TRUE /\ Conserves(pair, q)
      /\ Awaits(q, b) /\ DOMAIN b \subseteq Legs \cup {"resolver"}
      /\ Alive(p, "local") => Alive(q, "local")
  BY <1>1, <1>5, <1>p, <1>q, <1>b, TurnHolds
<1>7. Served(q, job')
  <2>1. CASE p.socks = "resolve" /\ pair.socks = "request"
    <3>1. job' = [st |-> "queued", attached |-> TRUE, ok |-> FALSE]
      BY <1>p, <2>1 DEF QueueJob
    <3>2. Alive(p, "local")
      BY <1>4, <2>1 DEF Done
    <3>3. q.leg["local"].st # "none"
      BY <1>6, <3>2 DEF Alive
    <3> QED
      BY <3>1, <3>3 DEF Served
  <2>2. CASE ~(p.socks = "resolve" /\ pair.socks = "request")
    <3>1. job' = IF q.leg["local"].st = "none" THEN [job EXCEPT !.attached = FALSE] ELSE job
      BY <1>p, <1>q, <2>2 DEF QueueJob
    <3>2. "attached" \in DOMAIN job
      BY <1>2 DEF Served
    <3> QED
      BY <3>1, <3>2 DEF Served
  <2> QED
    BY <2>1, <2>2
<1>8. ASSUME NEW d \in Legs PROVE Arrives(q, peer, d)
  BY <1>2, <1>6, ConservedArrives
<1>9. Holds(q, b, job', peer')
  BY <1>1, <1>2, <1>6, <1>7, <1>8 DEF Holds
<1> QED
  BY <1>9, <1>q, <1>b, HoldsNext

LEMMA HandleResolverKeeps == ASSUME ProxyInv, HandleResolver PROVE ProxyInv'
<1>q. PICK q : q = pair'
  OBVIOUS
<1>b. PICK b : b = batch'
  OBVIOUS
<1>x. PICK x : x = "resolver"
  OBVIOUS
<1>1. x \in DOMAIN batch /\ peer' = peer /\ job' = NoJob
  BY <1>x DEF HandleResolver
<1>2. /\ PairInv(pair) /\ Peered(peer) /\ \A d \in Legs : Arrives(pair, peer, d)
  BY DEF ProxyInv, Holds
<1>p. PICK p, dest : p = ResolverEvent(pair, dest) /\ Turn(x, p)
  BY <1>x DEF HandleResolver
<1>3. Resolved(pair, p)
  BY <1>2, <1>p, ResolverEventResolved
<1>4. Handled(pair, p, x)
  BY <1>3 DEF Resolved, Handled
<1>5. /\ PairInv(q) /\ q.ok = TRUE /\ Conserves(pair, q)
      /\ Awaits(q, b) /\ DOMAIN b \subseteq Legs \cup {"resolver"}
  BY <1>1, <1>4, <1>p, <1>q, <1>b, TurnHolds
<1>6. Served(q, job')
  BY <1>1 DEF Served, NoJob
<1>7. ASSUME NEW d \in Legs PROVE Arrives(q, peer, d)
  BY <1>2, <1>5, ConservedArrives
<1>8. Holds(q, b, job', peer')
  BY <1>1, <1>2, <1>5, <1>6, <1>7 DEF Holds
<1> QED
  BY <1>8, <1>q, <1>b, HoldsNext

LEMMA WaitKeeps == ASSUME ProxyInv, Wait PROVE ProxyInv'
<1>b. PICK b : b = batch'
  OBVIOUS
<1>1. /\ PairInv(pair) /\ pair.ok = TRUE /\ Served(pair, job) /\ Peered(peer)
      /\ \A d \in Legs : Arrives(pair, peer, d)
  BY DEF ProxyInv, Holds
<1>2. pair' = pair /\ job' = job /\ peer' = peer
  BY DEF Wait
<1>3. b = [x \in Ready |-> IF x = "resolver" THEN {"in"}
                           ELSE EventsOf(pair.sock[x], pair.leg[x].mask)]
  BY <1>b DEF Wait
<1>4. DOMAIN b = Ready /\ Ready \subseteq Legs \cup {"resolver"}
  BY <1>3 DEF Ready, ReadyLegs
<1>5. ASSUME NEW d \in Legs, d \in DOMAIN b, "rdhup" \in b[d] PROVE pair.leg[d].st # "rdhup"
  <2>1. d # "resolver"
    BY DEF Legs
  <2>2. b[d] = EventsOf(pair.sock[d], pair.leg[d].mask)
    BY <1>3, <1>4, <1>5, <2>1
  <2>3. "rdhup" \in pair.leg[d].mask
    BY <1>5, <2>2 DEF EventsOf
  <2>4. Told(pair.leg[d])
    BY <1>1 DEF PairInv
  <2> QED
    BY <2>3, <2>4 DEF Told
<1>6. Awaits(pair, b)
  BY <1>5 DEF Awaits
<1>7. Holds(pair', b, job', peer')
  BY <1>1, <1>2, <1>4, <1>6 DEF Holds
<1> QED
  BY <1>7, <1>b, HoldsNext

LEMMA ResolverKeeps == ASSUME ProxyInv, Resolver PROVE ProxyInv'
<1>0. Served(pair, job)
  BY DEF ProxyInv, Holds
<1>1. pair' = pair /\ batch' = batch /\ peer' = peer
  BY DEF Resolver, TakeJob, AnswerJob
<1>2. Served(pair, job')
  <2>1. CASE TakeJob
    BY <1>0, <2>1 DEF TakeJob, Served
  <2>2. CASE AnswerJob
    BY <1>0, <2>2 DEF AnswerJob, Served
  <2> QED
    BY <2>1, <2>2 DEF Resolver
<1>3. Holds(pair', batch', job', peer')
  BY <1>1, <1>2 DEF ProxyInv, Holds
<1> QED
  BY <1>3, HoldsNext

-----------------------------------------------------------------------------
\* The actions of the client, the server and the network.
Remains(p, q) ==
  \A d \in Legs : /\ q.leg[d].st = "rdhup" => p.leg[d].st = "rdhup"
                  /\ q.leg[d].st = "none" => p.leg[d].st = "none"
SameCounts(e, f) ==
  /\ DOMAIN f = Legs
  /\ \A c \in Legs : /\ PeerFields \subseteq DOMAIN f[c]
                     /\ f[c].sent = e[c].sent /\ f[c].got = e[c].got
WithPeer(e, c, x) == [e EXCEPT ![c] = x]

LEMMA OutsideKeeps ==
  ASSUME ProxyInv, NEW q, q = pair', PairInv(q), q.ok = TRUE, Remains(pair, q),
         batch' = batch, job' = job, NEW f, f = peer', Peered(f),
         \A c \in Legs : Arrives(q, f, c)
  PROVE  ProxyInv'
<1>1. Awaits(pair, batch) /\ DOMAIN batch \subseteq Legs \cup {"resolver"} /\ Served(pair, job)
  BY DEF ProxyInv, Holds
<1>2. Awaits(q, batch)
  BY <1>1 DEF Awaits, Remains
<1>3. Served(q, job)
  BY <1>1 DEF Served, Remains, Legs
<1>4. Holds(q, batch, job, f)
  BY <1>1, <1>2, <1>3 DEF Holds
<1> QED
  BY <1>4, HoldsNext

LEMMA CountsSame ==
  ASSUME NEW p, NEW q, Conserves(p, q), NEW e, Peered(e), NEW f, SameCounts(e, f),
         \A c \in Legs : Arrives(p, e, c)
  PROVE  Peered(f) /\ \A c \in Legs : Arrives(q, f, c)
<1>1. Peered(f)
  BY DEF Peered, SameCounts
<1>2. ASSUME NEW c \in Legs PROVE Arrives(p, f, c)
  <2>1. Other(c) \in Legs
    BY Others
  <2>2. f[Other(c)].got = e[Other(c)].got /\ f[c].sent = e[c].sent
    BY <2>1 DEF SameCounts
  <2> QED
    BY <2>2 DEF Arrives
<1>3. \A c \in Legs : Arrives(q, f, c)
  BY <1>1, <1>2, ConservedArrives
<1> QED
  BY <1>1, <1>3

LEMMA PeerSame ==
  ASSUME NEW e, Peered(e), NEW c \in Legs, NEW x, PeerFields \subseteq DOMAIN x,
         x.sent = e[c].sent, x.got = e[c].got, NEW f, f = WithPeer(e, c, x)
  PROVE  SameCounts(e, f)
  BY DEF Peered, SameCounts, WithPeer

\* An action that changes no line, and of the peers but what they have ended.
LEMMA StillKeeps ==
  ASSUME ProxyInv, NEW q, q = pair', Still(pair, q), q.ok = TRUE,
         batch' = batch, job' = job, NEW f, f = peer', SameCounts(peer, f)
  PROVE  ProxyInv'
<1>1. PairInv(pair) /\ Peered(peer) /\ \A c \in Legs : Arrives(pair, peer, c)
  BY DEF ProxyInv, Holds
<1>2. Good(pair, q)
  BY <1>1, StillGood
<1>3. PairInv(q) /\ Conserves(pair, q) /\ Remains(pair, q)
  BY <1>2 DEF Good, Stays, Remains
<1>4. Peered(f) /\ \A c \in Legs : Arrives(q, f, c)
  BY <1>1, <1>3, CountsSame
<1> QED
  BY <1>3, <1>4, OutsideKeeps

LEMMA OutsideRemains ==
  ASSUME NEW p, NEW q, NEW c, Outside(p, q, c) PROVE Remains(p, q)
  BY DEF Outside, Remains

LEMMA FinishKeeps ==
  ASSUME ProxyInv, NEW c \in Legs, Finish(c) PROVE ProxyInv'
<1>q. PICK q : q = pair'
  OBVIOUS
<1>f. PICK f : f = peer'
  OBVIOUS
<1>1. PairInv(pair) /\ Formed(pair) /\ pair.ok = TRUE /\ Peered(peer)
  BY InvFormed DEF ProxyInv, Holds
<1>s. PICK s : s = pair.sock[c]
  OBVIOUS
<1>t. PICK t : t = [s EXCEPT !.rfin = TRUE]
  OBVIOUS
<1>x. PICK x : x = [peer[c] EXCEPT !.fin = TRUE]
  OBVIOUS
<1>2. Shaped(pair) /\ IsSock(s) /\ PairFields \subseteq DOMAIN pair /\ DOMAIN pair.sock = Legs
  BY <1>1, <1>s DEF Formed, Shaped
<1>3. /\ SockFields \subseteq DOMAIN t /\ t.rx = s.rx /\ t.tx = s.tx /\ t.st = s.st
  BY <1>2, <1>t DEF IsSock, SockFields
<1>4. q = WithSock(pair, c, t)
  BY <1>2, <1>q, <1>s, <1>t DEF Finish, WithSock, PairFields
<1>5. /\ DOMAIN q = DOMAIN pair /\ q.leg = pair.leg /\ DOMAIN q.sock = Legs /\ q.sock[c] = t
      /\ q.sock[Other(c)] = pair.sock[Other(c)] /\ q.socks = pair.socks /\ q.fatal = pair.fatal
      /\ q.lost = pair.lost /\ q.ok = pair.ok
  BY <1>2, <1>4, SetSock
<1>6. OnlySock(pair, q, c)
  BY <1>2, <1>5 DEF OnlySock
<1>7. StillSock(pair.sock[c], q.sock[c])
  BY <1>3, <1>5, <1>s DEF StillSock
<1>8. Still(pair, q)
  BY <1>1, <1>6, <1>7, SockStill
<1>9. SameCounts(peer, f)
  <2>1. PeerFields \subseteq DOMAIN x /\ x.sent = peer[c].sent /\ x.got = peer[c].got
    BY <1>1, <1>x DEF Peered, PeerFields
  <2>2. f = WithPeer(peer, c, x)
    BY <1>1, <1>f, <1>x DEF Finish, WithPeer, Peered
  <2> QED
    BY <1>1, <2>1, <2>2, PeerSame
<1>10. batch' = batch /\ job' = job
  BY DEF Finish
<1> QED
  BY <1>1, <1>5, <1>8, <1>9, <1>10, <1>q, <1>f, StillKeeps

\* A socket is replaced by one that moves nothing.
LEMMA SockKeeps ==
  ASSUME ProxyInv, NEW c \in Legs, NEW t, StillSock(pair.sock[c], t),
         NEW q, q = pair', q = WithSock(pair, c, t),
         batch' = batch, job' = job, NEW f, f = peer', SameCounts(peer, f)
  PROVE  ProxyInv'
<1>1. PairInv(pair) /\ Formed(pair) /\ pair.ok = TRUE
  BY InvFormed DEF ProxyInv, Holds
<1>2. Shaped(pair) /\ PairFields \subseteq DOMAIN pair
  BY <1>1 DEF Formed, Shaped
<1>3. /\ DOMAIN q = DOMAIN pair /\ q.leg = pair.leg /\ DOMAIN q.sock = Legs /\ q.sock[c] = t
      /\ q.sock[Other(c)] = pair.sock[Other(c)] /\ q.socks = pair.socks /\ q.fatal = pair.fatal
      /\ q.lost = pair.lost /\ q.ok = pair.ok
  BY <1>2, SetSock
<1>4. OnlySock(pair, q, c)
  BY <1>2, <1>3 DEF OnlySock
<1>5. Still(pair, q)
  BY <1>1, <1>3, <1>4, SockStill
<1> QED
  BY <1>1, <1>3, <1>5, StillKeeps

LEMMA AnswerKeeps == ASSUME ProxyInv, Answer PROVE ProxyInv'
<1>q. PICK q : q = pair'
  OBVIOUS
<1>f. PICK f : f = peer'
  OBVIOUS
<1>c. PICK c : c = "remote"
  OBVIOUS
<1>s. PICK s : s = pair.sock[c]
  OBVIOUS
<1>1. c \in Legs /\ Shaped(pair) /\ Peered(peer)
  BY <1>c DEF ProxyInv, Holds, PairInv, Base, Legs
<1>2. IsSock(s) /\ PairFields \subseteq DOMAIN pair /\ DOMAIN pair.sock = Legs
  BY <1>1, <1>s DEF Shaped
<1>3. s.st = "connecting" /\ batch' = batch /\ job' = job
  BY <1>c, <1>s DEF Answer
<1>p. PICK up \in BOOLEAN :
        /\ q = [pair EXCEPT !.sock[c].st = IF up THEN "open" ELSE "refused",
                            !.sock[c].err = ~up]
        /\ f = [peer EXCEPT ![c].rst = ~up]
  BY <1>c, <1>q, <1>f DEF Answer
<1>t. PICK t : t = [s EXCEPT !.st = IF up THEN "open" ELSE "refused", !.err = ~up]
  OBVIOUS
<1>x. PICK x : x = [peer[c] EXCEPT !.rst = ~up]
  OBVIOUS
<1>4. /\ SockFields \subseteq DOMAIN t /\ t.rx = s.rx /\ t.tx = s.tx /\ t.st \in {"open", "refused"}
  BY <1>2, <1>t DEF IsSock, SockFields
<1>5. q = WithSock(pair, c, t)
  BY <1>2, <1>p, <1>s, <1>t DEF WithSock, PairFields
<1>6. StillSock(s, t)
  BY <1>3, <1>4 DEF StillSock
<1>7. PeerFields \subseteq DOMAIN x /\ x.sent = peer[c].sent /\ x.got = peer[c].got
  BY <1>1, <1>x DEF Peered, PeerFields
<1>8. f = WithPeer(peer, c, x)
  BY <1>1, <1>p, <1>x DEF WithPeer, Peered
<1>9. SameCounts(peer, f)
  BY <1>1, <1>7, <1>8, PeerSame
<1> QED
  BY <1>1, <1>3, <1>5, <1>6, <1>9, <1>q, <1>f, <1>s, SockKeeps

LEMMA DeliverEndKeeps ==
  ASSUME ProxyInv, NEW c \in Legs, DeliverEnd(c) PROVE ProxyInv'
<1>q. PICK q : q = pair'
  OBVIOUS
<1>f. PICK f : f = peer'
  OBVIOUS
<1>s. PICK s : s = pair.sock[c]
  OBVIOUS
<1>t. PICK t : t = IF s.st = "open" THEN s ELSE NoSocket
  OBVIOUS
<1>e. PICK e : e = <<>>
  OBVIOUS
<1>v. PICK v : v = (s.st = "cut")
  OBVIOUS
<1>x. PICK x : x = [peer[c] EXCEPT !.eof = TRUE, !.rst = v]
  OBVIOUS
<1>1. Shaped(pair) /\ BaseSock(s) /\ Peered(peer)
  BY <1>s DEF ProxyInv, Holds, PairInv, Base
<1>2. IsSock(s)
  BY <1>1, <1>s DEF Shaped
<1>3. /\ s.tx = e /\ s.st \in {"open", "closing", "cut"} /\ batch' = batch /\ job' = job
  BY <1>s, <1>e DEF DeliverEnd
<1>4. q = WithSock(pair, c, t)
  BY <1>q, <1>s, <1>t DEF DeliverEnd, WithSock
<1>5. StillSock(s, t)
  <2>1. CASE s.st = "open"
    <3>1. t = s
      BY <1>t, <2>1
    <3> QED
      BY <1>2, <3>1 DEF StillSock, IsSock
  <2>2. CASE s.st # "open"
    <3>1. t = NoSocket
      BY <1>t, <2>2
    <3>2. s.rx = e
      BY <1>1, <1>3, <1>e, <2>2 DEF BaseSock
    <3>3. SockFields \subseteq DOMAIN t /\ t.st = "none" /\ t.rx = e /\ t.tx = e
      BY <3>1, <1>e DEF NoSocket, SockFields
    <3>4. s.st \in {"closing", "cut"}
      BY <1>3, <2>2
    <3> QED
      BY <1>3, <3>2, <3>3, <3>4, <1>e DEF StillSock
  <2> QED
    BY <2>1, <2>2
<1>6. PeerFields \subseteq DOMAIN x /\ x.sent = peer[c].sent /\ x.got = peer[c].got
  BY <1>1, <1>x DEF Peered, PeerFields
<1>7. f = WithPeer(peer, c, x)
  <2>1. f = [peer EXCEPT ![c].eof = TRUE, ![c].rst = v]
    BY <1>f, <1>s, <1>v DEF DeliverEnd
  <2> QED
    BY <1>1, <1>x, <2>1 DEF WithPeer, Peered
<1>8. SameCounts(peer, f)
  BY <1>1, <1>6, <1>7, PeerSame
<1> QED
  BY <1>3, <1>4, <1>5, <1>8, <1>q, <1>f, <1>s, SockKeeps

LEMMA SpokenConserves ==
  ASSUME NEW p, NEW q, NEW c \in Legs, Outside(p, q, c), q.lost = p.lost,
         q.sock[c].tx = p.sock[c].tx, DataIn(q.sock[c].rx) = DataIn(p.sock[c].rx)
  PROVE  Conserves(p, q)
<1>o. PICK o : o = Other(c)
  OBVIOUS
<1>0. o \in Legs /\ Other(o) = c /\ \A d \in Legs : d = c \/ d = o
  BY <1>o, Others
<1>1. q.leg = p.leg /\ q.sock[o] = p.sock[o]
  BY <1>o DEF Outside
<1>2. Line(q, c) = Line(p, c)
  BY <1>1, <1>o DEF Line
<1>3. Line(q, o) = Line(p, o)
  BY <1>0, <1>1 DEF Line
<1>4. LostOf(q, c) = LostOf(p, c) /\ LostOf(q, o) = LostOf(p, o)
  BY DEF LostOf
<1>5. Saves(p, q, c) /\ Saves(p, q, o)
  BY <1>2, <1>3, <1>4, SavesSame
<1> QED
  BY <1>0, <1>5 DEF Conserves

LEMMA MessageData ==
  ASSUME NEW m \in {Hello, Host, Addr}, NEW y, y = <<m>>
  PROVE  y \in Units /\ Len(y) = 1 /\ DataIn(y) = <<>>
<1>1. m \in Nat /\ m >= FirstMessage
  BY DEF Hello, Host, Addr, FirstMessage
<1>2. y \in Units /\ Len(y) = 1 /\ y[1] = m
  BY <1>1 DEF Units
<1>3. y # <<>>
  BY <1>2
<1> QED
  BY <1>1, <1>2, <1>3 DEF DataIn

LEMMA SendMessageKeeps == ASSUME ProxyInv, SendMessage PROVE ProxyInv'
<1>q. PICK q : q = pair'
  OBVIOUS
<1>f. PICK f : f = peer'
  OBVIOUS
<1>c. PICK c : c = "local"
  OBVIOUS
<1>e. PICK e : e = <<>>
  OBVIOUS
<1>1. /\ PairInv(pair) /\ pair.ok = TRUE /\ Peered(peer)
      /\ \A d \in Legs : Arrives(pair, peer, d)
  BY DEF ProxyInv, Holds
<1>2. /\ c \in Legs /\ pair.sock[c].st = "open" /\ pair.sock[c].rx = e
      /\ batch' = batch /\ job' = job /\ f = peer
  BY <1>c, <1>e, <1>f DEF SendMessage, CanSend, Legs
<1>m. PICK m \in ClientMessages : q = [pair EXCEPT !.sock[c].rx = Append(@, m)]
  BY <1>c, <1>q DEF SendMessage, Receives
<1>3. m \in {Hello, Host, Addr} /\ pair.socks \in {"handshake", "request"}
  BY <1>m DEF ClientMessages
<1>y. PICK y : y = <<m>>
  OBVIOUS
<1>4. y \in Units /\ Len(y) = 1 /\ DataIn(y) = e
  BY <1>3, <1>y, <1>e, MessageData
<1>5. Len(y) <= RxCap
  BY <1>4, CapAssumption
<1>6. q = WithRx(pair, c, y)
  <2>1. Append(pair.sock[c].rx, m) = y
    BY <1>2, <1>e, <1>y
  <2>2. PairFields \subseteq DOMAIN pair /\ IsSock(pair.sock[c]) /\ DOMAIN pair.sock = Legs
    BY <1>1, <1>2 DEF PairInv, Base, Shaped
  <2> QED
    BY <1>m, <2>1, <2>2, <1>2 DEF WithRx, PairFields, IsSock, SockFields
<1>7. /\ Outside(pair, q, c) /\ q.lost = pair.lost /\ q.ok = pair.ok
      /\ q.sock[c].rx = y /\ q.sock[c].tx = pair.sock[c].tx
  <2>1. MayHold(pair, c, y)
    BY <1>3, <1>4, <1>5, <1>c DEF MayHold
  <2> QED
    BY <1>1, <1>2, <1>6, <2>1, ReceivedOutside
<1>8. DataIn(q.sock[c].rx) = DataIn(pair.sock[c].rx)
  <2>1. DataIn(e) = e
    BY <1>e DEF DataIn
  <2> QED
    BY <1>2, <1>4, <1>7, <2>1
<1>9. Conserves(pair, q)
  BY <1>2, <1>7, <1>8, SpokenConserves
<1>10. PairInv(q) /\ Remains(pair, q)
  BY <1>1, <1>2, <1>7, OutsideInv, OutsideRemains
<1>11. \A d \in Legs : Arrives(q, f, d)
  BY <1>1, <1>2, <1>9, ConservedArrives
<1>12. q.ok = TRUE /\ Peered(f)
  BY <1>1, <1>2, <1>7
<1> QED
  BY <1>2, <1>10, <1>11, <1>12, <1>q, <1>f, OutsideKeeps

LEMMA SendUnitKeeps ==
  ASSUME ProxyInv, NEW c \in Legs, SendUnit(c) PROVE ProxyInv'
<1>q. PICK q : q = pair'
  OBVIOUS
<1>f. PICK f : f = peer'
  OBVIOUS
<1>o. PICK o : o = Other(c)
  OBVIOUS
<1>n. PICK n : n = peer[c].sent
  OBVIOUS
<1>u. PICK u : u = n + 1
  OBVIOUS
<1>x. PICK x : x = pair.sock[c].rx
  OBVIOUS
<1>y. PICK y : y = Append(x, u)
  OBVIOUS
<1>v. PICK v : v = <<u>>
  OBVIOUS
<1>z. PICK z : z = [peer[c] EXCEPT !.sent = u]
  OBVIOUS
<1>1. /\ PairInv(pair) /\ Base(pair) /\ Heard(pair) /\ pair.ok = TRUE /\ Peered(peer)
      /\ \A d \in Legs : Arrives(pair, peer, d)
  BY DEF ProxyInv, Holds, PairInv, Base
<1>2. /\ pair.sock[c].st = "open" /\ Len(x) < RxCap /\ n < Sends[c]
      /\ c = "local" => pair.socks \in {"connection", "tcp"}
      /\ batch' = batch /\ job' = job
  BY <1>n, <1>x DEF SendUnit, CanSend
<1>0. /\ o \in Legs /\ o # c /\ Other(o) = c /\ \A d \in Legs : d = c \/ d = o
  BY <1>o, Others
<1>3. n \in Nat /\ u \in Nat /\ u < FirstMessage /\ u \in 0..Sends[c] /\ Sends[c] \in Nat
  <2>1. n \in 0..Sends[c]
    BY <1>1, <1>n DEF Peered
  <2>2. Sends[c] \in 0..(FirstMessage - 1) /\ FirstMessage = 100
    BY ProxyAssumption DEF FirstMessage
  <2>3. n < Sends[c]
    BY <1>2
  <2> QED
    BY <1>u, <2>1, <2>2, <2>3
<1>4. x \in Units /\ PairFields \subseteq DOMAIN pair /\ IsSock(pair.sock[c]) /\ DOMAIN pair.sock = Legs
  BY <1>1, <1>x DEF Base, Shaped, IsSock
<1>5. AllUnits(x)
  <2>1. CASE c = "remote"
    BY <1>1, <1>x, <2>1 DEF Heard
  <2>2. CASE c = "local"
    BY <1>1, <1>2, <1>x, <2>2 DEF Heard
  <2> QED
    BY <2>1, <2>2 DEF Legs
<1>6. /\ y \in Units /\ v \in Units /\ AllUnits(y) /\ Len(y) = Len(x) + 1
      /\ DataIn(x) = x /\ DataIn(y) = x \o v
  <2>1. x \in Units /\ AllUnits(x) /\ u \in Nat /\ u < FirstMessage
    BY <1>3, <1>4, <1>5
  <2>2. Longer(x, y, v)
    BY <2>1, <1>y, <1>v, UnitIn
  <2> QED
    BY <2>2 DEF Longer
<1>7. Len(y) <= RxCap
  <2>1. Len(x) \in Nat
    BY <1>4 DEF Units
  <2>2. Len(x) < RxCap /\ RxCap \in Nat
    BY <1>2, CapAssumption
  <2>3. Len(y) = Len(x) + 1
    BY <1>6
  <2> QED
    BY <2>1, <2>2, <2>3
<1>8. q = WithRx(pair, c, y)
  <2>1. q = [pair EXCEPT !.sock[c].rx = Append(@, u)]
    BY <1>q, <1>n, <1>u DEF SendUnit, Receives
  <2>2. Append(pair.sock[c].rx, u) = y
    BY <1>x, <1>y
  <2> QED
    BY <1>4, <2>1, <2>2 DEF WithRx, PairFields, IsSock, SockFields
<1>9. /\ Outside(pair, q, c) /\ q.lost = pair.lost /\ q.ok = pair.ok
      /\ q.sock[c].rx = y /\ q.sock[c].tx = pair.sock[c].tx
  <2>1. MayHold(pair, c, y)
    BY <1>6, <1>7 DEF MayHold
  <2> QED
    BY <1>1, <1>2, <1>8, <2>1, ReceivedOutside
<1>10. PairInv(q) /\ Remains(pair, q)
  BY <1>1, <1>9, OutsideInv, OutsideRemains
<1>11. Line(q, c) = Line(pair, c) \o v /\ Line(q, o) = Line(pair, o)
  <2>1. q.leg = pair.leg /\ q.sock[Other(c)] = pair.sock[Other(c)]
    BY <1>9 DEF Outside
  <2>2. DataIn(pair.sock[c].rx) = x /\ DataIn(q.sock[c].rx) = x \o v
    BY <1>6, <1>9, <1>x
  <2>3. Base(pair) /\ q.sock[c].tx = pair.sock[c].tx /\ v \in Units /\ x \in Units
    BY <1>1, <1>4, <1>6, <1>9
  <2>4. SentOn(pair, q, c, v)
    BY <2>1, <2>2, <2>3, UnitSent, Zenon
  <2> QED
    BY <1>o, <2>4 DEF SentOn
<1>12. LostOf(q, c) = LostOf(pair, c) /\ LostOf(q, o) = LostOf(pair, o)
  BY <1>9 DEF LostOf
<1>13. f = WithPeer(peer, c, z)
  BY <1>1, <1>f, <1>z, <1>n, <1>u DEF SendUnit, WithPeer, Peered
<1>14. /\ PeerFields \subseteq DOMAIN z /\ z.sent = u /\ z.got = peer[c].got
  BY <1>1, <1>z DEF Peered, PeerFields
<1>15. DOMAIN f = Legs /\ f[c] = z /\ f[o] = peer[o]
  BY <1>0, <1>1, <1>13 DEF WithPeer, Peered
<1>16. Peered(f)
  <2>1. PeerFields \subseteq DOMAIN peer[o] /\ peer[o].sent \in 0..Sends[o] /\ peer[o].got \in Units
    BY <1>0, <1>1 DEF Peered
  <2>2. peer[c].got \in Units
    BY <1>1 DEF Peered
  <2> QED
    BY <1>0, <1>3, <1>14, <1>15, <2>1, <2>2 DEF Peered
<1>17. Arrives(q, f, c)
  <2>g. PICK g : g = peer[o].got
    OBVIOUS
  <2>l. PICK l : l = Line(pair, c)
    OBVIOUS
  <2>a. PICK a : a = g \o l
    OBVIOUS
  <2>t. PICK t : t = LostOf(pair, c)
    OBVIOUS
  <2>1. g \in Units /\ l \in Units
    BY <1>0, <1>1, <2>g, <2>l, LineParts DEF Peered
  <2>2. Exact(a, n, t)
    BY <1>1, <1>n, <1>o, <2>g, <2>l, <2>a, <2>t DEF Arrives
  <2>3. a \in Units
    BY <2>1, <2>a, Joined
  <2>4. Exact(a \o v, u, t)
    BY <1>3, <1>u, <1>v, <2>2, <2>3, ExactNext
  <2>5. a \o v = g \o (l \o v)
    <3>1. Same(g, l, v)
      BY <1>6, <2>1, Regroup, Zenon
    <3> QED
      BY <2>a, <3>1 DEF Same
  <2>6. f[o].got = g /\ f[c].sent = u
    BY <1>14, <1>15, <2>g
  <2> QED
    BY <1>11, <1>12, <1>o, <2>4, <2>5, <2>6, <2>l, <2>t DEF Arrives
<1>18. Arrives(q, f, o)
  <2>1. Arrives(pair, peer, o)
    BY <1>0, <1>1
  <2>2. f[c].got = peer[c].got /\ f[o].sent = peer[o].sent
    BY <1>14, <1>15
  <2> QED
    BY <1>0, <1>11, <1>12, <2>1, <2>2 DEF Arrives
<1>19. \A d \in Legs : Arrives(q, f, d)
  BY <1>0, <1>17, <1>18
<1>20. q.ok = TRUE
  BY <1>1, <1>9
<1> QED
  BY <1>2, <1>10, <1>16, <1>19, <1>20, <1>q, <1>f, OutsideKeeps

Unsent(s, x) == [s EXCEPT !.tx = x]
LEMMA DeliveredOutside ==
  ASSUME NEW p, PairInv(p), NEW c \in Legs, NEW s, s = p.sock[c], NEW x, NEW g, NEW h,
         HandsOver(s.tx, x, g, h), NEW t, t = Unsent(s, x), NEW q, q = WithSock(p, c, t)
  PROVE  /\ Outside(p, q, c) /\ q.lost = p.lost /\ q.ok = p.ok
         /\ q.sock[c].rx = s.rx /\ q.sock[c].tx = x
<1>1. Base(p) /\ Shaped(p) /\ PairFields \subseteq DOMAIN p /\ IsSock(s) /\ BaseSock(s) /\ Heard(p)
  BY DEF PairInv, Base, Shaped
<1>2. x \in Units /\ Len(x) <= TxCap
  <2>1. s.tx \in Units /\ Len(s.tx) \in Nat /\ Len(s.tx) <= TxCap
    BY <1>1 DEF IsSock, Units
  <2>2. x \in Units /\ Len(x) = Len(s.tx) - 1
    BY <2>1, HeadTail DEF HandsOver
  <2>3. TxCap \in Nat
    BY CapAssumption
  <2> QED
    BY <2>1, <2>2, <2>3
<1>3. /\ DOMAIN t = DOMAIN s /\ t.rx = s.rx /\ t.tx = x /\ t.st = s.st
  BY <1>1 DEF IsSock, SockFields, Unsent
<1>4. IsSock(t)
  BY <1>1, <1>2, <1>3 DEF IsSock
<1>5. BaseSock(t)
  BY <1>1, <1>3 DEF BaseSock, HandsOver
<1>6. /\ DOMAIN q = DOMAIN p /\ q.leg = p.leg /\ DOMAIN q.sock = Legs /\ q.sock[c] = t
      /\ q.sock[Other(c)] = p.sock[Other(c)] /\ q.socks = p.socks /\ q.fatal = p.fatal
      /\ q.lost = p.lost /\ q.ok = p.ok
  BY <1>1, SetSock
<1>o. PICK o : o = Other(c)
  OBVIOUS
<1>7. Heard(q)
  <2>1. q.sock[c].rx = p.sock[c].rx /\ q.sock[o].rx = p.sock[o].rx
    BY <1>3, <1>6, <1>o
  <2>2. "local" \in Legs /\ "remote" \in Legs /\ \A d \in Legs : d = c \/ d = o
    BY <1>o, Others DEF Legs
  <2>3. q.sock["remote"].rx = p.sock["remote"].rx /\ q.sock["local"].rx = p.sock["local"].rx
    BY <2>1, <2>2
  <2> QED
    BY <1>1, <1>6, <2>3 DEF Heard
<1>8. Outside(p, q, c)
  BY <1>1, <1>3, <1>4, <1>5, <1>6, <1>7 DEF Outside
<1> QED
  BY <1>3, <1>6, <1>8

LEMMA DeliverKeeps ==
  ASSUME ProxyInv, NEW c \in Legs, Deliver(c) PROVE ProxyInv'
<1>q. PICK q : q = pair'
  OBVIOUS
<1>f. PICK f : f = peer'
  OBVIOUS
<1>o. PICK o : o = Other(c)
  OBVIOUS
<1>s. PICK s : s = pair.sock[c]
  OBVIOUS
<1>w. PICK w : w = s.tx
  OBVIOUS
<1>x. PICK x : x = Tail(w)
  OBVIOUS
<1>t. PICK t : t = Unsent(s, x)
  OBVIOUS
<1>g. PICK g : g = peer[c].got
  OBVIOUS
<1>h. PICK h : h = Append(g, Head(w))
  OBVIOUS
<1>z. PICK z : z = [peer[c] EXCEPT !.got = h]
  OBVIOUS
<1>1. /\ PairInv(pair) /\ Base(pair) /\ Shaped(pair) /\ pair.ok = TRUE /\ Peered(peer)
      /\ \A d \in Legs : Arrives(pair, peer, d)
  BY DEF ProxyInv, Holds, PairInv, Base
<1>2. w # <<>> /\ batch' = batch /\ job' = job
  BY <1>s, <1>w DEF Deliver
<1>0. /\ o \in Legs /\ o # c /\ Other(o) = c /\ \A d \in Legs : d = c \/ d = o
  BY <1>o, Others
<1>3. PairFields \subseteq DOMAIN pair /\ IsSock(s) /\ DOMAIN pair.sock = Legs
  BY <1>1, <1>s DEF Shaped
<1>4. q = WithSock(pair, c, t)
  <2>1. q = [pair EXCEPT !.sock[c].tx = Tail(@)]
    BY <1>q DEF Deliver
  <2>2. Tail(pair.sock[c].tx) = x
    BY <1>s, <1>w, <1>x
  <2> QED
    BY <1>3, <1>s, <1>t, <2>1, <2>2 DEF WithSock, PairFields, Unsent, IsSock, SockFields
<1>p. HandsOver(w, x, g, h)
  BY <1>2, <1>x, <1>h DEF HandsOver
<1>5. /\ Outside(pair, q, c) /\ q.lost = pair.lost /\ q.ok = pair.ok
      /\ q.sock[c].rx = s.rx /\ q.sock[c].tx = x
  <2>1. HandsOver(s.tx, x, g, h)
    BY <1>p, <1>w
  <2> QED
    BY <1>1, <1>4, <1>s, <1>t, <2>1, DeliveredOutside
<1>6. PairInv(q) /\ Remains(pair, q)
  BY <1>1, <1>5, OutsideInv, OutsideRemains
<1>7. h \in Units /\ h \o Line(q, o) = g \o Line(pair, o) /\ Line(q, c) = Line(pair, c)
  <2>1. q.leg = pair.leg /\ q.sock[Other(c)] = pair.sock[Other(c)] /\ q.sock[c].rx = pair.sock[c].rx
    BY <1>5, <1>s DEF Outside
  <2>2. w = pair.sock[c].tx /\ x = q.sock[c].tx
    BY <1>5, <1>s, <1>w
  <2>3. g \in Units
    BY <1>1, <1>g DEF Peered
  <2>4. Base(pair)
    BY <1>1
  <2>5. HandedOver(pair, q, c, g, h)
    BY <1>p, <2>1, <2>2, <2>3, <2>4, UnitDelivered
  <2> QED
    BY <1>o, <2>5 DEF HandedOver
<1>8. LostOf(q, c) = LostOf(pair, c) /\ LostOf(q, o) = LostOf(pair, o)
  BY <1>5 DEF LostOf
<1>9. f = WithPeer(peer, c, z)
  <2>1. f = [peer EXCEPT ![c].got = h]
    BY <1>f, <1>s, <1>w, <1>g, <1>h DEF Deliver
  <2> QED
    BY <1>1, <1>z, <2>1 DEF WithPeer, Peered
<1>10. PeerFields \subseteq DOMAIN z /\ z.sent = peer[c].sent /\ z.got = h
  BY <1>1, <1>z DEF Peered, PeerFields
<1>11. DOMAIN f = Legs /\ f[c] = z /\ f[o] = peer[o]
  BY <1>0, <1>1, <1>9 DEF WithPeer, Peered
<1>12. Peered(f)
  <2>1. \A d \in Legs : /\ PeerFields \subseteq DOMAIN peer[d]
                        /\ peer[d].sent \in 0..Sends[d] /\ peer[d].got \in Units
    BY <1>1 DEF Peered
  <2> QED
    BY <1>0, <1>7, <1>10, <1>11, <2>1 DEF Peered
<1>13. Arrives(q, f, o)
  <2>1. Exact(g \o Line(pair, o), peer[o].sent, LostOf(pair, o))
    BY <1>0, <1>1, <1>g DEF Arrives
  <2>2. f[Other(o)].got = h /\ f[o].sent = peer[o].sent
    BY <1>0, <1>10, <1>11
  <2> QED
    BY <1>7, <1>8, <2>1, <2>2 DEF Arrives
<1>14. Arrives(q, f, c)
  <2>1. f[o].got = peer[o].got /\ f[c].sent = peer[c].sent /\ Arrives(pair, peer, c)
    BY <1>1, <1>10, <1>11
  <2> QED
    BY <1>7, <1>8, <1>o, <2>1 DEF Arrives
<1>15. \A d \in Legs : Arrives(q, f, d)
  BY <1>0, <1>13, <1>14
<1>16. q.ok = TRUE
  BY <1>1, <1>5
<1> QED
  BY <1>2, <1>6, <1>12, <1>15, <1>16, <1>q, <1>f, OutsideKeeps

LEMMA ResetKeeps ==
  ASSUME ProxyInv, NEW c \in Legs, Reset(c) PROVE ProxyInv'
<1>q. PICK q : q = pair'
  OBVIOUS
<1>f. PICK f : f = peer'
  OBVIOUS
<1>o. PICK o : o = Other(c)
  OBVIOUS
<1>s. PICK s : s = pair.sock[c]
  OBVIOUS
<1>w. PICK why : why = "reset"
  OBVIOUS
<1>a. PICK a : a = Lose(pair, o, s.tx, why)
  OBVIOUS
<1>t. PICK t : t = Broke(s)
  OBVIOUS
<1>y. PICK yes : yes = TRUE
  OBVIOUS
<1>x. PICK x : x = [peer[c] EXCEPT !.rst = yes]
  OBVIOUS
<1>1. /\ PairInv(pair) /\ pair.ok = TRUE /\ Peered(peer)
      /\ \A d \in Legs : Arrives(pair, peer, d)
  BY DEF ProxyInv, Holds
<1>2. pair.sock[c].st = "open" /\ batch' = batch /\ job' = job
  BY DEF Reset
<1>3. a.sock = pair.sock
  <2>1. PairFields \subseteq DOMAIN pair /\ o \in Legs
    BY <1>1, <1>o, Others DEF PairInv, Base, Shaped
  <2> QED
    BY <1>a, <2>1, LoseFacts
<1>4. q = WithSock(a, c, t)
  <2>1. q = [Lose(pair, o, pair.sock[c].tx, why)
               EXCEPT !.sock[c] = [@ EXCEPT !.st = "reset", !.err = TRUE, !.tx = <<>>]]
    BY <1>q, <1>o, <1>w DEF Reset
  <2>2. q = [a EXCEPT !.sock[c] = [@ EXCEPT !.st = "reset", !.err = TRUE, !.tx = <<>>]]
    BY <1>a, <1>s, <2>1
  <2>3. [a.sock[c] EXCEPT !.st = "reset", !.err = TRUE, !.tx = <<>>] = t
    BY <1>3, <1>s, <1>t DEF Broke
  <2> QED
    BY <2>2, <2>3 DEF WithSock
<1>5. Outside(pair, q, c) /\ Conserves(pair, q) /\ q.ok = pair.ok
  <2>1. a = Lose(pair, Other(c), s.tx, why) /\ pair.sock[c].st = "open" /\ PairInv(pair)
    BY <1>1, <1>2, <1>o, <1>a
  <2> QED
    BY <1>4, <1>s, <1>t, <2>1, ResetGood
<1>6. PairInv(q) /\ Remains(pair, q)
  BY <1>1, <1>5, OutsideInv, OutsideRemains
<1>7. SameCounts(peer, f)
  <2>1. PeerFields \subseteq DOMAIN x /\ x.sent = peer[c].sent /\ x.got = peer[c].got
    BY <1>1, <1>x DEF Peered, PeerFields
  <2>2. f = WithPeer(peer, c, x)
    BY <1>1, <1>f, <1>x, <1>y DEF Reset, WithPeer, Peered
  <2> QED
    BY <1>1, <2>1, <2>2, PeerSame
<1>8. Peered(f) /\ \A d \in Legs : Arrives(q, f, d)
  BY <1>1, <1>5, <1>7, CountsSame
<1>9. q.ok = TRUE
  BY <1>1, <1>5
<1> QED
  BY <1>2, <1>6, <1>8, <1>9, <1>q, <1>f, OutsideKeeps

LEMMA NextKeeps ==
  ASSUME ProxyInv, [Next]_proxyVars PROVE ProxyInv'
<1>1. CASE Wait
  BY <1>1, WaitKeeps
<1>2. CASE \E c \in Legs : HandleLeg(c)
  BY <1>2, HandleLegKeeps
<1>3. CASE HandleResolver
  BY <1>3, HandleResolverKeeps
<1>4. CASE Resolver
  BY <1>4, ResolverKeeps
<1>5. CASE Answer
  BY <1>5, AnswerKeeps
<1>6. CASE \E c \in Legs : Deliver(c)
  BY <1>6, DeliverKeeps
<1>7. CASE \E c \in Legs : DeliverEnd(c)
  BY <1>7, DeliverEndKeeps
<1>8. CASE SendMessage
  BY <1>8, SendMessageKeeps
<1>9. CASE \E c \in Legs : SendUnit(c)
  BY <1>9, SendUnitKeeps
<1>10. CASE \E c \in Legs : Finish(c)
  BY <1>10, FinishKeeps
<1>11. CASE \E c \in Legs : Reset(c)
  BY <1>11, ResetKeeps
<1>12. CASE UNCHANGED proxyVars
  <2>1. pair' = pair /\ batch' = batch /\ job' = job /\ peer' = peer
    BY <1>12 DEF proxyVars
  <2>2. Holds(pair', batch', job', peer')
    BY <2>1 DEF ProxyInv
  <2> QED
    BY <2>2, HoldsNext
<1> QED
  BY <1>1, <1>2, <1>3, <1>4, <1>5, <1>6, <1>7, <1>8, <1>9, <1>10, <1>11, <1>12
  DEF Next, Program, Network, Peers

\* The inductive invariant: after every handler, every move of the peers and
\* every end of a turn, the pair keeps its rules and the lines their units.
THEOREM ProxyInvHolds == Spec => []ProxyInv
<1>1. Init => ProxyInv
  BY InitHolds
<1>2. ProxyInv /\ [Next]_proxyVars => ProxyInv'
  BY NextKeeps
<1> QED
  BY <1>1, <1>2, PTL DEF Spec

\* Masks, states and sockets are as tpws knows them, a job of the resolver
\* points to no freed leg (tpws_conn.c:537), and no send buffer is filled while
\* it holds data, which would end the program (tpws_conn.c:146).
THEOREM ProxyTypes == Spec => []TypeOK
<1>1. ProxyInv => TypeOK
  <2> SUFFICES ASSUME ProxyInv PROVE TypeOK
    OBVIOUS
  <2>1. Base(pair) /\ Shaped(pair) /\ Served(pair, job) /\ DOMAIN batch \subseteq Legs \cup {"resolver"}
    BY DEF ProxyInv, Holds, PairInv, Base
  <2>2. ASSUME NEW c \in Legs
        PROVE  /\ pair.leg[c].st \in {"none", "unavailable", "available", "rdhup", "closed"}
               /\ pair.leg[c].mask \subseteq {"in", "out", "rdhup"}
               /\ Len(pair.sock[c].rx) <= RxCap /\ Len(pair.sock[c].tx) <= TxCap
    <3>1. IsLeg(pair.leg[c]) /\ IsSock(pair.sock[c])
      BY <2>1 DEF Shaped
    <3> QED
      BY <3>1 DEF IsLeg, IsSock, States, Masks
  <2>3. pair.socks \in {"handshake", "request", "resolve", "connection", "tcp"}
    BY <2>1 DEF Shaped, Early
  <2>4. job.attached => pair.leg["local"].st # "none"
    BY <2>1 DEF Served
  <2>5. ~pair.fatal
    BY <2>1 DEF Base
  <2> QED
    BY <2>1, <2>2, <2>3, <2>4, <2>5 DEF TypeOK
<1> QED
  BY <1>1, ProxyInvHolds, PTL

InOneLine(g, t, a, b, i) == (((g \o t) \o a) \o b) \o i = g \o (t \o (a \o (b \o i)))
LEMMA OneLine ==
  ASSUME NEW g \in Units, NEW t \in Units, NEW a \in Units, NEW b \in Units, NEW i \in Units
  PROVE  InOneLine(g, t, a, b, i)
<1>b. PICK x : x = b \o i
  OBVIOUS
<1>a. PICK y : y = a \o x
  OBVIOUS
<1>1. x \in Units
  BY <1>b, Joined
<1>2. y \in Units
  BY <1>1, <1>a, Joined
<1>g. PICK v : v = g \o t
  OBVIOUS
<1>w. PICK w : w = v \o a
  OBVIOUS
<1>3. v \in Units
  BY <1>g, Joined
<1>4. w \in Units
  BY <1>3, <1>w, Joined
<1>5. (w \o b) \o i = w \o x
  <2>1. Same(w, b, i)
    BY <1>4, Regroup, Zenon
  <2> QED
    BY <1>b, <2>1 DEF Same
<1>6. w \o x = v \o y
  <2>1. Same(v, a, x)
    BY <1>1, <1>3, Regroup, Zenon
  <2> QED
    BY <1>a, <1>w, <2>1 DEF Same
<1>7. v \o y = g \o (t \o y)
  <2>1. Same(g, t, y)
    BY <1>2, Regroup, Zenon
  <2> QED
    BY <1>g, <2>1 DEF Same
<1> QED
  BY <1>5, <1>6, <1>7, <1>a, <1>b, <1>g, <1>w DEF InOneLine

\* Whatever path the blocks take (pipe, four buffers, split parts, what is read
\* at the end of a stream), each direction holds exactly the units sent, in
\* order, save those recorded as lost (tpws_conn.c:788, 1177, 1376).
THEOREM RelayIsIntact == Spec => []RelayIntact
<1>1. ProxyInv => RelayIntact
  <2> SUFFICES ASSUME ProxyInv, NEW c \in Legs
               PROVE  LET s == OnTheWay(c)
                      IN /\ {s[i] : i \in DOMAIN s} = (1..peer[c].sent) \ LostFrom(c)
                         /\ \A i, j \in DOMAIN s : i < j => s[i] < s[j]
    BY DEF RelayIntact
  <2>s. PICK s : s = OnTheWay(c)
    OBVIOUS
  <2>o. PICK o : o = Other(c)
    OBVIOUS
  <2>g. PICK g : g = peer[o].got
    OBVIOUS
  <2>t. PICK t : t = pair.sock[o].tx
    OBVIOUS
  <2>a. PICK a : a = pair.leg[o].pipe
    OBVIOUS
  <2>b. PICK b : b = Buffered(pair.leg[o])
    OBVIOUS
  <2>i. PICK i : i = DataIn(pair.sock[c].rx)
    OBVIOUS
  <2>1. Shaped(pair) /\ Peered(peer) /\ o \in Legs /\ Arrives(pair, peer, c)
    BY <2>o, Others DEF ProxyInv, Holds, PairInv, Base
  <2>2. g \in Units /\ t \in Units /\ a \in Units /\ b \in Units /\ i \in Units
    <3>1. IsLeg(pair.leg[o]) /\ IsSock(pair.sock[o]) /\ IsSock(pair.sock[c]) /\ peer[o].got \in Units
      BY <2>1 DEF Shaped, Peered
    <3> QED
      BY <2>a, <2>b, <2>i, <2>t, <2>g, <3>1, BufferedFacts, DataFacts DEF IsSock
  <2>3. s = (((g \o t) \o a) \o b) \o i
    BY <2>s, <2>o, <2>g, <2>t, <2>a, <2>b, <2>i DEF OnTheWay
  <2>4. g \o Line(pair, c) = g \o (t \o (a \o (b \o i)))
    BY <2>o, <2>t, <2>a, <2>b, <2>i DEF Line
  <2>5. s = g \o Line(pair, c)
    <3>1. InOneLine(g, t, a, b, i)
      BY <2>2, OneLine
    <3> QED
      BY <2>3, <2>4, <3>1 DEF InOneLine
  <2>6. LostFrom(c) = LostOf(pair, c)
    BY DEF LostFrom, LostOf
  <2>7. Exact(s, peer[c].sent, LostFrom(c))
    BY <2>1, <2>5, <2>6, <2>o, <2>g DEF Arrives
  <2>8. /\ {s[k] : k \in DOMAIN s} = (1..peer[c].sent) \ LostFrom(c)
        /\ \A k, j \in DOMAIN s : k < j => s[k] < s[j]
    BY <2>7 DEF Exact, Elements
  <2> QED
    BY <2>8, <2>s
<1> QED
  BY <1>1, ProxyInvHolds, PTL
=============================================================================
