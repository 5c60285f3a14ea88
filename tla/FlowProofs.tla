------------------------------ MODULE FlowProofs ------------------------------
(***************************************************************************)
(* Proofs about the path of TCP packets (Flow): the held packets are one   *)
(* request under reassembly, every packet leaves as PacketPath says, and   *)
(* lists and profiles decide about a request by its real name, for any     *)
(* connections, streams, lists, profiles and sequence space.               *)
(*                                                                         *)
(* FlowInv is the invariant. Its heart is Session: what is held of a       *)
(* connection is a run of adjacent segments of its request, which the      *)
(* buffer has, and no more. It cannot be kept alone: while a segment is    *)
(* added to the buffer but not yet held (Joined), and while the held ones  *)
(* are played again (replay), it is false of the connection at hand, and   *)
(* PlaceInv says what is true instead (Grown). That a segment which fits   *)
(* the buffer continues the last held one needs more than the equality of  *)
(* sequence numbers, which wrap: both lie in one request, shorter than the *)
(* sequence space (FollowsOn), of the connection the client has now and    *)
(* not of one it gave up (AllFresh, Steady).                               *)
(*                                                                         *)
(* About the lists there are three more invariants on top of it: what a    *)
(* list in memory says of its file (Honest), what was read when a host is  *)
(* learned (LearnInv), and which profile acts on a name (ChoiceInv).       *)
(***************************************************************************)
EXTENDS FlowProperties, SequenceFacts, FiniteSetTheorems, TLAPS
-----------------------------------------------------------------------------
\* The lists. Without edits, and when no list by which a profile chooses is also
\* one that another profile fills (Tidy), what is in memory is what was there at
\* the start, but for the automatic lists, which nobody chooses by.
IsHost(h) == h \in Hosts \cup {NoHost}
Tidy ==
  \A i \in DOMAIN Profiles :
    LET p == Profiles[i]
    IN /\ (NamesIn(p.excl) \cup NamesIn(p.ipIncl) \cup NamesIn(p.ipExcl)) \cap AutoLists = {}
       /\ p.auto = NoFile => NamesIn(p.incl) \cap AutoLists = {}
Calm == edits = 0 /\ Tidy
FirstFile(f) == [mtime |-> 0, content |-> Initial[f], there |-> TRUE, readable |-> TRUE]
FirstList(f) == [sig |-> IF f \in Inline THEN NoSig ELSE Stat(FirstFile(f)), pool |-> Initial[f]]
FirstMem == [f \in Files |-> FirstList(f)]
Settled(m, d) ==
  /\ DOMAIN m = Files
  /\ \A f \in Files : /\ d[f].readable = TRUE
                      /\ f \notin AutoLists => d[f] = FirstFile(f) /\ m[f] = FirstList(f)

\* The choice among the profiles that follows: the first one that fits.
Fits(i, t, h, l7) ==
  LET p == Profiles[i]
  IN /\ MatchesL3L4(p, t) /\ MatchesL7(p, l7) /\ ~Hopeless(FirstMem, p, h)
     /\ IpsetCheck(FirstMem, p.ipIncl, p.ipExcl, t.addr) /\ MatchesLists(FirstMem, p, h)
IsChoice(i, t, h, l7) ==
  /\ i # 0 => Fits(i, t, h, l7)
  /\ \A j \in 1..Len(Profiles) : (i = 0 \/ j < i) => ~Fits(j, t, h, l7)

LEMMA ProfileCount == Len(Profiles) \in Nat /\ DOMAIN Profiles = 1..Len(Profiles)
<1> DEFINE R == {Profiles[i] : i \in DOMAIN Profiles}
<1>1. Profiles \in Seq(R)
  BY ProfilesAssumption
<1> HIDE DEF R
<1> QED
  BY <1>1

LEMMA ListsRegistered ==
  ASSUME NEW i \in DOMAIN Profiles
  PROVE  /\ NamesIn(Profiles[i].incl) \subseteq Files /\ NamesIn(Profiles[i].excl) \subseteq Files
         /\ NamesIn(Profiles[i].ipIncl) \subseteq Files /\ NamesIn(Profiles[i].ipExcl) \subseteq Files
         /\ Profiles[i].auto # NoFile => Profiles[i].auto \in AutoLists /\ Profiles[i].auto \in Files
  BY ProfilesAssumption DEF AutoLists

LEMMA SettledOk ==
  ASSUME NEW m, NEW d, Settled(m, d), NEW coll, NamesIn(coll) \subseteq Files
  PROVE  ReloadOk(m, d, coll)
  BY DEF ReloadOk, Failing, LoadOk, Settled, NamesIn

LEMMA SettledReloaded ==
  ASSUME NEW m, NEW d, Settled(m, d), NEW coll PROVE Settled(Reloaded(m, d, coll), d)
<1> DEFINE r == Reloaded(m, d, coll)
<1>1. DOMAIN r = Files /\ \A f \in Files : r[f] = m[f] \/ r[f] = LoadHostList(f, m[f], d[f])
  BY DEF Reloaded, Settled
<1>2. ASSUME NEW f \in Files, f \notin AutoLists PROVE LoadHostList(f, m[f], d[f]) = m[f]
  <2>1. d[f] = FirstFile(f) /\ m[f] = FirstList(f)
    BY <1>2 DEF Settled
  <2>2. f \notin Inline => FirstList(f).sig = Stat(FirstFile(f))
    BY DEF FirstList
  <2>3. UpToDate(f, m[f], d[f])
    BY <2>1, <2>2 DEF UpToDate, Examined
  <2> QED
    BY <2>3 DEF LoadHostList
<1> HIDE DEF r
<1>3. Settled(r, d)
  BY <1>1, <1>2 DEF Settled
<1> QED
  BY <1>3 DEF r

LEMMA SettledAutolists ==
  ASSUME NEW m, NEW d, Settled(m, d) PROVE Settled(MakeAutolistsNonEmpty(m, AutoLists), d)
<1> DEFINE r == MakeAutolistsNonEmpty(m, AutoLists)
<1>1. DOMAIN r = DOMAIN m /\ \A f \in DOMAIN m : f \notin AutoLists => r[f] = m[f]
  BY DEF MakeAutolistsNonEmpty
<1> HIDE DEF r
<1>2. Settled(r, d)
  BY <1>1 DEF Settled
<1> QED
  BY <1>2 DEF r

LEMMA SettledHostlists ==
  ASSUME NEW m, NEW d, Settled(m, d), NEW incl, NEW excl
  PROVE  Settled(HostlistsReloaded(m, d, incl, excl, AutoLists), d)
<1>1. \A n, coll : Settled(n, d) => Settled(ReloadedOne(n, d, coll, AutoLists), d)
  <2>1. SUFFICES ASSUME NEW n, NEW coll, Settled(n, d) PROVE Settled(ReloadedOne(n, d, coll, AutoLists), d)
    OBVIOUS
  <2> DEFINE r == Reloaded(n, d, coll)
  <2>2. Settled(r, d)
    BY <2>1, SettledReloaded
  <2>3. ReloadedOne(n, d, coll, AutoLists) \in {r, MakeAutolistsNonEmpty(r, AutoLists)}
    BY DEF ReloadedOne
  <2> HIDE DEF r
  <2> QED
    BY <2>2, <2>3, SettledAutolists
<1> QED
  BY <1>1 DEF HostlistsReloaded

LEMMA SettledHostlistsOk ==
  ASSUME NEW m, NEW d, Settled(m, d), NEW i \in DOMAIN Profiles
  PROVE  HostlistsReloadOk(m, d, Profiles[i].incl, Profiles[i].excl)
<1> DEFINE r == Reloaded(m, d, Profiles[i].incl)
<1>1. Settled(r, d)
  BY SettledReloaded
<1> HIDE DEF r
<1>2. ReloadOk(m, d, Profiles[i].incl) /\ ReloadOk(r, d, Profiles[i].excl)
  BY <1>1, ListsRegistered, SettledOk
<1> QED
  BY <1>2 DEF HostlistsReloadOk, r

LEMMA SettledIpsets ==
  ASSUME NEW m, NEW d, Settled(m, d), NEW p PROVE Settled(AfterIpsets(m, d, p), d)
<1> DEFINE r == Reloaded(m, d, p.ipIncl)
<1>1. Settled(r, d)
  BY SettledReloaded
<1> HIDE DEF r
<1>2. Settled(Reloaded(r, d, p.ipExcl), d)
  BY <1>1, SettledReloaded
<1> QED
  BY <1>1, <1>2 DEF AfterIpsets, r

\* Lists that nobody fills have what they had at the start.
LEMMA SettledAgrees ==
  ASSUME NEW m, NEW d, Settled(m, d), NEW coll, NamesIn(coll) \subseteq Files, NamesIn(coll) \cap AutoLists = {}
  PROVE  /\ \A k \in DOMAIN coll : m[coll[k]] = FirstMem[coll[k]]
         /\ CollectionEmpty(m, coll) <=> CollectionEmpty(FirstMem, coll)
         /\ \A h : InCollection(m, coll, h) <=> InCollection(FirstMem, coll, h)
<1>1. \A k \in DOMAIN coll : m[coll[k]] = FirstMem[coll[k]]
  BY DEF Settled, FirstMem, NamesIn
<1> QED
  BY <1>1 DEF CollectionEmpty, InCollection

LEMMA SettledMatches ==
  ASSUME Tidy, NEW m, NEW d, Settled(m, d), NEW i \in DOMAIN Profiles, NEW addr, NEW h
  PROVE  LET p == Profiles[i]
         IN /\ IpsetCheck(m, p.ipIncl, p.ipExcl, addr) <=> IpsetCheck(FirstMem, p.ipIncl, p.ipExcl, addr)
            /\ Hopeless(m, p, h) <=> Hopeless(FirstMem, p, h)
            /\ MatchesLists(m, p, h) <=> MatchesLists(FirstMem, p, h)
            /\ Excluded(m, p.excl, h) <=> Excluded(FirstMem, p.excl, h)
<1> DEFINE p == Profiles[i]
           Same(coll) == /\ \A k \in DOMAIN coll : m[coll[k]] = FirstMem[coll[k]]
                         /\ CollectionEmpty(m, coll) <=> CollectionEmpty(FirstMem, coll)
                         /\ \A x : InCollection(m, coll, x) <=> InCollection(FirstMem, coll, x)
<1>1. Same(p.excl) /\ Same(p.ipIncl) /\ Same(p.ipExcl)
  <2>1. /\ NamesIn(p.excl) \subseteq Files /\ NamesIn(p.ipIncl) \subseteq Files /\ NamesIn(p.ipExcl) \subseteq Files
        /\ NamesIn(p.excl) \cap AutoLists = {} /\ NamesIn(p.ipIncl) \cap AutoLists = {}
        /\ NamesIn(p.ipExcl) \cap AutoLists = {}
    BY ListsRegistered DEF Tidy
  <2> HIDE DEF p
  <2> QED
    BY <2>1, SettledAgrees
<1>2. p.auto = NoFile => Same(p.incl)
  <2>1. p.auto = NoFile => NamesIn(p.incl) \subseteq Files /\ NamesIn(p.incl) \cap AutoLists = {}
    BY ListsRegistered DEF Tidy
  <2> HIDE DEF p
  <2> QED
    BY <2>1, SettledAgrees
<1> HIDE DEF p
<1>3. IpsetCheck(m, p.ipIncl, p.ipExcl, addr) <=> IpsetCheck(FirstMem, p.ipIncl, p.ipExcl, addr)
  BY <1>1 DEF IpsetCheck
<1>4. Hopeless(m, p, h) <=> Hopeless(FirstMem, p, h)
  BY <1>1, <1>2 DEF Hopeless, HostlistsEmpty
<1>5. MatchesLists(m, p, h) <=> MatchesLists(FirstMem, p, h)
  BY <1>1, <1>2 DEF MatchesLists, HostlistsEmpty, HostlistCheck, Excluded
<1>6. Excluded(m, p.excl, h) <=> Excluded(FirstMem, p.excl, h)
  BY <1>1 DEF Excluded
<1> QED
  BY <1>3, <1>4, <1>5, <1>6 DEF p

\* One match, and the search over all.
LEMMA MatchTyped ==
  ASSUME NEW m, NEW d, NEW i, NEW t, NEW h, NEW l7
  PROVE  DpMatch(m, d, i, t, h, l7).dp \in {0, i}
  BY DEF DpMatch, MatchHostlists, MatchIpsets

LEMMA MatchSettled ==
  ASSUME Tidy, NEW m, NEW d, Settled(m, d), NEW i \in DOMAIN Profiles, NEW t, NEW h, NEW l7
  PROVE  LET r == DpMatch(m, d, i, t, h, l7)
         IN Settled(r.mem, d) /\ r.dp = IF Fits(i, t, h, l7) THEN i ELSE 0
<1> DEFINE p == Profiles[i]
           a == AfterHostlists(m, d, p)
           n == AfterIpsets(a, d, p)
           suits == BeforeIpset(m, d, p, t, h, l7)
<1>1. Settled(a, d)
  BY SettledHostlists DEF AfterHostlists
<1>2. suits <=> MatchesL3L4(p, t) /\ MatchesL7(p, l7)
  BY SettledHostlistsOk DEF BeforeIpset
<1>3. DpMatch(m, d, i, t, h, l7) = MatchHostlists(a, suits, d, i, t, h)
  BY DEF DpMatch
<1> HIDE DEF a, suits
<1>4. Settled(n, d)
  BY <1>1, SettledIpsets
<1>5. ReloadOk(a, d, p.ipIncl) /\ ReloadOk(a, d, p.ipExcl)
  BY <1>1, ListsRegistered, SettledOk
<1>6. Hopeless(a, p, h) <=> Hopeless(FirstMem, p, h)
  BY <1>1, SettledMatches
<1>7. /\ IpsetCheck(n, p.ipIncl, p.ipExcl, t.addr) <=> IpsetCheck(FirstMem, p.ipIncl, p.ipExcl, t.addr)
      /\ MatchesLists(n, p, h) <=> MatchesLists(FirstMem, p, h)
  <2> HIDE DEF n
  <2> QED
    BY <1>4, SettledMatches
<1>8. CASE suits /\ ~Hopeless(a, p, h)
  <2>1. MatchHostlists(a, suits, d, i, t, h) = MatchIpsets(a, n, d, i, t, h)
    BY <1>8 DEF MatchHostlists
  <2> HIDE DEF n
  <2>2. LET r == MatchIpsets(a, n, d, i, t, h) IN r.mem = n /\ r.dp = IF Fits(i, t, h, l7) THEN i ELSE 0
    BY <1>2, <1>5, <1>6, <1>7, <1>8 DEF MatchIpsets, Fits
  <2> QED
    BY <1>3, <1>4, <2>1, <2>2
<1>9. CASE ~(suits /\ ~Hopeless(a, p, h))
  <2>1. MatchHostlists(a, suits, d, i, t, h) = [dp |-> 0, mem |-> a]
    BY <1>9, Zenon DEF MatchHostlists
  <2>2. ~Fits(i, t, h, l7)
    BY <1>2, <1>6, <1>9 DEF Fits
  <2> QED
    BY <1>1, <1>3, <2>1, <2>2
<1> QED
  BY <1>8, <1>9

\* The search as a run over the profiles.
Tried(F, m, d, t, h, l7, n) ==
  F = [i \in 0..n |-> IF i = 0 THEN [dp |-> 0, mem |-> m]
                      ELSE IF F[i - 1].dp # 0 THEN F[i - 1]
                      ELSE DpMatch(F[i - 1].mem, d, i, t, h, l7)]

LEMMA TriedExists ==
  ASSUME NEW m, NEW d, NEW t, NEW h, NEW l7 PROVE \A n \in Nat : \E F : Tried(F, m, d, t, h, l7, n)
<1> DEFINE Ns == {n \in Nat : \E F : Tried(F, m, d, t, h, l7, n)}
           start == [dp |-> 0, mem |-> m]
           Step(v, i) == IF v.dp # 0 THEN v ELSE DpMatch(v.mem, d, i, t, h, l7)
<1>1. 0 \in Ns
  <2>1. Tried([i \in 0..0 |-> start], m, d, t, h, l7, 0)
    BY DEF Tried
  <2> QED
    BY <2>1
<1>2. ASSUME NEW n \in Nat, n \in Ns PROVE n + 1 \in Ns
  <2>1. PICK F : Tried(F, m, d, t, h, l7, n)
    BY <1>2
  <2> DEFINE g == [i \in 0..(n + 1) |-> IF i <= n THEN F[i] ELSE Step(F[n], n + 1)]
  <2>2. F = [i \in 0..n |-> IF i = 0 THEN start ELSE Step(F[i - 1], i)]
    BY <2>1, Zenon DEF Tried
  <2> HIDE DEF Step, start
  <2>3. ASSUME NEW i \in 0..(n + 1) PROVE g[i] = IF i = 0 THEN start ELSE Step(g[i - 1], i)
    <3>1. CASE i = 0
      BY <2>2, <3>1
    <3>2. CASE i \in 1..n
      <4>1. g[i] = F[i] /\ g[i - 1] = F[i - 1] /\ i \in 0..n /\ i # 0
        BY <3>2
      <4>2. F[i] = Step(F[i - 1], i)
        BY <2>2, <4>1
      <4> QED
        BY <4>1, <4>2
    <3>3. CASE i = n + 1
      BY <3>3
    <3> QED
      BY <3>1, <3>2, <3>3
  <2>4. g = [i \in 0..(n + 1) |-> IF i = 0 THEN start ELSE Step(g[i - 1], i)]
    BY <2>3
  <2> HIDE DEF g
  <2>5. Tried(g, m, d, t, h, l7, n + 1)
    BY <2>4, Zenon DEF Tried, Step, start
  <2> QED
    BY <2>5
<1> HIDE DEF Ns
<1>3. Nat \subseteq Ns
  BY <1>1, <1>2, NatSets
<1> QED
  BY <1>3 DEF Ns

Searches(F, m, d, t, h, l7) ==
  /\ DpFind(m, d, t, h, l7) = F[Len(Profiles)] /\ F[0] = [dp |-> 0, mem |-> m]
  /\ \A i \in Nat : i + 1 <= Len(Profiles) =>
       F[i + 1] = IF F[i].dp # 0 THEN F[i] ELSE DpMatch(F[i].mem, d, i + 1, t, h, l7)
LEMMA FindRun ==
  ASSUME NEW m, NEW d, NEW t, NEW h, NEW l7
  PROVE  \E F : Searches(F, m, d, t, h, l7)
<1> DEFINE n == Len(Profiles)
           F == CHOOSE G : Tried(G, m, d, t, h, l7, n)
           start == [dp |-> 0, mem |-> m]
           Step(v, i) == IF v.dp # 0 THEN v ELSE DpMatch(v.mem, d, i, t, h, l7)
<1>1. n \in Nat
  BY ProfileCount
<1>2. Tried(F, m, d, t, h, l7, n)
  <2> HIDE DEF n
  <2>1. \E G : Tried(G, m, d, t, h, l7, n)
    BY <1>1, TriedExists
  <2> QED
    BY <2>1, Zenon
<1>3. DpFind(m, d, t, h, l7) = F[n]
  BY DEF DpFind, Tried
<1> HIDE DEF F, n
<1>4. F = [i \in 0..n |-> IF i = 0 THEN start ELSE Step(F[i - 1], i)]
  BY <1>2, Zenon DEF Tried
<1> HIDE DEF start, Step
<1>5. F[0] = start
  BY <1>1, <1>4
<1>6. \A i \in Nat : i + 1 <= n => F[i + 1] = Step(F[i], i + 1)
  <2>1. SUFFICES ASSUME NEW i \in Nat, i + 1 <= n PROVE F[i + 1] = Step(F[i], i + 1)
    OBVIOUS
  <2>2. i + 1 \in 0..n /\ i + 1 # 0 /\ (i + 1) - 1 = i
    BY <1>1, <2>1
  <2> QED
    BY <1>4, <2>2
<1> QED
  BY <1>3, <1>5, <1>6 DEF start, Step, n, Searches

LEMMA FindTyped ==
  ASSUME NEW m, NEW d, NEW t, NEW h, NEW l7 PROVE DpFind(m, d, t, h, l7).dp \in 0..Len(Profiles)
<1> DEFINE n == Len(Profiles)
<1>1. n \in Nat
  BY ProfileCount
<1>a. PICK F : Searches(F, m, d, t, h, l7)
  BY FindRun
<1>2. /\ DpFind(m, d, t, h, l7) = F[n] /\ F[0] = [dp |-> 0, mem |-> m]
      /\ \A i \in Nat : i + 1 <= n =>
           F[i + 1] = IF F[i].dp # 0 THEN F[i] ELSE DpMatch(F[i].mem, d, i + 1, t, h, l7)
  BY <1>a DEF Searches
<1> HIDE DEF n
<1> DEFINE Ns == {i \in Nat : i <= n => F[i].dp \in 0..n}
<1>3. 0 \in Ns
  BY <1>1, <1>2
<1>4. ASSUME NEW i \in Nat, i \in Ns PROVE i + 1 \in Ns
  <2>1. SUFFICES ASSUME i + 1 <= n PROVE F[i + 1].dp \in 0..n
    OBVIOUS
  <2>2. DpMatch(F[i].mem, d, i + 1, t, h, l7).dp \in {0, i + 1}
    BY MatchTyped
  <2>3. F[i].dp \in 0..n
    BY <1>1, <1>4, <2>1
  <2>4. F[i + 1].dp \in {F[i].dp, 0, i + 1}
    BY <1>2, <2>1, <2>2
  <2> QED
    BY <1>1, <2>1, <2>3, <2>4
<1> HIDE DEF Ns
<1>5. Nat \subseteq Ns
  BY <1>3, <1>4, NatSets
<1>6. F[n].dp \in 0..n
  BY <1>1, <1>5 DEF Ns
<1> QED
  BY <1>2, <1>6 DEF n

LEMMA FindSettled ==
  ASSUME Tidy, NEW m, NEW d, Settled(m, d), NEW t, NEW h, NEW l7
  PROVE  LET r == DpFind(m, d, t, h, l7) IN Settled(r.mem, d) /\ IsChoice(r.dp, t, h, l7)
<1> DEFINE n == Len(Profiles)
<1>1. n \in Nat /\ DOMAIN Profiles = 1..n
  BY ProfileCount
<1>a. PICK F : Searches(F, m, d, t, h, l7)
  BY FindRun
<1>2. /\ DpFind(m, d, t, h, l7) = F[n] /\ F[0] = [dp |-> 0, mem |-> m]
      /\ \A i \in Nat : i + 1 <= n =>
           F[i + 1] = IF F[i].dp # 0 THEN F[i] ELSE DpMatch(F[i].mem, d, i + 1, t, h, l7)
  BY <1>a DEF Searches
<1> HIDE DEF n
<1> DEFINE Chosen(i, v) == /\ Settled(v.mem, d) /\ v.dp \in 0..i
                           /\ v.dp # 0 => Fits(v.dp, t, h, l7)
                           /\ \A j \in 1..i : (v.dp = 0 \/ j < v.dp) => ~Fits(j, t, h, l7)
           Ns == {i \in Nat : i <= n => Chosen(i, F[i])}
<1>3. 0 \in Ns
  BY <1>1, <1>2
<1>4. ASSUME NEW i \in Nat, i \in Ns PROVE i + 1 \in Ns
  <2>1. SUFFICES ASSUME i + 1 <= n PROVE Chosen(i + 1, F[i + 1])
    OBVIOUS
  <2>2. Chosen(i, F[i])
    BY <1>1, <1>4, <2>1
  <2> DEFINE r == DpMatch(F[i].mem, d, i + 1, t, h, l7)
  <2>3. Settled(r.mem, d) /\ r.dp = IF Fits(i + 1, t, h, l7) THEN i + 1 ELSE 0
    <3>1. i + 1 \in DOMAIN Profiles
      BY <1>1, <2>1
    <3>2. Settled(F[i].mem, d)
      BY <2>2
    <3> QED
      BY <3>1, <3>2, MatchSettled
  <2>4. F[i + 1] = IF F[i].dp # 0 THEN F[i] ELSE r
    BY <1>2, <2>1
  <2> HIDE DEF r
  <2>5. CASE F[i].dp # 0
    BY <2>2, <2>4, <2>5
  <2>6. CASE F[i].dp = 0
    <3>1. F[i + 1] = r /\ (\A j \in 1..i : ~Fits(j, t, h, l7))
      BY <2>2, <2>4, <2>6
    <3> QED
      BY <2>3, <3>1
  <2> QED
    BY <2>5, <2>6
<1> HIDE DEF Ns
<1>5. Nat \subseteq Ns
  BY <1>3, <1>4, NatSets
<1>6. Chosen(n, F[n])
  BY <1>1, <1>5 DEF Ns
<1> QED
  BY <1>2, <1>6 DEF IsChoice, n

\* At most one profile is the choice.
LEMMA OneChoice ==
  ASSUME NEW i \in 0..Len(Profiles), NEW j \in 0..Len(Profiles), NEW t, NEW h, NEW l7,
         IsChoice(i, t, h, l7), IsChoice(j, t, h, l7)
  PROVE  i = j
  BY ProfileCount DEF IsChoice

-----------------------------------------------------------------------------
\* What memory says of the files. A list that the engine fills alone has the
\* entries of its file; another one has them when it has the signature of the file,
\* and never the signature of a later one.
Agrees(e, file) == {k \in DOMAIN e.pool : k # Impossible} = DOMAIN file.content
Truthful(f, e, file) ==
  /\ e = [sig |-> e.sig, pool |-> e.pool]
  /\ f \in AutoLists => Agrees(e, file)
  /\ f \notin AutoLists \cup Inline => e.sig[1] \in 0..file.mtime /\ (e.sig = Stat(file) => Agrees(e, file))
Sound(f, file) ==
  /\ file.mtime \in Nat /\ file.there = TRUE /\ Impossible \notin DOMAIN file.content
  /\ f \in AutoLists => file.readable = TRUE
Honest(m, d) == DOMAIN m = Files /\ \A f \in Files : Sound(f, d[f]) /\ Truthful(f, m[f], d[f])

LEMMA LoadTruthful ==
  ASSUME NEW f, NEW e, NEW file, Sound(f, file), Truthful(f, e, file)
  PROVE  Truthful(f, LoadHostList(f, e, file), file)
<1>1. CASE UpToDate(f, e, file)
  BY <1>1 DEF LoadHostList
<1>2. CASE ~UpToDate(f, e, file) /\ file.readable
  <2> DEFINE u == [sig |-> Stat(file), pool |-> file.content]
  <2>1. LoadHostList(f, e, file) = u
    BY <1>2 DEF LoadHostList
  <2>2. Agrees(u, file) /\ u.sig[1] = file.mtime
    BY DEF Agrees, Sound, Stat
  <2>3. u = [sig |-> u.sig, pool |-> u.pool] /\ u.sig[1] \in 0..file.mtime
    BY <2>2 DEF Sound
  <2> HIDE DEF u
  <2> QED
    BY <2>1, <2>2, <2>3 DEF Truthful
<1>3. CASE ~UpToDate(f, e, file) /\ ~file.readable
  <2> DEFINE u == [e EXCEPT !.pool = EmptyPool]
  <2>1. LoadHostList(f, e, file) = u
    BY <1>3, Zenon DEF LoadHostList
  <2>2. e = [sig |-> e.sig, pool |-> e.pool]
    BY DEF Truthful
  <2>3. u.sig = e.sig /\ u = [sig |-> u.sig, pool |-> u.pool]
    BY <2>2
  <2>4. e.sig # Stat(file) /\ f \notin AutoLists \cup Inline
    BY <1>3 DEF UpToDate, Examined, Sound
  <2> HIDE DEF u
  <2> QED
    BY <2>1, <2>3, <2>4 DEF Truthful
<1> QED
  BY <1>1, <1>2, <1>3

LEMMA MarkTruthful ==
  ASSUME NEW f, NEW e, NEW file, Truthful(f, e, file), e.pool = EmptyPool
  PROVE  Truthful(f, [e EXCEPT !.pool = PoolAdd(EmptyPool, Impossible, FALSE)], file)
<1> DEFINE p == PoolAdd(EmptyPool, Impossible, FALSE)
           u == [e EXCEPT !.pool = p]
<1>1. DOMAIN EmptyPool = {}
  BY DEF EmptyPool
<1>2. {k \in DOMAIN p : k # Impossible} = {}
  BY <1>1 DEF PoolAdd
<1> HIDE DEF p
<1>3. e = [sig |-> e.sig, pool |-> e.pool]
  BY DEF Truthful
<1>4. u.sig = e.sig /\ u.pool = p /\ u = [sig |-> u.sig, pool |-> u.pool]
  BY <1>3
<1> HIDE DEF u
<1>5. Agrees(e, file) => Agrees(u, file)
  BY <1>1, <1>2, <1>4 DEF Agrees
<1>6. Truthful(f, u, file)
  BY <1>4, <1>5 DEF Truthful
<1> QED
  BY <1>6 DEF u, p

LEMMA HonestReloaded ==
  ASSUME NEW m, NEW d, Honest(m, d), NEW coll PROVE Honest(Reloaded(m, d, coll), d)
<1> DEFINE r == Reloaded(m, d, coll)
<1>1. DOMAIN r = Files /\ \A f \in Files : r[f] = m[f] \/ r[f] = LoadHostList(f, m[f], d[f])
  BY DEF Reloaded, Honest
<1>2. \A f \in Files : Truthful(f, LoadHostList(f, m[f], d[f]), d[f])
  BY LoadTruthful DEF Honest
<1> HIDE DEF r
<1>3. Honest(r, d)
  BY <1>1, <1>2 DEF Honest
<1> QED
  BY <1>3 DEF r

LEMMA HonestAutolists ==
  ASSUME NEW m, NEW d, Honest(m, d) PROVE Honest(MakeAutolistsNonEmpty(m, AutoLists), d)
<1> DEFINE r == MakeAutolistsNonEmpty(m, AutoLists)
           u(f) == [m[f] EXCEPT !.pool = PoolAdd(EmptyPool, Impossible, FALSE)]
<1>1. DOMAIN r = Files /\ \A f \in Files : r[f] = m[f] \/ (m[f].pool = EmptyPool /\ r[f] = u(f))
  <2> HIDE DEF u
  <2>1. r = [f \in DOMAIN m |-> IF f \in AutoLists /\ m[f].pool = EmptyPool THEN u(f) ELSE m[f]]
    BY DEF MakeAutolistsNonEmpty, u
  <2> QED
    BY <2>1 DEF Honest
<1>2. \A f \in Files : m[f].pool = EmptyPool => Truthful(f, u(f), d[f])
  BY MarkTruthful DEF Honest
<1> HIDE DEF r, u
<1>3. Honest(r, d)
  BY <1>1, <1>2 DEF Honest
<1> QED
  BY <1>3 DEF r

LEMMA HonestHostlists ==
  ASSUME NEW m, NEW d, Honest(m, d), NEW incl, NEW excl
  PROVE  Honest(HostlistsReloaded(m, d, incl, excl, AutoLists), d)
<1>1. \A n, coll : Honest(n, d) => Honest(ReloadedOne(n, d, coll, AutoLists), d)
  <2>1. SUFFICES ASSUME NEW n, NEW coll, Honest(n, d) PROVE Honest(ReloadedOne(n, d, coll, AutoLists), d)
    OBVIOUS
  <2> DEFINE r == Reloaded(n, d, coll)
  <2>2. Honest(r, d)
    BY <2>1, HonestReloaded
  <2>3. ReloadedOne(n, d, coll, AutoLists) \in {r, MakeAutolistsNonEmpty(r, AutoLists)}
    BY DEF ReloadedOne
  <2> HIDE DEF r
  <2> QED
    BY <2>2, <2>3, HonestAutolists
<1> QED
  BY <1>1 DEF HostlistsReloaded

LEMMA MatchHonest ==
  ASSUME NEW m, NEW d, Honest(m, d), NEW i, NEW t, NEW h, NEW l7
  PROVE  Honest(DpMatch(m, d, i, t, h, l7).mem, d)
<1> DEFINE p == Profiles[i]
           a == AfterHostlists(m, d, p)
           n == AfterIpsets(a, d, p)
           r == Reloaded(a, d, p.ipIncl)
           v == DpMatch(m, d, i, t, h, l7)
<1>1. v.mem = a \/ v.mem = n
  BY DEF DpMatch, MatchHostlists, MatchIpsets
<1> HIDE DEF v
<1>2. Honest(a, d)
  BY HonestHostlists DEF AfterHostlists
<1> HIDE DEF a
<1>3. Honest(r, d)
  BY <1>2, HonestReloaded
<1>4. n = r \/ n = Reloaded(r, d, p.ipExcl)
  BY DEF AfterIpsets
<1> HIDE DEF r, n
<1>5. Honest(n, d)
  BY <1>3, <1>4, HonestReloaded
<1>6. Honest(v.mem, d)
  BY <1>1, <1>2, <1>5
<1> QED
  BY <1>6 DEF v

LEMMA FindHonest ==
  ASSUME NEW m, NEW d, Honest(m, d), NEW t, NEW h, NEW l7 PROVE Honest(DpFind(m, d, t, h, l7).mem, d)
<1> DEFINE n == Len(Profiles)
<1>1. n \in Nat
  BY ProfileCount
<1>a. PICK F : Searches(F, m, d, t, h, l7)
  BY FindRun
<1>2. /\ DpFind(m, d, t, h, l7) = F[n] /\ F[0] = [dp |-> 0, mem |-> m]
      /\ \A i \in Nat : i + 1 <= n =>
           F[i + 1] = IF F[i].dp # 0 THEN F[i] ELSE DpMatch(F[i].mem, d, i + 1, t, h, l7)
  BY <1>a DEF Searches
<1> HIDE DEF n
<1> DEFINE Ns == {i \in Nat : i <= n => Honest(F[i].mem, d)}
<1>3. 0 \in Ns
  BY <1>2
<1>4. ASSUME NEW i \in Nat, i \in Ns PROVE i + 1 \in Ns
  <2>1. SUFFICES ASSUME i + 1 <= n PROVE Honest(F[i + 1].mem, d)
    OBVIOUS
  <2>2. Honest(F[i].mem, d)
    BY <1>1, <1>4, <2>1
  <2>3. Honest(DpMatch(F[i].mem, d, i + 1, t, h, l7).mem, d)
    BY <2>2, MatchHonest
  <2> QED
    BY <1>2, <2>1, <2>2, <2>3
<1> HIDE DEF Ns
<1>5. Nat \subseteq Ns
  BY <1>3, <1>4, NatSets
<1>6. Honest(F[n].mem, d)
  BY <1>1, <1>5 DEF Ns
<1> QED
  BY <1>2, <1>6

-----------------------------------------------------------------------------
\* The path. What an entry says of the connection: the name is a host, and once it
\* was read in a request (found) the profile is the choice for it; a list check
\* that is remembered was passed, by a profile that fills no list.
Told(c, h, found, l7, l7Found, i, searched, check) ==
  /\ IsHost(h) /\ i \in 0..Len(Profiles)
  /\ found = TRUE => /\ l7Found = TRUE /\ l7 # "unknown" /\ searched = TRUE
                     /\ Calm => IsChoice(i, stream[c].to, stream[c].host, l7)
  /\ check.done = TRUE => searched = TRUE /\ i # 0 /\ Profiles[i].auto = NoFile /\ check.result = TRUE
ToldBy(c, t) == Told(c, t.host, t.hostFound, t.l7, t.l7Found, t.dp, t.dpSearched, t.check)
States == {"closed", "syn", "open", "answered"}
Segments(c) ==
  {p \in Packet : /\ p.conn = c /\ p.dir = "orig" /\ p.kind = "data"
                  /\ p.at > 0 /\ p.len > 0 /\ p.at + p.len <= stream[c].total + 1}
Reasm == {r \in [size : Nat, have : Nat, seq : 0..(SeqSpace - 1), at : Nat] : r.have <= r.size}
Fields == {"state", "dp", "reasm", "delayed", "host", "hostFound", "l7", "l7Found", "dpSearched", "check"}
IsEntry(c, t) ==
  /\ Fields \subseteq DOMAIN t
  /\ t.reasm \in Reasm /\ t.delayed \in Seq(Segments(c)) /\ ToldBy(c, t)
Out == [p : Packet, how : {"orig", "split"}]
Steps == {"idle", "find", "limits", "inbound", "recheck", "append", "sign", "gate", "payload",
          "classify", "replay", "discover", "check", "act", "done"}
EngineTypes ==
  /\ stream \in Streams
  /\ DOMAIN table \subseteq Conns /\ \A c \in DOMAIN table : IsEntry(c, table[c])
  /\ pc \in Steps /\ cur \in Packet /\ replay \in BOOLEAN /\ out \in Seq(Out)
  /\ pc # "idle" => cur.conn \in Conns
ClientTypes ==
  /\ client \in [Conns -> [st : States, una : Nat \ {0}, nxt : Nat \ {0}, gen : Nat]]
  /\ \A c \in Conns : client[c].nxt <= stream[c].total + 1
ServerTypes ==
  /\ server \in [Conns -> [st : States, got : SUBSET Nat]]
  /\ \A c \in Conns : IsFiniteSet(server[c].got)

\* Where the handler is.
ListSteps == {"recheck", "append", "sign"}
Early == pc \in {"find", "limits", "gate", "payload"}
Joined == ~replay /\ (pc = "classify" \/ (pc \in ListSteps /\ back.to = "classify"))
Late == ~replay /\ pc \in {"discover", "check", "act"}

\* A segment of what the client of the connection sends now.
Fresh(p) == p.seq = Mod(FirstSeq(p.conn) + p.at)
\* The held segments are a part of the stream, which the buffer has.
Adjacent(q) == \A i \in 2..Len(q) : q[i].at = q[i - 1].at + q[i - 1].len
Buffered(q, r) ==
  /\ q[1].at = r.at /\ Adjacent(q)
  /\ q[Len(q)].at + q[Len(q)].len = r.at + r.have
  /\ r.seq = Mod(q[Len(q)].seq + q[Len(q)].len)
AllFresh(c, q) == client[c].st \in {"syn", "open"} => \A i \in DOMAIN q : Fresh(q[i])
Session(c, t) ==
  /\ t.delayed # <<>> <=> t.reasm.size # 0
  /\ t.delayed # <<>> =>
       /\ t.dp # 0 /\ t.state # "syn" /\ stream[c].l7 = "tls" /\ t.reasm.at = 1
       /\ ~ReasmIsFull(t.reasm) /\ Buffered(t.delayed, t.reasm) /\ AllFresh(c, t.delayed)
\* The same when the segment at hand was added to the buffer and is not held yet.
Grown(c, t) ==
  \/ t.reasm.size = 0 /\ t.delayed = <<>> /\ loc.at = cur.at /\ loc.len = cur.len
  \/ /\ t.reasm.size # 0 /\ t.delayed # <<>>
     /\ stream[c].l7 = "tls" /\ t.reasm.at = 1 /\ loc.at = 1 /\ loc.len > 0
     /\ ~ReasmIsFull(t.reasm) =>
          Buffered(Append(t.delayed, cur), t.reasm) /\ AllFresh(c, Append(t.delayed, cur))

PlaceInv ==
  /\ replay => pc \in {"replay", "classify", "discover", "check", "act"}
  /\ replay \/ pc = "replay" => Tracked
  /\ pc \in ListSteps => back.to \in {"done", "classify"}
  /\ pc = "inbound" => cur.dir = "reply"
  /\ (pc \in {"gate", "payload"} \/ Joined) /\ Tracked => cur.dir = "orig"
  /\ (Early \/ Joined) /\ cur.dir = "orig" /\ cur.len > 0 =>
       /\ cur \in Segments(cur.conn) /\ Fresh(cur) /\ client[cur.conn].st = "open"
       /\ Tracked => T.state # "syn"
  /\ pc = "payload" \/ Joined => cur.len > 0
  /\ (pc \in {"limits", "gate", "payload"} \/ Joined) /\ Tracked => T.dp # 0
  /\ Joined /\ Tracked => Grown(cur.conn, T)
  /\ Late /\ Tracked => T.reasm.size = 0 /\ T.delayed = <<>>

Apart(c) == c = cur.conn /\ (replay \/ pc = "replay" \/ Joined)
SessionInv == \A c \in DOMAIN table : ~Apart(c) => Session(c, table[c])

PathInv == EngineTypes /\ ClientTypes /\ ServerTypes /\ PlaceInv /\ SessionInv

\* What the search for a profile goes by: the names, the lists in memory, and a
\* protocol that is known before the name is.
DpTypes == dp \in 0..Len(Profiles) /\ (pc \notin {"idle", "find", "replay", "done"} => dp # 0)
NameTypes == IsHost(back.host) /\ \A a \in DOMAIN ipcache : IsHost(ipcache[a].host)
FileTypes ==
  /\ edits \in Nat /\ now \in Nat /\ DOMAIN disk = Files
  /\ \A f \in Files : {"mtime", "content", "there", "readable"} \subseteq DOMAIN disk[f]
ListTypes == DpTypes /\ NameTypes /\ FileTypes
MemInv == Calm => Settled(mem, disk)
\* An answer without an entry goes the way of outgoing packets, but no name is
\* found in it.
FoundInv ==
  /\ cur.dir = "reply" => cur.at = 0
  /\ Joined /\ ~Tracked => loc.at = cur.at
  /\ replay \/ (Tracked /\ pc \in {"discover", "check", "act"}) => cur.dir = "orig"
  /\ pc = "discover" /\ loc.have = TRUE => cur.dir = "orig"
  /\ pc \in Steps \ {"idle", "replay", "discover", "check", "act", "done"} => ~(loc.have = TRUE)
  /\ pc = "discover" /\ loc.have = TRUE /\ Tracked => T.l7 # "unknown"
  /\ replay \/ pc = "replay" => T.l7 # "unknown"
ListInv == ListTypes /\ MemInv /\ FoundInv

FlowInv == PathInv /\ ListInv

-----------------------------------------------------------------------------
\* Sequence numbers wrap around; two that are less than the space apart and
\* wrap to the same number are the same.
LEMMA Nonlinear ==
  ASSUME NEW s \in Nat, s > 0, NEW d \in Int, s * d < s, s * d > 0 - s
  PROVE d = 0
<1>1. CASE d >= 1
  <2>1. s * d >= s
    BY <1>1
  <2> QED
    BY <2>1
<1>2. CASE d <= 0 - 1
  <2>1. s * d <= 0 - s
    BY <1>2
  <2> QED
    BY <2>1
<1> QED
  BY <1>1, <1>2

LEMMA ModIs ==
  ASSUME NEW n \in Int PROVE Mod(n) \in 0..(SeqSpace - 1) /\ \E q \in Int : n = SeqSpace * q + Mod(n)
<1>1. n % SeqSpace \in 0..(SeqSpace - 1)
  BY SeqAssumption
<1>2. n \div SeqSpace \in Int
  BY SeqAssumption
<1>3. n = (SeqSpace * (n \div SeqSpace)) + (n % SeqSpace)
  BY SeqAssumption
<1> QED
  BY <1>1, <1>2, <1>3 DEF Mod

LEMMA ModUnique ==
  ASSUME NEW r \in 0..(SeqSpace - 1), NEW q \in Int PROVE Mod(SeqSpace * q + r) = r
<1> DEFINE n == SeqSpace * q + r
<1>1. SeqSpace * q \in Int /\ n \in Int
  BY SeqAssumption
<1>2. PICK k \in Int : n = SeqSpace * k + Mod(n)
  BY <1>1, ModIs
<1>3. Mod(n) \in 0..(SeqSpace - 1)
  BY <1>1, ModIs
<1>4. SeqSpace * (k - q) = SeqSpace * k - SeqSpace * q
  BY SeqAssumption
<1>5. SeqSpace * (k - q) = r - Mod(n)
  BY <1>1, <1>2, <1>3, <1>4, SeqAssumption
<1>6. k - q = 0
  BY <1>3, <1>5, SeqAssumption, Nonlinear
<1> QED
  BY <1>1, <1>2, <1>3, <1>6, SeqAssumption

LEMMA ModFacts ==
  /\ \A n \in Int : Mod(n) \in 0..(SeqSpace - 1)
  /\ \A a, b \in Int : Mod(Mod(a) + b) = Mod(a + b)
  /\ \A a, b \in Int : Mod(a) = Mod(b) /\ a - b < SeqSpace /\ b - a < SeqSpace => a = b
<1>1. \A n \in Int : Mod(n) \in 0..(SeqSpace - 1)
  BY ModIs
<1>2. ASSUME NEW a \in Int, NEW b \in Int PROVE Mod(Mod(a) + b) = Mod(a + b)
  <2> DEFINE r == Mod(Mod(a) + b)
  <2>1. Mod(a) \in Int /\ Mod(a) + b \in Int
    BY <1>1
  <2>2. r \in 0..(SeqSpace - 1)
    BY <1>1, <2>1
  <2>3. PICK q \in Int : a = (SeqSpace * q) + Mod(a)
    BY ModIs
  <2>4. PICK k \in Int : Mod(a) + b = (SeqSpace * k) + r
    BY <2>1, ModIs
  <2> HIDE DEF r
  <2>5. SeqSpace * (q + k) = (SeqSpace * q) + (SeqSpace * k)
    BY SeqAssumption
  <2>6. a + b = (SeqSpace * (q + k)) + r
    BY <2>1, <2>2, <2>3, <2>4, <2>5, SeqAssumption
  <2>7. Mod((SeqSpace * (q + k)) + r) = r
    BY <2>2, ModUnique
  <2> QED
    BY <2>6, <2>7 DEF r
<1>3. ASSUME NEW a \in Int, NEW b \in Int, Mod(a) = Mod(b), a - b < SeqSpace, b - a < SeqSpace PROVE a = b
  <2>1. PICK q \in Int : a = (SeqSpace * q) + Mod(a)
    BY ModIs
  <2>2. PICK k \in Int : b = (SeqSpace * k) + Mod(b)
    BY ModIs
  <2>3. Mod(a) \in Int
    BY <1>1
  <2>4. SeqSpace * (q - k) = (SeqSpace * q) - (SeqSpace * k)
    BY SeqAssumption
  <2>5. SeqSpace * (q - k) = a - b
    BY <1>3, <2>1, <2>2, <2>3, <2>4, SeqAssumption
  <2>6. q - k = 0
    BY <1>3, <2>5, SeqAssumption, Nonlinear
  <2> QED
    BY <1>3, <2>1, <2>2, <2>6
<1> QED
  BY <1>1, <1>2, <1>3

-----------------------------------------------------------------------------
\* The updates of an entry.
Recalls(t, u) ==
  /\ t.l7 # "unknown" => u.l7 = t.l7
  /\ t.hostFound = TRUE => u.hostFound = TRUE /\ u.dp = t.dp
Like(t, u) ==
  /\ u.state = t.state /\ u.dp = t.dp /\ u.reasm = t.reasm /\ u.delayed = t.delayed
  /\ Recalls(t, u)

LEMMA LikeFacts == (\A t : Like(t, t)) /\ \A t, u, v : Like(t, u) /\ Like(u, v) => Like(t, v)
  BY DEF Like, Recalls

LEMMA RecallsFacts == (\A t : Recalls(t, t)) /\ \A t, u, v : Recalls(t, u) /\ Recalls(u, v) => Recalls(t, v)
  BY DEF Recalls

LEMMA EmptyReasm == NoReasm \in Reasm /\ NoReasm.size = 0
  BY SeqAssumption DEF NoReasm, Reasm

LEMMA CutoffEntry ==
  ASSUME NEW c, NEW t, IsEntry(c, t), NEW d
  PROVE  IsEntry(c, MaybeCutoff(t, d)) /\ Like(t, MaybeCutoff(t, d))
  BY DEF IsEntry, Fields, ToldBy, Like, Recalls, MaybeCutoff

LEMMA WsizeEntry ==
  ASSUME NEW c, NEW t, IsEntry(c, t), NEW d
  PROVE  IsEntry(c, ForcedWsizeCut(t, d)) /\ Like(t, ForcedWsizeCut(t, d))
<1> DEFINE u == [t EXCEPT !.wsCut = TRUE]
<1>1. IsEntry(c, u) /\ Like(t, u)
  BY DEF IsEntry, Fields, ToldBy, Like, Recalls
<1> DEFINE v == MaybeCutoff(u, d)
<1>2. ForcedWsizeCut(t, d) = t \/ ForcedWsizeCut(t, d) = v
  BY DEF ForcedWsizeCut, WsizeCut
<1> HIDE DEF u
<1>3. IsEntry(c, v) /\ Like(u, v)
  BY <1>1, CutoffEntry
<1> HIDE DEF v
<1> QED
  BY <1>1, <1>2, <1>3, LikeFacts

LEMMA StopEntry ==
  ASSUME NEW c, NEW t, IsEntry(c, t), NEW d
  PROVE  IsEntry(c, StopRetrans(t, d)) /\ Like(t, StopRetrans(t, d))
<1> DEFINE u == [t EXCEPT !.retrans = Stop]
<1>1. IsEntry(c, u) /\ Like(t, u)
  BY DEF IsEntry, Fields, ToldBy, Like, Recalls
<1> DEFINE v == MaybeCutoff(u, d)
<1>2. StopRetrans(t, d) = t \/ StopRetrans(t, d) = v
  BY DEF StopRetrans
<1> HIDE DEF u
<1>3. IsEntry(c, v) /\ Like(u, v)
  BY <1>1, CutoffEntry
<1> HIDE DEF v
<1> QED
  BY <1>1, <1>2, <1>3, LikeFacts

LEMMA RetransEntry ==
  ASSUME NEW c, NEW t, IsEntry(c, t), NEW d
  PROVE  IsEntry(c, AfterRetrans(t, d)) /\ Like(t, AfterRetrans(t, d))
<1>1. IsEntry(c, [t EXCEPT !.retrans = @ + 1]) /\ Like(t, [t EXCEPT !.retrans = @ + 1])
  BY DEF IsEntry, Fields, ToldBy, Like, Recalls
<1> QED
  BY <1>1, StopEntry DEF AfterRetrans, Like, Recalls

LEMMA RequestEntry ==
  ASSUME NEW c, NEW t, IsEntry(c, t), NEW b
  PROVE  /\ IsEntry(c, RequestSeen(t, b)) /\ Like(t, RequestSeen(t, b))
         /\ IsEntry(c, HttpRequestSeen(t)) /\ Like(t, HttpRequestSeen(t))
         /\ IsEntry(c, RequestPassed(t)) /\ Like(t, RequestPassed(t))
         /\ \A l7 : IsEntry(c, WithL7(t, l7)) /\ Like(t, WithL7(t, l7))
<1>1. \A full : IsEntry(c, RequestSeen(t, full)) /\ Like(t, RequestSeen(t, full))
  BY DEF IsEntry, Fields, ToldBy, Like, Recalls, RequestSeen
<1>2. IsEntry(c, RequestPassed(t)) /\ Like(t, RequestPassed(t))
  BY DEF IsEntry, Fields, ToldBy, Like, Recalls, RequestPassed
<1>3. \A l7 : IsEntry(c, WithL7(t, l7)) /\ Like(t, WithL7(t, l7))
  <2>1. SUFFICES ASSUME NEW l7, t.l7 = "unknown", NEW u, u = [t EXCEPT !.l7 = l7]
                 PROVE  IsEntry(c, u) /\ Like(t, u)
    BY DEF WithL7, Like, Recalls
  <2>2. ~(t.hostFound = TRUE)
    BY <2>1 DEF IsEntry, ToldBy, Told
  <2>3. ToldBy(c, u)
    <3>1. /\ u.host = t.host /\ u.hostFound = t.hostFound /\ u.l7Found = t.l7Found /\ u.dp = t.dp
          /\ u.dpSearched = t.dpSearched /\ u.check = t.check
      BY <2>1 DEF IsEntry, Fields
    <3> QED
      BY <2>2, <3>1 DEF IsEntry, ToldBy, Told
  <2> QED
    BY <2>1, <2>2, <2>3 DEF IsEntry, Fields, Like, Recalls
<1> QED
  BY <1>1, <1>2, <1>3 DEF HttpRequestSeen, Like, Recalls

LEMMA CancelledEntry ==
  ASSUME NEW c, NEW t, IsEntry(c, t)
  PROVE  LET u == Cancelled(t)
         IN /\ IsEntry(c, u) /\ u.reasm = NoReasm /\ u.delayed = <<>> /\ u.state = t.state /\ u.dp = t.dp
            /\ Recalls(t, u)
<1>1. <<>> \in Seq(Segments(c))
  OBVIOUS
<1> QED
  BY <1>1, EmptyReasm DEF IsEntry, Fields, ToldBy, Recalls, Cancelled

LEMMA RoomFacts ==
  ASSUME NEW r \in Reasm, NEW n \in Nat
  PROVE  /\ Room(r, n) \in Nat /\ Room(r, n) <= n /\ r.have + Room(r, n) <= r.size
         /\ r.have + Room(r, n) < r.size => Room(r, n) = n
         /\ r.have < r.size /\ n > 0 => Room(r, n) > 0
  BY DEF Room, Reasm

LEMMA ReasmFedFacts ==
  ASSUME NEW r \in Reasm, NEW n \in Nat
  PROVE  LET f == ReasmFed(r, n)
         IN /\ f \in Reasm /\ f.size = r.size /\ f.at = r.at
            /\ f.have = r.have + Room(r, n) /\ f.seq = Mod(r.seq + Room(r, n))
<1> DEFINE m == Room(r, n)
           k == Mod(r.seq + m)
           h == r.have + m
<1>1. m \in Nat /\ h \in Nat /\ h <= r.size
  BY RoomFacts DEF Reasm
<1>2. k \in 0..(SeqSpace - 1)
  <2>1. r.seq + m \in Int
    BY <1>1 DEF Reasm
  <2> QED
    BY <2>1, ModFacts
<1>3. ReasmFed(r, n) = [r EXCEPT !.have = h, !.seq = k]
  BY DEF ReasmFed
<1> HIDE DEF m, k, h
<1>4. /\ ReasmFed(r, n) \in Reasm /\ ReasmFed(r, n).size = r.size /\ ReasmFed(r, n).at = r.at
      /\ ReasmFed(r, n).have = h /\ ReasmFed(r, n).seq = k
  BY <1>1, <1>2, <1>3 DEF Reasm
<1> QED
  BY <1>4 DEF m, k, h

-----------------------------------------------------------------------------
\* What counting a packet does to its entry: what is held stays as it is or is
\* forgotten.
Blank(t) == t.delayed = <<>> /\ t.reasm.size = 0
Keeps(t, u) ==
  /\ u.dp = t.dp /\ u.reasm = t.reasm /\ u.delayed = t.delayed
  /\ t.state # "syn" => u.state # "syn"

LEMMA NewEntry == ASSUME NEW c, NEW n PROVE IsEntry(c, NewTrack(n)) /\ Blank(NewTrack(n))
<1> DEFINE t == NewTrack(n)
<1>1. /\ Fields \subseteq DOMAIN t /\ t.reasm = NoReasm /\ t.delayed = <<>>
      /\ t.host = "" /\ t.dp = 0 /\ ~(t.hostFound = TRUE) /\ ~(t.check.done = TRUE)
  BY DEF NewTrack, Fields
<1>2. <<>> \in Seq(Segments(c))
  OBVIOUS
<1> HIDE DEF t
<1>3. ToldBy(c, t)
  <2>1. IsHost(t.host) /\ t.dp \in 0..Len(Profiles)
    <3>1. 0 \in 0..Len(Profiles)
      BY ProfileCount
    <3>2. "" \in Hosts \cup {""}
      OBVIOUS
    <3> QED
      BY <1>1, <3>1, <3>2, Zenon DEF IsHost, NoHost
  <2> QED
    BY <1>1, <2>1, Zenon DEF ToldBy, Told
<1> QED
  BY <1>1, <1>2, <1>3, EmptyReasm DEF IsEntry, Blank, t

LEMMA FeedFacts ==
  ASSUME NEW c, NEW t, IsEntry(c, t), NEW p, NEW n
  PROVE  LET u == FeedPacket(t, p, n)
         IN /\ IsEntry(c, u) /\ (Keeps(t, u) \/ Blank(u))
            /\ p.kind = "syn" /\ t.state # "syn" => Blank(u)
            /\ p.kind = "data" => u.state # "syn"
<1> DEFINE a == Counted(t, p)
           b == StateSeen(a, p, n)
           w == NewTrack(n)
<1>1. IsEntry(c, a) /\ Like(t, a)
  BY DEF IsEntry, Fields, ToldBy, Like, Recalls, Counted
<1>2. IsEntry(c, w) /\ Blank(w)
  BY NewEntry
<1> HIDE DEF a, w
<1> DEFINE Fine(u) == /\ IsEntry(c, u) /\ (Keeps(t, u) \/ Blank(u))
                      /\ p.kind = "syn" /\ t.state # "syn" => Blank(u)
                      /\ p.kind = "data" => u.state # "syn"
<1>3. ASSUME p.kind = "syn" PROVE Fine(b)
  <2> DEFINE v == IF a.state = "syn" THEN a ELSE w
  <2>1. b = [v EXCEPT !.seq0 = p.seq]
    BY <1>3 DEF StateSeen, SynSeen, w
  <2>2. IsEntry(c, v) /\ (Keeps(t, v) \/ Blank(v)) /\ (t.state # "syn" => Blank(v))
    BY <1>1, <1>2 DEF Like, Keeps
  <2> HIDE DEF v, b
  <2> QED
    BY <1>3, <2>1, <2>2 DEF IsEntry, Fields, ToldBy, Keeps, Blank
<1>4. ASSUME p.kind = "synack" PROVE Fine(b)
  <2> DEFINE first == Mod(p.ack - 1)
             v == IF a.state # "syn" /\ a.seq0 # first THEN w ELSE a
  <2>1. b = [v EXCEPT !.seq0 = IF @ = 0 THEN first ELSE @, !.ack0 = p.seq]
    BY <1>4 DEF StateSeen, SynAckSeen, w
  <2>2. IsEntry(c, v) /\ (Keeps(t, v) \/ Blank(v))
    BY <1>1, <1>2 DEF Like, Keeps
  <2> HIDE DEF v, b, first
  <2> QED
    BY <1>4, <2>1, <2>2 DEF IsEntry, Fields, ToldBy, Keeps, Blank
<1>5. ASSUME p.kind \in {"fin", "rst"} PROVE Fine(b)
  <2>1. b = [a EXCEPT !.state = "fin"]
    BY <1>5 DEF StateSeen
  <2> HIDE DEF b
  <2> QED
    BY <1>1, <1>5, <2>1 DEF IsEntry, Fields, ToldBy, Keeps, Like
<1>6. ASSUME p.kind \notin {"syn", "synack", "fin", "rst"} PROVE Fine(b)
  <2> DEFINE z == IF p.dir = "orig" /\ a.ack0 = 0 THEN Mod(p.ack - 1) ELSE a.ack0
  <2>1. b = IF a.state # "syn" THEN a ELSE [a EXCEPT !.state = "established", !.ack0 = z]
    BY <1>6 DEF StateSeen, OtherSeen
  <2> HIDE DEF b, z
  <2> QED
    BY <1>1, <1>6, <2>1 DEF IsEntry, Fields, ToldBy, Keeps, Like
<1>7. Fine(b)
  BY <1>3, <1>4, <1>5, <1>6
<1>8. FeedPacket(t, p, n) = Positions(b, p, n)
  BY DEF FeedPacket, a
<1> HIDE DEF b
<1>9. Fine(Positions(b, p, n))
  <2> DEFINE d == [b EXCEPT !.posOrig = p.ack, !.seqLast = p.ack, !.ackLast = p.seq, !.last = n]
             e == [b EXCEPT !.seqLast = p.seq, !.posOrig = Mod(p.seq + p.len), !.ackLast = p.ack, !.last = n]
  <2>1. Fine(d)
    BY <1>7 DEF IsEntry, Fields, ToldBy, Keeps, Blank
  <2>2. Fine(e)
    BY <1>7 DEF IsEntry, Fields, ToldBy, Keeps, Blank
  <2>3. Positions(b, p, n) = IF p.dir = "reply" THEN d ELSE e
    BY DEF Positions
  <2> HIDE DEF d, e, Fine
  <2> QED
    BY <2>1, <2>2, <2>3
<1> QED
  BY <1>8, <1>9

LEMMA FedFacts ==
  ASSUME NEW p, p.conn \in Conns, EngineTypes
  PROVE  LET P == Purged(table, lastPurge, now)
             f == Fed(P, p, now)
         IN /\ DOMAIN P \subseteq DOMAIN table
            /\ DOMAIN f \subseteq DOMAIN P \cup {p.conn} /\ DOMAIN P \subseteq DOMAIN f
            /\ \A c \in DOMAIN f : IsEntry(c, f[c])
            /\ \A c \in DOMAIN P : c # p.conn => f[c] = table[c]
            /\ \A c \in DOMAIN P : Keeps(table[c], f[c]) \/ Blank(f[c])
            /\ \A c \in DOMAIN f \ DOMAIN P : Blank(f[c])
            /\ p.conn \in DOMAIN P /\ p.kind = "syn" /\ table[p.conn].state # "syn" => Blank(f[p.conn])
            /\ p.conn \in DOMAIN f /\ p.kind = "data" => f[p.conn].state # "syn"
<1> DEFINE P == Purged(table, lastPurge, now)
           f == Fed(P, p, now)
           n == NewTrack(now)
<1>1. DOMAIN P \subseteq DOMAIN table /\ \A c \in DOMAIN P : P[c] = table[c]
  BY DEF Purged
<1>2. \A c \in DOMAIN table : IsEntry(c, table[c]) /\ c \in Conns
  BY DEF EngineTypes
<1>3. IsEntry(p.conn, n) /\ Blank(n)
  BY NewEntry
<1> HIDE DEF P, n
<1>4. CASE p.conn \in DOMAIN P
  <2> DEFINE u == FeedPacket(P[p.conn], p, now)
  <2>1. /\ IsEntry(p.conn, u) /\ (Keeps(P[p.conn], u) \/ Blank(u))
        /\ p.kind = "syn" /\ P[p.conn].state # "syn" => Blank(u)
        /\ p.kind = "data" => u.state # "syn"
    BY <1>1, <1>2, <1>4, FeedFacts
  <2>2. f = [P EXCEPT ![p.conn] = u]
    BY <1>4 DEF Fed
  <2> HIDE DEF u, f
  <2>3. DOMAIN f = DOMAIN P /\ f[p.conn] = u /\ \A c \in DOMAIN P : c # p.conn => f[c] = P[c]
    BY <1>4, <2>2
  <2>4. \A c \in DOMAIN P : Keeps(P[c], P[c])
    BY DEF Keeps
  <2> QED
    BY <1>1, <1>2, <1>4, <2>1, <2>3, <2>4 DEF P, f
<1>5. CASE p.conn \notin DOMAIN P /\ Opens(p)
  <2> DEFINE u == FeedPacket(n, p, now)
  <2>1. /\ IsEntry(p.conn, u) /\ (Keeps(n, u) \/ Blank(u))
        /\ p.kind = "data" => u.state # "syn"
    BY <1>3, FeedFacts
  <2>2. Blank(u)
    BY <1>3, <2>1 DEF Blank, Keeps
  <2>3. f = [c \in DOMAIN P \cup {p.conn} |-> IF c = p.conn THEN u ELSE P[c]]
    BY <1>5 DEF Fed, n
  <2> HIDE DEF u, f
  <2>4. DOMAIN f = DOMAIN P \cup {p.conn} /\ f[p.conn] = u /\ \A c \in DOMAIN P : f[c] = P[c]
    BY <1>5, <2>3
  <2>5. \A c \in DOMAIN P : Keeps(P[c], P[c])
    BY DEF Keeps
  <2> QED
    BY <1>1, <1>2, <1>5, <2>1, <2>2, <2>4, <2>5 DEF P, f
<1>6. CASE p.conn \notin DOMAIN P /\ ~Opens(p)
  <2>1. f = P
    BY <1>6 DEF Fed
  <2>2. \A c \in DOMAIN P : Keeps(P[c], P[c])
    BY DEF Keeps
  <2> QED
    BY <1>1, <1>2, <1>6, <2>1, <2>2 DEF P, f
<1> QED
  BY <1>4, <1>5, <1>6

-----------------------------------------------------------------------------
\* What a step of the engine may do to the entry and to what was sent.
Only(tbl) == DOMAIN tbl = DOMAIN table /\ \A c \in DOMAIN table : c # cur.conn => tbl[c] = table[c]
Quiet(tbl) ==
  /\ Only(tbl)
  /\ Tracked => LET t == tbl[cur.conn]
                IN /\ IsEntry(cur.conn, t) /\ t.state = T.state /\ Recalls(T, t)
                   /\ t.reasm = T.reasm /\ t.delayed = T.delayed
Shut(tbl) ==
  /\ Only(tbl)
  /\ Tracked => LET t == tbl[cur.conn]
                IN /\ IsEntry(cur.conn, t) /\ t.state = T.state /\ Recalls(T, t)
                   /\ t.reasm = (IF replay THEN T.reasm ELSE NoReasm)
                   /\ t.delayed = (IF replay THEN T.delayed ELSE <<>>)
N == table'[cur.conn]
SameDp == Tracked => N.dp = T.dp
SendsAsIs == Quiet(table') /\ out' = Append(out, AsOrig(cur))
GivesUp ==
  /\ Shut(table') /\ pc' = After
  /\ \E how \in {"orig", "split"} : out' = Append(out \o AllOrig(Held), [p |-> cur, how |-> how])
GoesOn == Quiet(table') /\ out' = out
ClosesAndGoesOn == Shut(table') /\ out' = out \o AllOrig(Held)
JoinsIt ==
  /\ Tracked /\ Only(table') /\ IsEntry(cur.conn, N) /\ N.state = T.state /\ Recalls(T, N) /\ out' = out
  /\ T.reasm.size # 0 /\ T.reasm.seq = cur.seq
  /\ N.reasm = ReasmFed(T.reasm, cur.len) /\ N.delayed = T.delayed
  /\ loc'.at = T.reasm.at /\ loc'.len = T.reasm.have + Room(T.reasm, cur.len)
HoldsIt ==
  /\ Real /\ Only(table') /\ IsEntry(cur.conn, N) /\ N.state = T.state /\ Recalls(T, N) /\ out' = out
  /\ N.l7 # "unknown"
  /\ N.delayed = Append(T.delayed, cur) /\ SameDp
  /\ \/ T.reasm.size # 0 /\ N.reasm = T.reasm
     \/ /\ T.reasm.size = 0 /\ N.reasm = ReasmStarted(S.hello, cur)
        /\ S.l7 = "tls" /\ loc.at = 1 /\ loc.len > 0 /\ loc.len < S.hello
  /\ pc' = IF ReasmIsFull(N.reasm) THEN "replay" ELSE "done"

Here == EngineTypes /\ ListInv /\ pc # "idle"
Stays == cur' = cur /\ replay' = replay

LEMMA QuietTable == ASSUME Here PROVE Quiet(table)
  BY RecallsFacts DEF Here, EngineTypes, Quiet, Only, Tracked, T

LEMMA EnteredFacts ==
  ASSUME Tracked, NEW u, IsEntry(cur.conn, u),
         u.state = T.state, u.reasm = T.reasm, u.delayed = T.delayed, Recalls(T, u)
  PROVE  Quiet([table EXCEPT ![cur.conn] = u]) /\ [table EXCEPT ![cur.conn] = u][cur.conn] = u
  BY DEF Quiet, Only, Tracked

LEMMA CancelInFacts ==
  ASSUME NEW tbl, Quiet(tbl)
  PROVE  Shut(CancelIn(tbl)) /\ (Tracked => CancelIn(tbl)[cur.conn].dp = tbl[cur.conn].dp)
<1> DEFINE c == cur.conn
           u == Cancelled(tbl[c])
           w == [tbl EXCEPT ![c] = u]
<1>1. CASE replay \/ ~Tracked
  BY <1>1 DEF Quiet, Shut, CancelIn
<1>2. CASE ~replay /\ Tracked
  <2>1. CancelIn(tbl) = w
    BY <1>2 DEF CancelIn
  <2>2. c \in DOMAIN tbl
    BY <1>2 DEF Quiet, Only, Tracked
  <2>3. w[c] = u /\ DOMAIN w = DOMAIN tbl /\ \A d \in DOMAIN tbl : d # c => w[d] = tbl[d]
    BY <2>2
  <2>4. /\ IsEntry(c, u) /\ u.reasm = NoReasm /\ u.delayed = <<>> /\ u.state = T.state /\ u.dp = tbl[c].dp
        /\ Recalls(T, u)
    BY <1>2, CancelledEntry, RecallsFacts DEF Quiet
  <2> HIDE DEF u, w
  <2> QED
    BY <1>2, <2>1, <2>3, <2>4 DEF Quiet, Shut, Only
<1> QED
  BY <1>1, <1>2

LEMMA GivesUpFacts ==
  ASSUME NEW tbl, Quiet(tbl), CancelAndSendOrig(tbl) PROVE GivesUp
<1>1. AsOrig(cur) = [p |-> cur, how |-> "orig"]
  BY DEF AsOrig
<1> QED
  BY <1>1, CancelInFacts DEF CancelAndSendOrig, GivesUp

-----------------------------------------------------------------------------
\* One lemma for each action.
LEMMA KnownHostTyped == ASSUME Here PROVE IsHost(KnownHost)
<1>1. Tracked => IsHost(T.host)
  BY DEF Here, EngineTypes, Tracked, T, IsEntry, ToldBy, Told
<1>2. IsHost(CachedHost)
  BY DEF Here, ListInv, ListTypes, NameTypes, CachedHost, IsHost
<1> QED
  BY <1>1, <1>2 DEF KnownHost, IsHost

LEMMA FindProfileFacts ==
  ASSUME Here, Tracked /\ T.dp = 0 => T.delayed = <<>>, FindProfile
  PROVE  /\ Stays /\ loc' = loc /\ back' = back
         /\ \/ SendsAsIs /\ pc' = After /\ (Tracked => T.delayed = <<>>)
            \/ GoesOn /\ pc' = "limits" /\ (Tracked => N.dp # 0)
<1>1. Stays /\ loc' = loc /\ back' = back
  BY DEF FindProfile, Stays
<1>2. (dp' # 0 /\ pc' = "limits" /\ out' = out) \/ (dp' = 0 /\ SendOrig)
  BY DEF FindProfile
<1>3. CASE UseCached
  <2>1. Tracked /\ dp' = T.dp /\ table' = table /\ Quiet(table')
    BY <1>3, QuietTable DEF UseCached
  <2> QED
    BY <1>1, <1>2, <2>1 DEF SendsAsIs, SendOrig, GoesOn, N, T
<1>4. CASE Search
  <2> DEFINE proto == IF Tracked THEN T.l7 ELSE "unknown"
  <2>1. PICK found : /\ Searched(found) /\ (Tracked => T.dp = 0 /\ ~(T.dpSearched = TRUE))
                     /\ found = DpFind(mem, disk, Target(cur), KnownHost, proto)
    BY <1>4 DEF Search
  <2>2. Tracked => T.delayed = <<>>
    BY <2>1
  <2> DEFINE d == found.dp
             h == KnownHost
             u == [T EXCEPT !.dp = d, !.dpSearched = TRUE, !.host = h]
             w == [table EXCEPT ![cur.conn].dp = d, ![cur.conn].dpSearched = TRUE, ![cur.conn].host = h]
  <2>3. dp' = d /\ table' = IF Tracked THEN w ELSE table
    BY <2>1 DEF Searched
  <2>6. d \in 0..Len(Profiles)
    BY <2>1, FindTyped
  <2>7. IsHost(h)
    BY KnownHostTyped
  <2> HIDE DEF d, h
  <2>4. Tracked => Quiet(w) /\ w[cur.conn].dp = d
    <3>1. SUFFICES ASSUME Tracked PROVE Quiet(w) /\ w[cur.conn].dp = d
      OBVIOUS
    <3>2. IsEntry(cur.conn, T)
      BY <3>1 DEF Here, EngineTypes, Tracked, T
    <3>5. ~(T.hostFound = TRUE) /\ ~(T.check.done = TRUE)
      BY <2>1, <3>1, <3>2 DEF IsEntry, ToldBy, Told
    <3>6. ToldBy(cur.conn, u)
      <4>1. u.host = h /\ u.dp = d /\ u.hostFound = T.hostFound /\ u.check = T.check
        BY <3>2 DEF IsEntry, Fields
      <4> QED
        BY <2>6, <2>7, <3>5, <4>1 DEF ToldBy, Told
    <3>3. /\ IsEntry(cur.conn, u) /\ u.dp = d
          /\ u.state = T.state /\ u.reasm = T.reasm /\ u.delayed = T.delayed /\ Recalls(T, u)
      BY <3>2, <3>5, <3>6 DEF IsEntry, Fields, Recalls
    <3>4. w = [table EXCEPT ![cur.conn] = u]
      BY <3>1 DEF Tracked, T
    <3> HIDE DEF u, w
    <3> QED
      BY <3>1, <3>3, <3>4, EnteredFacts
  <2> HIDE DEF w, u
  <2>5. Quiet(table') /\ (Tracked => N.dp = d)
    BY <2>3, <2>4, QuietTable DEF N
  <2> QED
    BY <1>1, <1>2, <2>2, <2>3, <2>5 DEF SendsAsIs, SendOrig, GoesOn
<1> QED
  BY <1>3, <1>4 DEF FindProfile

LEMMA LimitsFacts ==
  ASSUME Here, Limits
  PROVE  /\ Stays /\ loc' = loc /\ back' = back
         /\ GoesOn /\ SameDp /\ pc' = IF Tracked /\ cur.dir = "reply" THEN "inbound" ELSE "gate"
<1> DEFINE u == MaybeCutoff(T, DP)
           w == [table EXCEPT ![cur.conn] = u]
<1>1. Stays /\ loc' = loc /\ back' = back /\ out' = out /\ pc' = IF Tracked /\ cur.dir = "reply" THEN "inbound" ELSE "gate"
  BY DEF Limits, Stays
<1>2. table' = IF Tracked THEN w ELSE table
  BY DEF Limits, T
<1>3. Tracked => Quiet(w) /\ w[cur.conn].dp = T.dp
  <2>1. SUFFICES ASSUME Tracked PROVE Quiet(w) /\ w[cur.conn].dp = T.dp
    OBVIOUS
  <2>2. IsEntry(cur.conn, u) /\ Like(T, u)
    <3>1. IsEntry(cur.conn, T)
      BY <2>1 DEF Here, EngineTypes, Tracked, T
    <3> QED
      BY <3>1, CutoffEntry
  <2> HIDE DEF u
  <2> QED
    BY <2>1, <2>2, EnteredFacts DEF Like
<1> HIDE DEF w, u
<1> QED
  BY <1>1, <1>2, <1>3, QuietTable DEF GoesOn, SameDp, N

LEMMA InboundFacts ==
  ASSUME Here, Inbound
  PROVE  /\ Stays /\ loc' = loc
         /\ SendsAsIs /\ SameDp /\ (pc' = "done" \/ (pc' = "recheck" /\ back'.to = "done"))
<1> DEFINE u == [T EXCEPT !.host = NoHost]
           w == [table EXCEPT ![cur.conn] = u]
<1>1. Stays /\ loc' = loc /\ out' = Append(out, AsOrig(cur))
  BY DEF Inbound, Stays
<1>2. pc' = "done" \/ (pc' = "recheck" /\ back'.to = "done")
  BY DEF Inbound, Answered, Unremarkable, CountFail
<1>3. table' = table \/ (Tracked /\ table' = w)
  BY DEF Inbound, Answered, Unremarkable, FirstAnswer, T
<1>4. Tracked => Quiet(w) /\ w[cur.conn].dp = T.dp
  <2>1. SUFFICES ASSUME Tracked PROVE Quiet(w) /\ w[cur.conn].dp = T.dp
    OBVIOUS
  <2>2. IsEntry(cur.conn, u) /\ Like(T, u)
    <3>1. IsEntry(cur.conn, T)
      BY <2>1 DEF Here, EngineTypes, Tracked, T
    <3>2. ToldBy(cur.conn, u)
      <4>1. /\ u.host = NoHost /\ u.dp = T.dp /\ u.hostFound = T.hostFound /\ u.check = T.check /\ u.l7 = T.l7
            /\ u.l7Found = T.l7Found /\ u.dpSearched = T.dpSearched
        BY <3>1 DEF IsEntry, Fields
      <4> QED
        BY <3>1, <4>1 DEF IsEntry, ToldBy, Told, IsHost
    <3> QED
      BY <3>1, <3>2 DEF IsEntry, Fields, Like, Recalls
  <2> HIDE DEF u
  <2> QED
    BY <2>1, <2>2, EnteredFacts DEF Like
<1> HIDE DEF w, u
<1> QED
  BY <1>1, <1>2, <1>3, <1>4, QuietTable DEF SendsAsIs, SameDp, N, T

LEMMA ListStepFacts ==
  ASSUME Here, RecheckFailed \/ AppendHost \/ SignList
  PROVE  /\ Stays /\ table' = table /\ out' = out /\ loc' = loc /\ back' = back
         /\ pc \in ListSteps /\ pc' \in ListSteps \cup {back.to}
  BY DEF RecheckFailed, AppendHost, SignList, Stays, ListSteps

LEMMA GateFacts ==
  ASSUME Here, Gate
  PROVE  /\ Stays /\ loc' = loc /\ back' = back
         /\ \/ GivesUp
            \/ GoesOn /\ SameDp /\ pc' = "payload" /\ cur.len > 0
            \/ SendsAsIs /\ SameDp /\ pc' = After /\ ~(cur.len > 0 /\ cur.kind # "syn")
<1>1. Stays /\ loc' = loc /\ back' = back /\ Quiet(table)
  BY QuietTable DEF Gate, Stays
<1>2. \/ CancelAndSendOrig(table)
      \/ cur.len > 0 /\ cur.kind # "syn" /\ pc' = "payload" /\ table' = table /\ out' = out
      \/ ~(cur.len > 0 /\ cur.kind # "syn") /\ SendOrig /\ table' = table
  BY DEF Gate
<1> QED
  BY <1>1, <1>2, GivesUpFacts DEF SendsAsIs, SendOrig, GoesOn, SameDp, N, T

LEMMA PayloadFacts ==
  ASSUME Here, ~replay, Payload
  PROVE  /\ Stays /\ SameDp
         /\ pc' = "classify" \/ (pc' = "recheck" /\ back'.to = "classify")
         /\ \/ JoinsIt
            \/ ClosesAndGoesOn /\ loc'.at = cur.at /\ loc'.len = cur.len
            \/ /\ GoesOn /\ loc'.at = cur.at /\ loc'.len = cur.len
               /\ Tracked => T.reasm.size = 0
<1> DEFINE r == Reassembled(T)
           u == IF RetransCounts THEN AfterRetrans(r, DP) ELSE r
           w == [table EXCEPT ![cur.conn] = u]
<1>1. /\ Stays /\ loc' = [NoLoc EXCEPT !.at = Seen.at, !.len = Seen.len]
      /\ pc' = "classify" \/ (pc' = "recheck" /\ back'.to = "classify")
      /\ out' = out \o Freed /\ table' = IF Tracked THEN w ELSE table
  BY DEF Payload, Stays, CountFail, r, u, w
<1>2. loc'.at = Seen.at /\ loc'.len = Seen.len
  BY <1>1 DEF NoLoc
<1>3. out \in Seq(Out) /\ cur.len \in Nat
  BY DEF Here, EngineTypes, Packet
<1>4. CASE ~Tracked
  <2>1. Seen.at = cur.at /\ Seen.len = cur.len /\ Freed = <<>>
    BY <1>4 DEF Seen, Freed, Joins, Breaks
  <2>2. table' = table /\ out' = out
    BY <1>1, <1>3, <1>4, <2>1, ConcatEmptySeq
  <2> QED
    BY <1>1, <1>2, <1>4, <2>1, <2>2, QuietTable DEF GoesOn, SameDp
<1>5. CASE Tracked
  <2>1. IsEntry(cur.conn, T)
    BY <1>5 DEF Here, EngineTypes, Tracked, T
  <2>2. ASSUME IsEntry(cur.conn, r), r.state = T.state, r.dp = T.dp, Recalls(T, r)
        PROVE  /\ Only(table') /\ N = u /\ IsEntry(cur.conn, N) /\ N.state = T.state /\ N.dp = T.dp
               /\ Recalls(T, N)
               /\ N.reasm = r.reasm /\ N.delayed = r.delayed
    <3>1. IsEntry(cur.conn, u) /\ Like(r, u)
      <4> HIDE DEF r
      <4>1. IsEntry(cur.conn, AfterRetrans(r, DP)) /\ Like(r, AfterRetrans(r, DP))
        BY <2>2, RetransEntry
      <4> QED
        BY <2>2, <4>1, LikeFacts
    <3> HIDE DEF u, r
    <3>2. table' = [table EXCEPT ![cur.conn] = u]
      BY <1>1, <1>5
    <3>3. N = u /\ Only(table')
      BY <1>5, <3>2 DEF N, Only, Tracked
    <3> QED
      BY <2>2, <3>1, <3>3, RecallsFacts DEF Like
  <2>3. CASE Joins
    <3>1. T.reasm.size # 0 /\ T.reasm.seq = cur.seq
      BY <2>3 DEF Joins, ReasmIsEmpty, ReasmAccepts
    <3> DEFINE f == ReasmFed(T.reasm, cur.len)
    <3>2. r = [T EXCEPT !.reasm = f]
      BY <2>3 DEF Reassembled
    <3>3. f \in Reasm
      BY <1>3, <2>1, ReasmFedFacts DEF IsEntry
    <3> HIDE DEF f
    <3>4. /\ IsEntry(cur.conn, r) /\ r.state = T.state /\ r.dp = T.dp /\ r.reasm = f /\ r.delayed = T.delayed
          /\ Recalls(T, r)
      BY <2>1, <3>2, <3>3 DEF IsEntry, Fields, ToldBy, Recalls
    <3>5. Freed = <<>> /\ Seen.at = T.reasm.at /\ Seen.len = T.reasm.have + Room(T.reasm, cur.len)
      BY <2>3 DEF Freed, Breaks, Joins, Seen
    <3>6. out' = out
      BY <1>1, <1>3, <3>5, ConcatEmptySeq
    <3> HIDE DEF r
    <3> QED
      BY <1>1, <1>2, <1>5, <2>2, <3>1, <3>4, <3>5, <3>6 DEF JoinsIt, SameDp, f, r
  <2>4. CASE Breaks
    <3>1. r = Cancelled(T) /\ Freed = AllOrig(Held) /\ Seen.at = cur.at /\ Seen.len = cur.len
      BY <1>5, <2>4 DEF Reassembled, Freed, Breaks, Joins, Seen, Held
    <3>2. /\ IsEntry(cur.conn, r) /\ r.state = T.state /\ r.dp = T.dp /\ r.reasm = NoReasm /\ r.delayed = <<>>
          /\ Recalls(T, r)
      BY <2>1, <3>1, CancelledEntry
    <3> HIDE DEF r
    <3>3. Shut(table') /\ SameDp
      BY <2>2, <3>2 DEF Shut, SameDp, N, r
    <3> QED
      BY <1>1, <1>2, <3>1, <3>3 DEF ClosesAndGoesOn
  <2>5. CASE ~Joins /\ ~Breaks
    <3>1. r = T /\ Freed = <<>> /\ Seen.at = cur.at /\ Seen.len = cur.len /\ T.reasm.size = 0
      BY <1>5, <2>5 DEF Reassembled, Freed, Joins, Breaks, Seen, ReasmIsEmpty
    <3>2. out' = out
      BY <1>1, <1>3, <3>1, ConcatEmptySeq
    <3>3. Only(table') /\ IsEntry(cur.conn, N) /\ N.state = T.state /\ N.dp = T.dp
          /\ N.reasm = T.reasm /\ N.delayed = T.delayed /\ Recalls(T, N)
      BY <2>1, <2>2, <3>1, RecallsFacts
    <3> QED
      BY <1>1, <1>2, <3>1, <3>2, <3>3 DEF GoesOn, Quiet, SameDp, N
  <2> QED
    BY <2>3, <2>4, <2>5
<1> QED
  BY <1>4, <1>5

LEMMA StartedFacts ==
  ASSUME NEW n \in Nat, NEW p \in Packet
  PROVE  LET r == ReasmStarted(n, p)
             m == IF p.len < n THEN p.len ELSE n
         IN r \in Reasm /\ r.size = n /\ r.at = p.at /\ r.have = m /\ r.seq = Mod(p.seq + m)
<1> DEFINE e == [size |-> n, have |-> 0, seq |-> p.seq, at |-> p.at]
<1>1. p.len \in Nat /\ p.at \in Nat /\ p.seq \in 0..(SeqSpace - 1)
  BY DEF Packet
<1>2. e \in Reasm /\ e.size = n /\ e.at = p.at /\ e.have = 0 /\ e.seq = p.seq
  BY <1>1 DEF Reasm
<1>3. Room(e, p.len) = IF p.len < n THEN p.len ELSE n
  BY <1>1, <1>2 DEF Room
<1>4. ReasmStarted(n, p) = ReasmFed(e, p.len)
  BY DEF ReasmStarted
<1> HIDE DEF e
<1>5. 0 + Room(e, p.len) = Room(e, p.len)
  BY <1>1, <1>3
<1> DEFINE f == ReasmFed(e, p.len)
           k == Room(e, p.len)
<1>6. f \in Reasm /\ f.size = e.size /\ f.at = e.at /\ f.have = e.have + k /\ f.seq = Mod(e.seq + k)
  BY <1>1, <1>2, ReasmFedFacts
<1> HIDE DEF f
<1>7. f.have = k /\ f.seq = Mod(p.seq + k)
  BY <1>2, <1>5, <1>6
<1> HIDE DEF k
<1> QED
  BY <1>2, <1>3, <1>4, <1>6, <1>7 DEF f, k

LEMMA HelloEntry ==
  ASSUME Here, NEW c, NEW t, IsEntry(c, t)
  PROVE  LET u == HelloSeen(t)
         IN /\ IsEntry(c, u) /\ u.state = t.state /\ u.dp = t.dp /\ u.delayed = t.delayed
            /\ u.reasm = IF Starts(t) THEN ReasmStarted(S.hello, cur) ELSE t.reasm
            /\ Recalls(t, u) /\ u.l7 # "unknown"
<1> DEFINE r == ReasmStarted(S.hello, cur)
           t1 == WithL7(t, "tls")
           t2 == IF Starts(t) THEN [t1 EXCEPT !.reasm = r] ELSE t1
           t3 == RequestSeen(t2, IsFull)
           t4 == ForcedWsizeCut(t3, DP)
<1>1. r \in Reasm
  <2>1. S.hello \in Nat /\ cur \in Packet
    BY FlowAssumption DEF Here, EngineTypes, S
  <2> QED
    BY <2>1, StartedFacts
<1>2. IsEntry(c, t1) /\ Like(t, t1) /\ t1.l7 # "unknown"
  <2>1. t1.l7 # "unknown"
    BY DEF WithL7, IsEntry, Fields
  <2> QED
    BY <2>1, RequestEntry
<1>3. IsEntry(c, t2) /\ t2.state = t.state /\ t2.dp = t.dp /\ t2.delayed = t.delayed
      /\ t2.reasm = (IF Starts(t) THEN r ELSE t.reasm) /\ Recalls(t, t2) /\ t2.l7 # "unknown"
  <2> DEFINE x == [t1 EXCEPT !.reasm = r]
  <2> HIDE DEF r, t1
  <2>1. /\ IsEntry(c, x) /\ x.reasm = r /\ Recalls(t1, x) /\ x.state = t1.state /\ x.dp = t1.dp
        /\ x.delayed = t1.delayed /\ x.l7 = t1.l7
    BY <1>1, <1>2 DEF IsEntry, Fields, ToldBy, Recalls
  <2>2. t2 = IF Starts(t) THEN x ELSE t1
    BY DEF t1, r
  <2> HIDE DEF x, t2
  <2> QED
    BY <1>2, <2>1, <2>2, RecallsFacts DEF Like
<1>4. IsEntry(c, t3) /\ Like(t2, t3)
  <2> HIDE DEF t2
  <2> QED
    BY <1>3, RequestEntry
<1>5. IsEntry(c, t4) /\ Like(t3, t4)
  <2> HIDE DEF t3
  <2> QED
    BY <1>4, WsizeEntry
<1>6. HelloSeen(t) = t4 \/ HelloSeen(t) = t3
  BY DEF HelloSeen
<1> HIDE DEF t1, t2, t3, t4, r
<1>7. \A u \in {t3, t4} : /\ IsEntry(c, u) /\ u.state = t.state /\ u.dp = t.dp /\ u.delayed = t.delayed
                          /\ u.reasm = IF Starts(t) THEN r ELSE t.reasm
  BY <1>3, <1>4, <1>5 DEF Like
<1>8. \A u \in {t3, t4} : Recalls(t, u) /\ u.l7 # "unknown"
  <2>1. Recalls(t, t3) /\ t3.l7 = t2.l7 /\ Recalls(t, t4) /\ t4.l7 = t3.l7
    BY <1>3, <1>4, <1>5, RecallsFacts DEF Like, Recalls
  <2> QED
    BY <1>3, <2>1
<1> QED
  BY <1>6, <1>7, <1>8 DEF r

LEMMA HeldTyped == ASSUME Here PROVE AllOrig(Held) \in Seq(Out) /\ Held \in Seq(Packet)
<1>1. Held \in Seq(Packet)
  <2>1. Tracked => T.delayed \in Seq(Segments(cur.conn))
    BY DEF Here, EngineTypes, Tracked, T, IsEntry
  <2>2. Segments(cur.conn) \subseteq Packet
    BY DEF Segments
  <2>3. Tracked => T.delayed \in Seq(Packet)
    BY <2>1, <2>2, SeqMonotonic
  <2> QED
    BY <2>3 DEF Held
<1> DEFINE h == Held
<1>2. AllOrig(h) = [i \in 1..Len(h) |-> AsOrig(h[i])] /\ Len(h) \in Nat
  BY <1>1 DEF AllOrig
<1>3. \A i \in 1..Len(h) : AsOrig(h[i]) \in Out
  BY <1>1 DEF AsOrig, Out
<1> HIDE DEF h
<1>4. AllOrig(h) \in Seq(Out)
  BY <1>2, <1>3
<1> QED
  BY <1>1, <1>4 DEF h

LEMMA ClassifyFacts ==
  ASSUME Here, Classify, Tracked => (Real => Grown(cur.conn, T)), Real => cur \in Segments(cur.conn)
  PROVE  /\ Stays /\ back' = back
         /\ \/ GivesUp
            \/ ClosesAndGoesOn /\ pc' = "discover"
            \/ HoldsIt
            \/ GoesOn /\ pc' = "discover" /\ (Real => T.reasm.size = 0)
<1>1. Stays /\ back' = back
  BY DEF Classify, Stays
<1>2. out \in Seq(Out) /\ cur \in Packet /\ Quiet(table) /\ (Tracked => IsEntry(cur.conn, T))
  BY QuietTable DEF Here, EngineTypes, Tracked, T
<1>3. CASE ClassifyHttp
  <2> DEFINE t == WithL7(Cancelled(T), "http")
             u == IF DP.noForced THEN t ELSE ForcedWsizeCut(t, DP)
             v == IF HasHost THEN HttpRequestSeen(u) ELSE u
  <2>1. Shut(table')
    <3>1. CASE ~Real
      BY <1>2, <1>3, <3>1 DEF ClassifyHttp, Real, Shut, Quiet
    <3>2. CASE Real
      <4>1. /\ IsEntry(cur.conn, t) /\ t.reasm = NoReasm /\ t.delayed = <<>> /\ t.state = T.state
            /\ Recalls(T, t)
        <5> DEFINE a == Cancelled(T)
        <5>1. IsEntry(cur.conn, a) /\ a.reasm = NoReasm /\ a.delayed = <<>> /\ a.state = T.state /\ Recalls(T, a)
          BY <1>2, <3>2, CancelledEntry DEF Real
        <5> DEFINE b == WithL7(a, "http")
        <5> HIDE DEF a
        <5>2. IsEntry(cur.conn, b) /\ Like(a, b)
          BY <5>1, RequestEntry
        <5> HIDE DEF b
        <5>3. IsEntry(cur.conn, b) /\ b.reasm = NoReasm /\ b.delayed = <<>> /\ b.state = T.state /\ Recalls(T, b)
          BY <5>1, <5>2, RecallsFacts DEF Like
        <5> QED
          BY <5>3 DEF a, b
      <4> HIDE DEF t
      <4>2. IsEntry(cur.conn, u) /\ Like(t, u)
        <5>1. IsEntry(cur.conn, ForcedWsizeCut(t, DP)) /\ Like(t, ForcedWsizeCut(t, DP))
          BY <4>1, WsizeEntry
        <5> QED
          BY <4>1, <5>1, LikeFacts
      <4> HIDE DEF u
      <4>3. IsEntry(cur.conn, v) /\ Like(u, v)
        <5>1. IsEntry(cur.conn, HttpRequestSeen(u)) /\ Like(u, HttpRequestSeen(u))
          BY <4>2, RequestEntry
        <5> QED
          BY <4>2, <5>1, LikeFacts
      <4>4. table' = [table EXCEPT ![cur.conn] = v]
        BY <1>3, <3>2 DEF ClassifyHttp, t, u
      <4> HIDE DEF v
      <4>5. table'[cur.conn] = v /\ Only(table')
        BY <3>2, <4>4 DEF Real, Tracked, Only
      <4>6. IsEntry(cur.conn, v) /\ v.state = T.state /\ v.reasm = NoReasm /\ v.delayed = <<>> /\ Recalls(T, v)
        BY <4>1, <4>2, <4>3, RecallsFacts DEF Like
      <4> QED
        BY <3>2, <4>5, <4>6 DEF Shut, Real
    <3> QED
      BY <3>1, <3>2
  <2> DEFINE o == out \o AllOrig(Held)
             x == [p |-> cur, how |-> "orig"]
  <2>2. o \in Seq(Out)
    <3>1. AllOrig(Held) \in Seq(Out)
      BY HeldTyped
    <3> QED
      BY <1>2, <3>1
  <2>3. out' = o \o (IF HasHost THEN <<>> ELSE <<x>>) /\ pc' = IF HasHost THEN "discover" ELSE After
    BY <1>3 DEF ClassifyHttp, AsOrig
  <2>4. CASE HasHost
    <3> HIDE DEF o
    <3>1. out' = o
      BY <2>2, <2>3, <2>4, ConcatEmptySeq
    <3> QED
      BY <1>1, <2>1, <2>3, <2>4, <3>1 DEF ClosesAndGoesOn, o
  <2>5. CASE ~HasHost
    <3>1. x \in Out
      BY <1>2 DEF Out
    <3> HIDE DEF o, x
    <3>2. out' = Append(o, x)
      BY <2>2, <2>3, <2>5, <3>1, AppendIsConcat
    <3> QED
      BY <1>1, <2>1, <2>3, <2>5, <3>2 DEF GivesUp, o, x
  <2> QED
    BY <2>4, <2>5
<1>4. CASE IsTLSClientHello /\ HoldHello
  <2> DEFINE t == HelloSeen(T)
             u == [t EXCEPT !.delayed = Append(T.delayed, cur)]
  <2>1. /\ Real /\ ~ReasmIsEmpty(t.reasm) /\ out' = out
        /\ table' = [table EXCEPT ![cur.conn] = [t EXCEPT !.delayed = Append(@, cur)]]
        /\ pc' = IF ReasmIsFull(t.reasm) THEN "replay" ELSE "done"
    BY <1>4 DEF HoldHello
  <2>2. /\ IsEntry(cur.conn, t) /\ t.state = T.state /\ t.dp = T.dp /\ t.delayed = T.delayed
        /\ t.reasm = (IF Starts(T) THEN ReasmStarted(S.hello, cur) ELSE T.reasm)
        /\ Recalls(T, t) /\ t.l7 # "unknown"
    BY <1>2, <2>1, HelloEntry DEF Real
  <2> HIDE DEF t
  <2>3. IsEntry(cur.conn, u) /\ u.state = t.state /\ u.dp = t.dp /\ u.reasm = t.reasm
        /\ u.delayed = Append(T.delayed, cur) /\ Recalls(t, u) /\ u.l7 = t.l7
    <3>1. Append(T.delayed, cur) \in Seq(Segments(cur.conn))
      BY <2>1, <2>2 DEF IsEntry
    <3> QED
      BY <2>2, <3>1 DEF IsEntry, Fields, ToldBy, Recalls
  <2>4. table' = [table EXCEPT ![cur.conn] = u]
    BY <2>1, <2>2
  <2> HIDE DEF u
  <2>5. N = u /\ Only(table')
    BY <2>1, <2>4 DEF N, Only, Real, Tracked
  <2>6. \/ T.reasm.size # 0 /\ N.reasm = T.reasm
        \/ /\ T.reasm.size = 0 /\ N.reasm = ReasmStarted(S.hello, cur)
           /\ S.l7 = "tls" /\ loc.at = 1 /\ loc.len > 0 /\ loc.len < S.hello
    <3>1. CASE Starts(T)
      <4>1. T.reasm.size = 0 /\ ~IsFull /\ N.reasm = ReasmStarted(S.hello, cur)
        BY <2>2, <2>3, <2>5, <3>1 DEF Starts, ReasmIsEmpty
      <4>2. loc.len = cur.len /\ loc.len \in Nat /\ S.hello \in Nat
        BY <1>2, <2>1, <4>1, FlowAssumption DEF Grown, Real, Packet, Here, EngineTypes, S
      <4> QED
        BY <1>4, <4>1, <4>2 DEF IsFull, IsTLSClientHello
    <3>2. CASE ~Starts(T)
      BY <2>1, <2>2, <2>3, <2>5, <3>2 DEF ReasmIsEmpty
    <3> QED
      BY <3>1, <3>2
  <2> QED
    BY <1>1, <2>1, <2>2, <2>3, <2>5, <2>6, RecallsFacts DEF HoldsIt, SameDp
<1>5. CASE IsTLSClientHello /\ HelloTooLarge
  <2> DEFINE u == WithL7(T, "tls")
             w == [table EXCEPT ![cur.conn] = u]
  <2>1. Tracked /\ CancelAndSendOrig(w)
    BY <1>5 DEF HelloTooLarge, Real, T
  <2>2. IsEntry(cur.conn, u) /\ Like(T, u)
    BY <1>2, <2>1, RequestEntry
  <2> HIDE DEF u
  <2>3. Quiet(w)
    BY <2>1, <2>2, EnteredFacts DEF Like
  <2> HIDE DEF w
  <2> QED
    BY <1>1, <2>1, <2>3, GivesUpFacts
<1>6. CASE IsTLSClientHello /\ HelloAtHand
  <2> DEFINE u == HelloSeen(T)
             w == IF Real THEN [table EXCEPT ![cur.conn] = u] ELSE table
  <2>1. /\ Real => ~Starts(T) /\ T.reasm.size = 0
        /\ CancelAndSendOrig(w) \/ (table' = w /\ pc' = "discover" /\ out' = out)
    BY <1>6 DEF HelloAtHand, T, ReasmIsEmpty
  <2>2. Real => /\ IsEntry(cur.conn, u) /\ u.state = T.state /\ u.reasm = T.reasm /\ u.delayed = T.delayed
                /\ Recalls(T, u)
    BY <1>2, <2>1, HelloEntry DEF Real
  <2> HIDE DEF u
  <2>3. Quiet(w)
    BY <1>2, <2>2, EnteredFacts DEF Real
  <2> HIDE DEF w
  <2> QED
    BY <1>1, <2>1, <2>3, GivesUpFacts DEF GoesOn
<1>7. CASE ClassifyOther
  <2>1. Real => T.reasm.size = 0
    BY <1>7 DEF ClassifyOther, Grown, IsTLSClientHello, S, Real
  <2> QED
    BY <1>1, <1>2, <1>7, <2>1 DEF ClassifyOther, GoesOn
<1> QED
  BY <1>3, <1>4, <1>5, <1>6, <1>7 DEF Classify, ClassifyTls

\* What a search finds: the choice for the name and the protocol, as long as
\* nobody edits the lists.
Choice == DpFind(mem, disk, Target(cur), HostNow, L7Now)

LEMMA HostNowFacts ==
  ASSUME Here
  PROVE  /\ IsHost(HostNow) /\ IsHost(S.host)
         /\ FindsHost => HostNow = S.host
<1>1. S.host \in Hosts
  BY FlowAssumption DEF Here, EngineTypes, S
<1>2. Tracked => IsHost(T.host)
  BY DEF Here, EngineTypes, Tracked, T, IsEntry, ToldBy, Told
<1>3. FindsHost => HostNow = S.host
  BY DEF HostNow, FindsHost
<1>4. HostNow \in {S.host, NoHost} \/ (Tracked /\ HostNow = T.host)
  BY DEF HostNow
<1> QED
  BY <1>1, <1>2, <1>3, <1>4 DEF IsHost

LEMMA ChoiceFacts ==
  ASSUME Here
  PROVE  /\ Choice.dp \in 0..Len(Profiles)
         /\ Calm => Settled(Choice.mem, disk) /\ IsChoice(Choice.dp, Target(cur), HostNow, L7Now)
  BY FindTyped, FindSettled DEF Here, ListInv, MemInv, Calm, Choice

LEMMA CheckDoneFacts ==
  ASSUME NEW m, NEW i, NEW h, CheckDone(m, i, h).done = TRUE
  PROVE  i # 0 /\ Profiles[i].auto = NoFile /\ CheckDone(m, i, h).result = TRUE
  BY DEF CheckDone, NoCheck

LEMMA RediscoveredEntry ==
  ASSUME Here, pc = "discover", Tracked, IsEntry(cur.conn, T), FindsL7 \/ FindsHost
  PROVE  LET u == Rediscovered(Choice)
         IN /\ IsEntry(cur.conn, u) /\ u.state = T.state /\ u.reasm = T.reasm /\ u.delayed = T.delayed
            /\ u.dp = Choice.dp /\ Recalls(T, u) /\ (loc.have = TRUE => u.hostFound = TRUE)
            /\ u.check = CheckDone(Choice.mem, Choice.dp, HostNow)
<1> DEFINE found == Choice
           a == IF Real THEN RequestPassed(T) ELSE T
           x == FindsL7
           h == HostNow
           y == FindsHost
           d == found.dp
           k == CheckDone(found.mem, found.dp, HostNow)
           b == [a EXCEPT !.l7Found = @ \/ x, !.host = h, !.hostFound = @ \/ y,
                          !.dp = d, !.dpSearched = TRUE, !.check = k]
           e == MaybeCutoff(b, Profiles[d])
<1>1. IsEntry(cur.conn, a) /\ Like(T, a) /\ a.l7Found = T.l7Found /\ a.hostFound = T.hostFound /\ a.l7 = T.l7
  <2>1. IsEntry(cur.conn, RequestPassed(T)) /\ Like(T, RequestPassed(T))
    BY RequestEntry
  <2>2. LET u == RequestPassed(T) IN u.l7Found = T.l7Found /\ u.hostFound = T.hostFound /\ u.l7 = T.l7
    BY DEF RequestPassed, IsEntry, Fields
  <2> QED
    BY <2>1, <2>2, LikeFacts
<1>2. Rediscovered(found) = e \/ Rediscovered(found) = b
  BY DEF Rediscovered
\* Nothing new was found of a connection whose name is known already.
<1>3. ~(T.hostFound = TRUE)
  BY DEF IsEntry, ToldBy, Told, FindsL7, FindsHost
<1>4. y <=> loc.have = TRUE
  BY <1>3 DEF FindsHost
<1>5. y => T.l7 # "unknown" /\ (T.l7Found \/ x) /\ h = S.host
  <2>1. y => T.l7 # "unknown"
    BY <1>4 DEF Here, ListInv, FoundInv
  <2> QED
    BY <2>1, HostNowFacts DEF FindsL7
<1>6. IsHost(h) /\ d \in 0..Len(Profiles) /\ (k.done = TRUE => d # 0 /\ Profiles[d].auto = NoFile /\ k.result = TRUE)
  BY HostNowFacts, ChoiceFacts, CheckDoneFacts
<1>7. y /\ Calm => IsChoice(d, stream[cur.conn].to, stream[cur.conn].host, T.l7)
  <2>1. Target(cur) = stream[cur.conn].to /\ L7Now = T.l7
    BY DEF Here, ListInv, FoundInv, Target, L7Now
  <2> QED
    BY <1>5, <2>1, ChoiceFacts DEF S
<1> HIDE DEF a, x, h, y, d, k, found
<1>8. /\ Fields \subseteq DOMAIN b /\ b.state = a.state /\ b.reasm = a.reasm /\ b.delayed = a.delayed
      /\ b.host = h /\ b.dp = d /\ b.check = k /\ b.l7 = a.l7
  BY <1>1 DEF IsEntry, Fields
<1>9. (b.l7Found = TRUE <=> a.l7Found \/ x) /\ (b.hostFound = TRUE <=> a.hostFound \/ y) /\ b.dpSearched = TRUE
  BY <1>1 DEF IsEntry, Fields
<1> HIDE DEF b
<1>10. ToldBy(cur.conn, b)
  <2>1. b.hostFound = TRUE => y
    BY <1>1, <1>3, <1>9
  <2> QED
    BY <1>1, <1>5, <1>6, <1>7, <1>8, <1>9, <2>1 DEF ToldBy, Told
<1>11. IsEntry(cur.conn, b) /\ Recalls(T, b)
  BY <1>1, <1>3, <1>8, <1>10 DEF IsEntry, Recalls
<1>12. IsEntry(cur.conn, e) /\ Like(b, e)
  BY <1>11, CutoffEntry
<1>13. e.check = b.check
  BY <1>8 DEF MaybeCutoff, Fields
<1> HIDE DEF e
<1>14. \A u \in {b, e} : /\ IsEntry(cur.conn, u) /\ u.state = T.state /\ u.reasm = T.reasm /\ u.delayed = T.delayed
                           /\ u.dp = d /\ Recalls(T, u) /\ (y => u.hostFound = TRUE) /\ u.check = k
  BY <1>1, <1>8, <1>9, <1>11, <1>12, <1>13, RecallsFacts DEF Like, Recalls
<1> QED
  BY <1>2, <1>4, <1>14 DEF found, d, k

LEMMA DiscoverFacts ==
  ASSUME Here, Discover
  PROVE  Stays /\ back' = back /\ (GivesUp \/ (GoesOn /\ pc' = "check"))
<1>1. Stays /\ back' = back
  BY DEF Discover, Stays
<1>2. Quiet(table) /\ (Tracked => IsEntry(cur.conn, T))
  BY QuietTable DEF Here, EngineTypes, Tracked, T
<1>3. CASE Rediscover
  <2> DEFINE u == Rediscovered(Choice)
             w == IF Tracked THEN [table EXCEPT ![cur.conn] = u] ELSE table
  <2>1. CancelAndSendOrig(w) \/ (table' = w /\ pc' = "check" /\ out' = out)
    BY <1>3 DEF Rediscover, RediscoverAs, Choice
  <2>2. Tracked => /\ IsEntry(cur.conn, u) /\ u.state = T.state /\ u.reasm = T.reasm /\ u.delayed = T.delayed
                   /\ Recalls(T, u)
    BY <1>2, <1>3, RediscoveredEntry DEF Discover, Rediscover
  <2> HIDE DEF u
  <2>3. Quiet(w)
    BY <1>2, <2>2, EnteredFacts
  <2> HIDE DEF w
  <2> QED
    BY <1>1, <2>1, <2>3, GivesUpFacts DEF GoesOn
<1>4. CASE NothingNew
  <2> DEFINE u == RequestPassed(T)
             w == IF Real THEN [table EXCEPT ![cur.conn] = u] ELSE table
  <2>1. table' = w /\ pc' = "check" /\ out' = out
    BY <1>4 DEF NothingNew, Passed, T
  <2>2. Tracked => IsEntry(cur.conn, u) /\ Like(T, u)
    BY <1>2, RequestEntry
  <2> HIDE DEF u
  <2>3. Quiet(w)
    BY <1>2, <2>2, EnteredFacts DEF Like, Real
  <2> HIDE DEF w
  <2> QED
    BY <1>1, <2>1, <2>3 DEF GoesOn
<1> QED
  BY <1>3, <1>4 DEF Discover

LEMMA CheckHostFacts ==
  ASSUME Here, CheckHost
  PROVE  Stays /\ back' = back /\ (GivesUp \/ (GoesOn /\ pc' = "act"))
<1> DEFINE m == IF loc.check.done THEN mem ELSE Recheck(mem, disk, DP)
           u == StopRetrans(T, DP)
           v == Watch(T, m)
           a == IF Tracked THEN [table EXCEPT ![cur.conn] = u] ELSE table
           b == IF Tracked THEN [table EXCEPT ![cur.conn] = v] ELSE table
<1>1. Stays /\ back' = back
  BY DEF CheckHost, Stays
<1>2. Quiet(table) /\ (Tracked => IsEntry(cur.conn, T))
  BY QuietTable DEF Here, EngineTypes, Tracked, T
<1>3. \/ pc' = "act" /\ table' = table /\ out' = out
      \/ pc' = "act" /\ table' = a /\ out' = out
      \/ CancelAndSendOrig(b)
  BY DEF CheckHost, T
<1>4. Tracked => IsEntry(cur.conn, u) /\ Like(T, u)
  BY <1>2, StopEntry
<1> HIDE DEF m
<1>5. Tracked => IsEntry(cur.conn, v) /\ Like(T, v)
  BY <1>2 DEF IsEntry, Fields, ToldBy, Like, Recalls, Watch
<1> HIDE DEF u, v
<1>6. Quiet(a) /\ Quiet(b)
  BY <1>2, <1>4, <1>5, EnteredFacts DEF Like
<1> HIDE DEF a, b
<1> QED
  BY <1>1, <1>2, <1>3, <1>6, GivesUpFacts DEF GoesOn

LEMMA ActFacts ==
  ASSUME Here, Act PROVE Stays /\ back' = back /\ GivesUp
<1>1. Stays /\ back' = back /\ pc' = After /\ table' = CancelIn(table)
  BY DEF Act, Stays
<1>2. \E how \in {"orig", "split"} : out' = Append(out \o AllOrig(Held), [p |-> cur, how |-> how])
  BY DEF Act
<1> QED
  BY <1>1, <1>2, QuietTable, CancelInFacts DEF GivesUp

\* All of them.
Works == \/ FindProfile \/ Limits \/ Inbound \/ RecheckFailed \/ AppendHost \/ SignList
         \/ Gate \/ Payload \/ Classify \/ Discover \/ CheckHost \/ Act
Leaves ==
  /\ SendsAsIs /\ ~replay /\ pc \in {"find", "inbound", "gate"}
  /\ pc' = "done" \/ (pc = "inbound" /\ pc' = "recheck" /\ back'.to = "done")
  /\ Tracked /\ T.delayed # <<>> => SameDp /\ (cur.dir = "reply" \/ cur.len = 0)
Enters ==
  /\ GoesOn /\ ~replay /\ pc \in {"find", "limits", "gate"} /\ (Tracked => N.dp # 0)
  /\ \/ pc' = "limits"
     \/ pc' = "inbound" /\ cur.dir = "reply"
     \/ pc' = "gate" /\ (Tracked => cur.dir = "orig")
     \/ pc' = "payload" /\ (Tracked => cur.dir = "orig") /\ cur.len > 0
Relists ==
  /\ pc \in ListSteps /\ pc' \in ListSteps \cup {back.to}
  /\ table' = table /\ out' = out /\ loc' = loc /\ back' = back
Reads ==
  /\ pc = "payload" /\ ~replay /\ SameDp
  /\ pc' = "classify" \/ (pc' = "recheck" /\ back'.to = "classify")
  /\ \/ JoinsIt
     \/ ClosesAndGoesOn /\ loc'.at = cur.at /\ loc'.len = cur.len
     \/ GoesOn /\ loc'.at = cur.at /\ loc'.len = cur.len /\ (Tracked => T.reasm.size = 0 /\ T.delayed = <<>>)
Looks ==
  /\ GoesOn /\ pc \in {"classify", "discover", "check"} /\ pc' \in {"discover", "check", "act"}
  /\ Real => T.reasm.size = 0 /\ T.delayed = <<>>
StepShape ==
  \/ Leaves \/ Enters \/ Relists \/ Reads \/ Looks
  \/ GivesUp /\ pc \in {"gate", "classify", "discover", "check", "act"}
  \/ ClosesAndGoesOn /\ pc = "classify" /\ pc' = "discover"
  \/ HoldsIt /\ pc = "classify"

LEMMA SettledNow ==
  ASSUME FlowInv, Tracked, pc \in {"find", "limits", "inbound", "gate", "payload"}
  PROVE  Session(cur.conn, T)
  BY DEF FlowInv, PathInv, PlaceInv, SessionInv, Apart, Joined, ListSteps, Tracked, T

LEMMA StepShaped ==
  ASSUME FlowInv, Works
  PROVE  Stays /\ pc \in Steps \ {"idle", "replay", "done"} /\ StepShape
<1>1. pc \in Steps \ {"idle", "replay", "done"}
  BY DEF Works, FindProfile, Limits, Inbound, RecheckFailed, AppendHost, SignList, Gate, Payload,
         Classify, Discover, CheckHost, Act, Steps
<1>2. Here /\ PlaceInv /\ cur \in Packet /\ cur.len \in Nat /\ cur.dir \in {"orig", "reply"}
  BY <1>1 DEF FlowInv, PathInv, Here, EngineTypes, Packet
<1>3. CASE FindProfile
  <2>1. pc = "find" /\ ~replay
    BY <1>2, <1>3 DEF FindProfile, PlaceInv
  <2>2. Tracked /\ T.dp = 0 => T.delayed = <<>>
    BY <2>1, SettledNow DEF Session
  <2> QED
    BY <1>1, <1>2, <1>3, <2>1, <2>2, FindProfileFacts DEF StepShape, Leaves, Enters, After
<1>4. CASE Limits
  <2>1. pc = "limits" /\ ~replay /\ (Tracked => T.dp # 0)
    BY <1>2, <1>4 DEF Limits, PlaceInv
  <2> QED
    BY <1>1, <1>2, <1>4, <2>1, LimitsFacts DEF StepShape, Enters, SameDp
<1>5. CASE Inbound
  <2>1. pc = "inbound" /\ ~replay /\ cur.dir = "reply"
    BY <1>2, <1>5 DEF Inbound, PlaceInv
  <2> QED
    BY <1>1, <1>2, <1>5, <2>1, InboundFacts DEF StepShape, Leaves
<1>6. CASE RecheckFailed \/ AppendHost \/ SignList
  BY <1>1, <1>2, <1>6, ListStepFacts DEF StepShape, Relists
<1>7. CASE Gate
  <2>1. pc = "gate" /\ ~replay /\ (Tracked => cur.dir = "orig" /\ T.dp # 0)
    BY <1>2, <1>7 DEF Gate, PlaceInv
  <2>2. Tracked /\ ~(cur.len > 0 /\ cur.kind # "syn") => cur.len = 0
    BY <1>2, <2>1 DEF PlaceInv, Early, Segments
  <2> QED
    BY <1>1, <1>2, <1>7, <2>1, <2>2, GateFacts DEF StepShape, Leaves, Enters, SameDp, After
<1>8. CASE Payload
  <2>1. pc = "payload" /\ ~replay
    BY <1>2, <1>8 DEF Payload, PlaceInv
  <2>2. Tracked /\ T.reasm.size = 0 => T.delayed = <<>>
    BY <2>1, SettledNow DEF Session
  <2> QED
    BY <1>1, <1>2, <1>8, <2>1, <2>2, PayloadFacts DEF StepShape, Reads
<1>9. CASE Classify
  <2>1. pc = "classify"
    BY <1>9 DEF Classify
  <2>2. Real => Joined /\ Tracked
    BY <2>1 DEF Joined, Real
  <2>3. Real => Grown(cur.conn, T) /\ cur \in Segments(cur.conn)
    BY <1>2, <2>2 DEF PlaceInv
  <2>4. Real /\ T.reasm.size = 0 => T.delayed = <<>>
    BY <2>3 DEF Grown
  <2> QED
    BY <1>1, <1>2, <1>9, <2>1, <2>3, <2>4, ClassifyFacts DEF StepShape, Looks
<1>10. CASE Discover
  <2>1. pc = "discover" /\ (Real => T.reasm.size = 0 /\ T.delayed = <<>>)
    BY <1>2, <1>10 DEF Discover, PlaceInv, Late, Real
  <2> QED
    BY <1>1, <1>2, <1>10, <2>1, DiscoverFacts DEF StepShape, Looks
<1>11. CASE CheckHost
  <2>1. pc = "check" /\ (Real => T.reasm.size = 0 /\ T.delayed = <<>>)
    BY <1>2, <1>11 DEF CheckHost, PlaceInv, Late, Real
  <2> QED
    BY <1>1, <1>2, <1>11, <2>1, CheckHostFacts DEF StepShape, Looks
<1>12. CASE Act
  <2>1. pc = "act"
    BY <1>12 DEF Act
  <2> QED
    BY <1>1, <1>2, <1>12, <2>1, ActFacts DEF StepShape
<1> QED
  BY <1>3, <1>4, <1>5, <1>6, <1>7, <1>8, <1>9, <1>10, <1>11, <1>12 DEF Works

-----------------------------------------------------------------------------
\* Every such step keeps the invariant, whoever else is at work.
Elsewhere == UNCHANGED <<stream, client, server>>

\* An entry says what it said when the streams are the same and nobody's edit is
\* undone.
LEMMA EntryKept ==
  ASSUME stream' = stream, Calm' => Calm
  PROVE  \A c, t : IsEntry(c, t) => IsEntry(c, t)'
<1>1. \A c : Segments(c)' = Segments(c)
  BY DEF Segments
<1>2. \A c, h, found, l7, l7Found, i, searched, check :
        Told(c, h, found, l7, l7Found, i, searched, check) => Told(c, h, found, l7, l7Found, i, searched, check)'
  <2>1. \A i, t, h, l7 : IsChoice(i, t, h, l7)' <=> IsChoice(i, t, h, l7)
    BY DEF IsChoice, Fits, Hopeless, HostlistsEmpty, MatchesL3L4, MatchesL7, MatchesLists, FirstMem, FirstList, FirstFile, AutoLists
  <2> QED
    BY <2>1 DEF Told, IsHost
<1>3. \A c, t : ToldBy(c, t) => ToldBy(c, t)'
  BY <1>2 DEF ToldBy
<1> QED
  BY <1>1, <1>3 DEF IsEntry, Reasm

LEMMA OutTyped ==
  ASSUME FlowInv, Works PROVE out' \in Seq(Out)
<1>1. Stays /\ Here /\ cur \in Packet /\ out \in Seq(Out) /\ StepShape
  BY StepShaped DEF FlowInv, PathInv, EngineTypes, Here
<1> DEFINE h == AllOrig(Held)
<1>2. h \in Seq(Out)
  BY <1>1, HeldTyped
<1> HIDE DEF h
<1>3. out \o h \in Seq(Out)
  BY <1>1, <1>2
<1>4. \/ out' = out \/ out' = out \o h
      \/ \E how \in {"orig", "split"} : \/ out' = Append(out, [p |-> cur, how |-> how])
                                        \/ out' = Append(out \o h, [p |-> cur, how |-> how])
  BY <1>1 DEF StepShape, Leaves, Enters, Relists, Reads, Looks, SendsAsIs, AsOrig, GoesOn, GivesUp,
              ClosesAndGoesOn, JoinsIt, HoldsIt, h
<1>5. ASSUME NEW how \in {"orig", "split"}
      PROVE  Append(out, [p |-> cur, how |-> how]) \in Seq(Out) /\ Append(out \o h, [p |-> cur, how |-> how]) \in Seq(Out)
  <2>1. [p |-> cur, how |-> how] \in Out
    BY <1>1 DEF Out
  <2> QED
    BY <1>1, <1>3, <2>1
<1> QED
  BY <1>1, <1>3, <1>4, <1>5

LEMMA WorksShape ==
  ASSUME FlowInv, Works
  PROVE  Only(table') /\ (Tracked => IsEntry(cur.conn, N) /\ N.state = T.state /\ Recalls(T, N))
<1>1. StepShape /\ Here
  BY StepShaped DEF FlowInv, PathInv, Here
<1>2. CASE Relists
  BY <1>1, <1>2, QuietTable DEF Relists, Quiet, N
<1>3. CASE ~Relists
  BY <1>1, <1>3 DEF StepShape, Leaves, Enters, Reads, Looks, SendsAsIs, GoesOn, GivesUp,
                    ClosesAndGoesOn, JoinsIt, HoldsIt, Quiet, Shut, N
<1> QED
  BY <1>2, <1>3

LEMMA WorksTyped ==
  ASSUME FlowInv, Works, Elsewhere, Calm' => Calm PROVE EngineTypes' /\ ClientTypes' /\ ServerTypes'
<1>1. Stays /\ pc \in Steps \ {"idle", "replay", "done"} /\ StepShape
  BY StepShaped
<1>2. EngineTypes /\ ClientTypes /\ ServerTypes /\ PlaceInv
  BY DEF FlowInv, PathInv
<1>3. Only(table') /\ (Tracked => IsEntry(cur.conn, N))
  BY WorksShape
<1>4. DOMAIN table' = DOMAIN table /\ \A c \in DOMAIN table : IsEntry(c, table'[c])
  BY <1>2, <1>3 DEF Only, N, EngineTypes, Tracked
<1>5. (\A c \in DOMAIN table : IsEntry(c, table[c]))'
  BY <1>4, EntryKept DEF Elsewhere
<1>6. pc' \in Steps
  BY <1>1, <1>2 DEF StepShape, Leaves, Enters, Relists, Reads, Looks, GivesUp, HoldsIt, After, Steps,
                    PlaceInv, ListSteps
<1>7. EngineTypes'
  BY <1>1, <1>2, <1>4, <1>5, <1>6, OutTyped DEF EngineTypes, Stays, Elsewhere
<1>8. ClientTypes' /\ ServerTypes'
  BY <1>2 DEF ClientTypes, ServerTypes, Elsewhere
<1> QED
  BY <1>7, <1>8

\* A segment that fits what is held continues it, for the sequence numbers are
\* less than their space apart.
LEMMA FollowsOn ==
  ASSUME NEW c \in Conns, stream \in Streams, ClientTypes, NEW q \in Segments(c), NEW p \in Segments(c),
         Fresh(q), Fresh(p), Mod(q.seq + q.len) = p.seq
  PROVE  p.at = q.at + q.len
<1>1. /\ q.conn = c /\ p.conn = c /\ q.at \in Nat /\ q.len \in Nat /\ p.at \in Nat /\ p.len \in Nat
      /\ q.at + q.len <= stream[c].total + 1 /\ q.at + q.len > 0
      /\ p.at + p.len <= stream[c].total + 1 /\ p.at > 0 /\ p.len > 0
  BY DEF Segments, Packet
<1>2. stream[c].total \in 0..(SeqSpace - 1)
  BY FlowAssumption
<1> DEFINE f == FirstSeq(c)
           a == f + q.at
           n == f + (q.at + q.len)
           m == f + p.at
<1>3. f \in Int
  <2>1. Isn[c] + client[c].gen \in Int
    BY FlowAssumption DEF ClientTypes
  <2> QED
    BY <2>1, ModFacts DEF FirstSeq
<1>4. q.seq = Mod(a) /\ p.seq = Mod(m)
  BY <1>1 DEF Fresh
<1> HIDE DEF f
<1>5. a \in Int /\ n \in Int /\ m \in Int /\ a + q.len = n
  BY <1>1, <1>3
<1>6. Mod(Mod(a) + q.len) = Mod(n)
  <2> DEFINE k == q.len
  <2>1. k \in Int /\ a \in Int /\ a + k = n
    BY <1>1, <1>5
  <2> HIDE DEF a, n, k
  <2>2. Mod(Mod(a) + k) = Mod(a + k)
    BY <2>1, ModFacts
  <2> QED
    BY <2>1, <2>2 DEF k
<1>7. Mod(n) = Mod(m)
  BY <1>4, <1>6
<1>8. n - m < SeqSpace /\ m - n < SeqSpace
  BY <1>1, <1>2, <1>3, SeqAssumption
<1>9. n = m
  <2> HIDE DEF n, m
  <2> QED
    BY <1>5, <1>7, <1>8, ModFacts
<1> QED
  BY <1>1, <1>3, <1>9

LEMMA AppendFacts ==
  ASSUME NEW X, NEW q \in Seq(X), NEW p \in X
  PROVE  /\ Append(q, p) # <<>> /\ Append(q, p)[Len(Append(q, p))] = p
         /\ q # <<>> => Append(q, p)[1] = q[1] /\ q[1] \in X /\ q[Len(q)] \in X /\ Len(q) \in DOMAIN q
         /\ Adjacent(q) /\ (q # <<>> => p.at = q[Len(q)].at + q[Len(q)].len) => Adjacent(Append(q, p))
         /\ (\A i \in DOMAIN q : Fresh(q[i])) /\ Fresh(p)
              => \A i \in DOMAIN Append(q, p) : Fresh(Append(q, p)[i])
<1> DEFINE t == Append(q, p)
           n == Len(q)
<1>1. /\ n \in Nat /\ Len(t) = n + 1 /\ DOMAIN t = 1..(n + 1) /\ DOMAIN q = 1..n /\ t[n + 1] = p
      /\ \A i \in 1..n : t[i] = q[i] /\ q[i] \in X
      /\ t # <<>>
  OBVIOUS
<1>2. q # <<>> => n \in 1..n /\ 1 \in 1..n
  BY EmptySeq
<1> HIDE DEF t
<1>3. ASSUME Adjacent(q), q # <<>> => p.at = q[n].at + q[n].len PROVE Adjacent(t)
  <2>1. SUFFICES ASSUME NEW i \in 2..(n + 1) PROVE t[i].at = t[i - 1].at + t[i - 1].len
    BY <1>1 DEF Adjacent
  <2>2. CASE i \in 2..n
    <3>1. i - 1 \in 1..n /\ i \in 1..n
      BY <1>1, <2>2
    <3>2. q[i].at = q[i - 1].at + q[i - 1].len
      BY <1>3, <2>2 DEF Adjacent
    <3> QED
      BY <1>1, <3>1, <3>2
  <2>3. CASE i = n + 1
    <3>1. n \in 1..n /\ i - 1 = n
      BY <1>1, <2>1, <2>3
    <3>2. q # <<>>
      BY <3>1
    <3> QED
      BY <1>1, <1>3, <2>3, <3>1, <3>2
  <2> QED
    BY <1>1, <2>2, <2>3
<1>4. ASSUME \A i \in DOMAIN q : Fresh(q[i]), Fresh(p) PROVE \A i \in DOMAIN t : Fresh(t[i])
  BY <1>1, <1>4
<1>5. t[1] = q[1] \/ q = <<>>
  BY <1>1, <1>2
<1> QED
  BY <1>1, <1>2, <1>3, <1>4, <1>5 DEF t

LEMMA JoinGrows ==
  ASSUME FlowInv, pc = "payload", JoinsIt, Stays, Elsewhere PROVE Grown(cur.conn, T)'
<1> DEFINE c == cur.conn
           d == T.delayed
           r == T.reasm
           last == d[Len(d)]
           m == Room(r, cur.len)
<1>1. /\ Tracked /\ ~replay /\ cur.dir = "orig" /\ cur.len > 0 /\ client[c].st = "open"
      /\ cur \in Segments(c) /\ Fresh(cur) /\ c \in Conns /\ stream \in Streams /\ ClientTypes
  BY DEF FlowInv, PathInv, PlaceInv, Early, JoinsIt, EngineTypes
<1>2. IsEntry(c, T)
  BY <1>1 DEF FlowInv, PathInv, EngineTypes, Tracked, T
<1>3. r \in Reasm /\ d \in Seq(Segments(c))
  BY <1>2 DEF IsEntry
<1>4. Session(c, T)
  BY <1>1, SettledNow
<1>5. /\ r.size # 0 /\ r.seq = cur.seq /\ N.reasm = ReasmFed(r, cur.len) /\ N.delayed = d
      /\ loc'.at = r.at /\ loc'.len = r.have + m
  BY DEF JoinsIt
<1>6. /\ d # <<>> /\ stream[c].l7 = "tls" /\ r.at = 1 /\ ~ReasmIsFull(r) /\ Buffered(d, r) /\ AllFresh(c, d)
  BY <1>4, <1>5 DEF Session
<1>7. cur.len \in Nat /\ cur.at \in Nat /\ cur.seq \in 0..(SeqSpace - 1)
  BY <1>1 DEF Segments, Packet
<1>8. m \in Nat /\ m > 0 /\ r.have \in Nat /\ r.size \in Nat /\ (r.have + m < r.size => m = cur.len)
      /\ r.have + m <= r.size
  <2>1. r.have < r.size
    BY <1>3, <1>5, <1>6 DEF Reasm, ReasmIsFull
  <2> QED
    BY <1>1, <1>3, <1>7, <2>1, RoomFacts DEF Reasm
<1>9. /\ N.reasm.size = r.size /\ N.reasm.at = r.at /\ N.reasm.have = r.have + m
      /\ N.reasm.seq = Mod(r.seq + m)
  <2> DEFINE f == ReasmFed(r, cur.len)
  <2>1. f.size = r.size /\ f.at = r.at /\ f.have = r.have + m /\ f.seq = Mod(r.seq + m)
    BY <1>3, <1>7, ReasmFedFacts
  <2>2. N.reasm = f
    BY <1>5
  <2> HIDE DEF f
  <2> QED
    BY <2>1, <2>2
<1>10. N.reasm.size # 0 /\ N.delayed # <<>> /\ N.reasm.at = 1 /\ loc'.at = 1 /\ loc'.len > 0
  BY <1>5, <1>6, <1>8, <1>9
<1>11. ASSUME ~ReasmIsFull(N.reasm)
       PROVE  Buffered(Append(d, cur), N.reasm) /\ AllFresh(c, Append(d, cur))
  <2>1. m = cur.len
    BY <1>5, <1>8, <1>9, <1>11 DEF ReasmIsFull
  <2>2. last \in Segments(c) /\ Len(d) \in DOMAIN d
    BY <1>1, <1>3, <1>6, AppendFacts
  <2>3. Fresh(last) /\ \A i \in DOMAIN d : Fresh(d[i])
    BY <1>1, <1>6, <2>2 DEF AllFresh
  <2>4. Mod(last.seq + last.len) = cur.seq
    BY <1>5, <1>6 DEF Buffered
  <2>5. cur.at = last.at + last.len
    BY <1>1, <2>2, <2>3, <2>4, FollowsOn
  <2> DEFINE t == Append(d, cur)
  <2>6. t[Len(t)] = cur /\ t[1] = d[1] /\ Adjacent(t) /\ \A i \in DOMAIN t : Fresh(t[i])
    BY <1>1, <1>3, <1>6, <2>3, <2>5, AppendFacts DEF Buffered
  <2>7. d[1].at = r.at /\ last.at + last.len = r.at + r.have
    BY <1>6 DEF Buffered
  <2>8. r.at \in Nat
    BY <1>6
  <2> HIDE DEF t, last, d
  <2>9. cur.at + cur.len = N.reasm.at + N.reasm.have
    <3>1. cur.at = r.at + r.have
      BY <2>5, <2>7
    <3>2. N.reasm.at = r.at /\ N.reasm.have = r.have + cur.len
      BY <1>9, <2>1
    <3> HIDE DEF m, r
    <3> QED
      BY <1>7, <1>8, <2>8, <3>1, <3>2
  <2>10. N.reasm.seq = Mod(cur.seq + cur.len)
    BY <1>5, <1>9, <2>1
  <2> QED
    BY <1>9, <2>6, <2>7, <2>9, <2>10 DEF Buffered, AllFresh, t
<1>12. T' = N /\ cur' = cur /\ stream' = stream /\ client' = client
  BY DEF Stays, N, T, Elsewhere
<1>13. (~ReasmIsFull(T.reasm) => Buffered(Append(T.delayed, cur), T.reasm) /\ AllFresh(cur.conn, Append(T.delayed, cur)))'
  <2>1. Append(T.delayed, cur)' = Append(d, cur)
    BY <1>5, <1>12
  <2> HIDE DEF d
  <2> QED
    BY <1>11, <1>12, <2>1 DEF ReasmIsFull, Buffered, AllFresh, Fresh, FirstSeq, Adjacent
<1> QED
  BY <1>6, <1>10, <1>12, <1>13 DEF Grown

LEMMA WorksPlaced ==
  ASSUME FlowInv, Works, Elsewhere PROVE PlaceInv'
<1>1. Stays /\ pc \in Steps \ {"idle", "replay", "done"} /\ StepShape
  BY StepShaped
<1>2. PlaceInv /\ replay \in BOOLEAN /\ cur.conn \in Conns /\ DOMAIN table' = DOMAIN table
  BY <1>1, WorksShape DEF FlowInv, PathInv, EngineTypes, Only
<1>3. T' = N /\ cur' = cur /\ replay' = replay /\ (Tracked' <=> Tracked) /\ (Tracked => N.state = T.state)
  BY <1>1, <1>2, WorksShape DEF Stays, N, T, Tracked
<1>4. client' = client /\ stream' = stream
  BY DEF Elsewhere
<1>5. (cur \in Segments(cur.conn))' <=> cur \in Segments(cur.conn)
  BY <1>3, <1>4 DEF Segments
<1>6. Fresh(cur)' <=> Fresh(cur)
  BY <1>3, <1>4 DEF Fresh, FirstSeq
<1> DEFINE Known == cur \in Segments(cur.conn) /\ Fresh(cur) /\ client[cur.conn].st = "open" /\ (Tracked => T.state # "syn")
<1>7. Known => (cur \in Segments(cur.conn) /\ Fresh(cur) /\ client[cur.conn].st = "open" /\ (Tracked => T.state # "syn"))'
  BY <1>3, <1>4, <1>5, <1>6
<1>8. CASE Leaves
  BY <1>1, <1>2, <1>3, <1>8 DEF PlaceInv, Leaves, Early, Joined, Late, ListSteps
<1>9. CASE Enters
  <2>1. Early /\ pc \in {"find", "limits", "gate"} /\ pc' \in {"limits", "inbound", "gate", "payload"}
    BY <1>9 DEF Enters, Early
  <2>2. cur.dir = "orig" /\ cur.len > 0 => Known
    BY <1>2, <2>1 DEF PlaceInv
  <2> HIDE DEF Known
  <2> QED
    BY <1>1, <1>2, <1>3, <1>7, <1>9, <2>1, <2>2 DEF PlaceInv, Enters, Early, Joined, Late, ListSteps
<1>10. CASE Relists
  <2>1. N = T
    BY <1>10 DEF Relists, N, T
  <2>2. back.to \in {"done", "classify"} /\ ~replay /\ back' = back /\ pc \in ListSteps
        /\ pc' \in ListSteps \cup {back.to} /\ loc' = loc
    BY <1>2, <1>10 DEF PlaceInv, Relists, ListSteps
  <2>3. Joined' => Joined /\ back.to = "classify"
    BY <1>3, <2>2 DEF Joined, ListSteps
  <2>4. Joined => cur.len > 0 /\ (cur.dir = "orig" => Known)
    BY <1>2 DEF PlaceInv
  <2>5. Grown(cur.conn, T) => Grown(cur.conn, T)'
    BY <1>3, <1>4, <2>1, <2>2 DEF Grown, ReasmIsFull, Buffered, Adjacent, AllFresh, Fresh, FirstSeq
  <2>6. Joined /\ Tracked => Grown(cur.conn, T) /\ T.dp # 0 /\ cur.dir = "orig"
    BY <1>2 DEF PlaceInv
  <2>7. ~Early' /\ ~Late' /\ pc' # "inbound" /\ pc' # "replay" /\ pc' \notin {"gate", "payload", "limits"}
    BY <2>2 DEF Early, Late, ListSteps
  <2> HIDE DEF Known
  <2> QED
    BY <1>2, <1>3, <1>7, <2>1, <2>2, <2>3, <2>4, <2>5, <2>6, <2>7 DEF PlaceInv
<1>11. CASE Reads
  <2>1. (cur.dir = "orig" => Known) /\ cur.len > 0 /\ ~replay /\ (Tracked => cur.dir = "orig" /\ T.dp # 0) /\ SameDp
    BY <1>2, <1>11 DEF PlaceInv, Reads, Early
  <2>2. pc' = "classify" \/ (pc' = "recheck" /\ back'.to = "classify")
    BY <1>11 DEF Reads
  <2>3. Tracked => Grown(cur.conn, T)'
    <3>1. CASE JoinsIt
      BY <1>1, <1>11, <3>1, JoinGrows DEF Reads
    <3>2. CASE ClosesAndGoesOn /\ loc'.at = cur.at /\ loc'.len = cur.len
      BY <1>3, <2>1, <3>2, EmptyReasm DEF ClosesAndGoesOn, Shut, Grown, N
    <3>3. CASE GoesOn /\ loc'.at = cur.at /\ loc'.len = cur.len /\ (Tracked => T.reasm.size = 0 /\ T.delayed = <<>>)
      BY <1>3, <3>3 DEF GoesOn, Quiet, Grown, N
    <3> QED
      BY <1>11, <3>1, <3>2, <3>3 DEF Reads
  <2>4. ~Early' /\ ~Late' /\ pc' # "inbound" /\ pc' # "replay" /\ pc' \notin {"gate", "payload", "limits"}
    BY <2>2 DEF Early, Late
  <2> HIDE DEF Known
  <2> QED
    BY <1>3, <1>7, <2>1, <2>2, <2>3, <2>4 DEF PlaceInv, SameDp, ListSteps
<1>12. CASE Looks
  BY <1>2, <1>3, <1>12 DEF Looks, GoesOn, Quiet, N, PlaceInv, Early, Joined, Late, ListSteps, Real
<1>13. CASE GivesUp /\ pc \in {"gate", "classify", "discover", "check", "act"}
  BY <1>2, <1>3, <1>13 DEF GivesUp, After, PlaceInv, Early, Joined, Late, ListSteps
<1>14. CASE ClosesAndGoesOn /\ pc = "classify" /\ pc' = "discover"
  <2>1. Tracked /\ ~replay => N.reasm.size = 0 /\ N.delayed = <<>>
    BY <1>14, EmptyReasm DEF ClosesAndGoesOn, Shut, N
  <2> QED
    BY <1>2, <1>3, <1>14, <2>1 DEF PlaceInv, Early, Joined, Late, ListSteps
<1>15. CASE HoldsIt /\ pc = "classify"
  BY <1>2, <1>3, <1>15 DEF HoldsIt, Real, PlaceInv, Early, Joined, Late, ListSteps
<1> QED
  BY <1>1, <1>8, <1>9, <1>10, <1>11, <1>12, <1>13, <1>14, <1>15 DEF StepShape

LEMMA HoldsSession ==
  ASSUME FlowInv, HoldsIt, pc = "classify", pc' # "replay" PROVE Session(cur.conn, N)
<1> DEFINE c == cur.conn
           d == T.delayed
           r == T.reasm
<1>1. /\ Tracked /\ ~replay /\ N.state = T.state /\ N.dp = T.dp /\ N.delayed = Append(d, cur)
      /\ ~ReasmIsFull(N.reasm)
      /\ \/ r.size # 0 /\ N.reasm = r
         \/ /\ r.size = 0 /\ N.reasm = ReasmStarted(S.hello, cur)
            /\ S.l7 = "tls" /\ loc.at = 1 /\ loc.len > 0 /\ loc.len < S.hello
  BY DEF HoldsIt, Real, SameDp
<1>2. /\ cur \in Segments(c) /\ Fresh(cur) /\ T.dp # 0 /\ T.state # "syn" /\ Grown(c, T) /\ cur.len > 0
  BY <1>1 DEF FlowInv, PathInv, PlaceInv, Joined
<1>3. d \in Seq(Segments(c)) /\ stream \in Streams /\ c \in Conns /\ cur.len \in Nat /\ cur.at \in Nat
  BY <1>1, <1>2 DEF FlowInv, PathInv, EngineTypes, Tracked, T, IsEntry, Segments, Packet
<1>4. N.delayed # <<>>
  <2> HIDE DEF d
  <2> QED
    BY <1>1, <1>3
<1>5. CASE r.size # 0
  BY <1>1, <1>2, <1>4, <1>5 DEF Grown, Session
<1>6. CASE r.size = 0
  <2>1. d = <<>> /\ loc.at = cur.at /\ loc.len = cur.len
    BY <1>2, <1>6 DEF Grown
  <2>2. S.hello \in Nat /\ cur.len < S.hello /\ S.l7 = "tls" /\ cur.at = 1 /\ N.reasm = ReasmStarted(S.hello, cur)
    BY <1>1, <1>3, <1>6, <2>1, FlowAssumption DEF S
  <2>3. /\ N.reasm.size = S.hello /\ N.reasm.at = 1 /\ N.reasm.have = cur.len
        /\ N.reasm.seq = Mod(cur.seq + cur.len)
    <3>1. cur \in Packet
      BY <1>2 DEF Segments
    <3> QED
      BY <2>2, <3>1, StartedFacts
  <2>4. N.delayed = <<cur>> /\ Len(N.delayed) = 1 /\ N.delayed[1] = cur /\ DOMAIN N.delayed = {1}
    BY <1>1, <2>1
  <2>5. N.reasm.size # 0
    BY <1>3, <2>2, <2>3
  <2>6. Buffered(N.delayed, N.reasm)
    <3>1. cur.at + cur.len = N.reasm.at + N.reasm.have
      BY <2>2, <2>3
    <3>2. Adjacent(N.delayed)
      BY <2>4 DEF Adjacent
    <3> QED
      BY <2>2, <2>3, <2>4, <3>1, <3>2 DEF Buffered
  <2>7. AllFresh(c, N.delayed)
    BY <1>2, <2>4 DEF AllFresh
  <2> QED
    BY <1>1, <1>2, <1>4, <2>2, <2>3, <2>5, <2>6, <2>7 DEF Session, S
<1> QED
  BY <1>5, <1>6

LEMMA SessionElsewhere == ASSUME Elsewhere PROVE \A c, t : Session(c, t) => Session(c, t)'
  BY DEF Session, AllFresh, Fresh, FirstSeq, Elsewhere, Buffered, Adjacent, ReasmIsFull

LEMMA WorksSession ==
  ASSUME FlowInv, Works, Elsewhere PROVE SessionInv'
<1>1. Stays /\ pc \in Steps \ {"idle", "replay", "done"} /\ StepShape
  BY StepShaped
<1>2. PlaceInv /\ SessionInv /\ replay \in BOOLEAN
  BY DEF FlowInv, PathInv, EngineTypes
<1>3. Only(table') /\ (Tracked => N.state = T.state)
  BY WorksShape
<1>4. \A c, t : Session(c, t) => Session(c, t)'
  BY SessionElsewhere
<1>5. ASSUME NEW c \in DOMAIN table, c # cur.conn PROVE Session(c, table'[c])
  BY <1>2, <1>3, <1>5 DEF SessionInv, Apart, Only
<1>6. ASSUME Tracked, ~replay, pc' # "replay", ~Joined' PROVE Session(cur.conn, N)
  <2>2. CASE Leaves
    <3>1. Session(cur.conn, T)
      BY <1>6, <2>2, SettledNow DEF Leaves
    <3>2. T.delayed # <<>> => N.dp = T.dp
      BY <1>6, <2>2 DEF Leaves, SameDp
    <3>3. N.delayed = T.delayed /\ N.reasm = T.reasm
      BY <1>6, <2>2 DEF Leaves, SendsAsIs, Quiet, N
    <3> QED
      BY <1>3, <1>6, <3>1, <3>2, <3>3 DEF Session
  <2>3. CASE Enters
    <3>1. Session(cur.conn, T) /\ N.dp # 0 /\ N.delayed = T.delayed /\ N.reasm = T.reasm
      BY <1>6, <2>3, SettledNow DEF Enters, GoesOn, Quiet, N
    <3> QED
      BY <1>3, <1>6, <3>1 DEF Session
  <2>4. CASE Relists
    <3>1. back.to = "done" /\ pc \in ListSteps
      BY <1>1, <1>2, <1>6, <2>4 DEF Relists, PlaceInv, Joined, Stays, ListSteps
    <3>2. ~Apart(cur.conn)
      BY <1>6, <3>1 DEF Apart, Joined, ListSteps
    <3> QED
      BY <1>2, <1>6, <2>4, <3>2 DEF SessionInv, Tracked, Relists, N
  <2>5. CASE Reads
    BY <1>1, <1>6, <2>5 DEF Reads, Joined, Stays, ListSteps
  <2>6. CASE Looks
    BY <1>6, <2>6 DEF Looks, Real, GoesOn, Quiet, N, Session
  <2>7. CASE GivesUp \/ ClosesAndGoesOn
    BY <1>6, <2>7, EmptyReasm DEF GivesUp, ClosesAndGoesOn, Shut, N, Session
  <2>8. CASE HoldsIt /\ pc = "classify"
    BY <1>6, <2>8, HoldsSession
  <2> QED
    BY <1>1, <2>2, <2>3, <2>4, <2>5, <2>6, <2>7, <2>8 DEF StepShape
<1>7. DOMAIN table' = DOMAIN table /\ cur' = cur /\ replay' = replay
  BY <1>1, <1>3 DEF Only, Stays
<1>8. ASSUME NEW c \in DOMAIN table', ~Apart(c)' PROVE Session(c, table'[c])
  BY <1>2, <1>5, <1>6, <1>7, <1>8 DEF Apart, Tracked, N
<1> QED
  BY <1>4, <1>8 DEF SessionInv

LEMMA WorksKeeps == ASSUME FlowInv, Works, Elsewhere, Calm' => Calm PROVE PathInv'
  BY WorksTyped, WorksPlaced, WorksSession DEF FlowInv, PathInv

-----------------------------------------------------------------------------
\* The replay of what was held.
LEMMA NextHeldKeeps ==
  ASSUME FlowInv, NextHeld, Elsewhere, Calm' => Calm PROVE PathInv'
<1> DEFINE c == cur.conn
           p == Head(T.delayed)
           q == Tail(T.delayed)
           u == [T EXCEPT !.delayed = q]
<1>1. EngineTypes /\ ClientTypes /\ ServerTypes /\ PlaceInv /\ SessionInv
  BY DEF FlowInv, PathInv
<1>2. /\ pc = "replay" /\ T.delayed # <<>> /\ cur' = p /\ replay' = TRUE
      /\ table' = [table EXCEPT ![c].delayed = q]
      /\ \/ pc' = "classify" /\ out' = out
         \/ pc' = "replay" /\ out' = Append(out, AsOrig(p))
  BY DEF NextHeld, T
<1>3. /\ c \in DOMAIN table /\ c \in Conns /\ IsEntry(c, T) /\ T.delayed \in Seq(Segments(c)) /\ out \in Seq(Out)
  BY <1>1, <1>2 DEF EngineTypes, PlaceInv, Tracked, T, IsEntry
<1>4. p \in Segments(c) /\ p \in Packet /\ p.conn = c /\ q \in Seq(Segments(c))
  BY <1>2, <1>3 DEF Segments
<1>5. AsOrig(p) \in Out
  BY <1>4 DEF AsOrig, Out
<1>6. DOMAIN table' = DOMAIN table /\ table'[c] = u /\ \A d \in DOMAIN table : d # c => table'[d] = table[d]
  BY <1>2, <1>3 DEF T
<1> HIDE DEF p, q
<1>7. IsEntry(c, u)
  <2>1. /\ u.host = T.host /\ u.dp = T.dp /\ u.hostFound = T.hostFound /\ u.check = T.check /\ u.l7 = T.l7
        /\ u.l7Found = T.l7Found /\ u.dpSearched = T.dpSearched /\ u.reasm = T.reasm /\ u.delayed = q
        /\ Fields \subseteq DOMAIN u
    BY <1>3 DEF IsEntry, Fields
  <2> HIDE DEF u
  <2> QED
    BY <1>3, <1>4, <2>1 DEF IsEntry, ToldBy
<1> HIDE DEF u
<1>8. EngineTypes'
  <2>1. out' \in Seq(Out)
    <3>1. out' = out \/ out' = Append(out, AsOrig(p))
      BY <1>2
    <3> QED
      BY <1>3, <1>5, <3>1
  <2>2. \A d \in DOMAIN table' : IsEntry(d, table'[d])
    BY <1>1, <1>6, <1>7 DEF EngineTypes
  <2>3. (\A d \in DOMAIN table : IsEntry(d, table[d]))'
    BY <2>2, EntryKept DEF Elsewhere
  <2>4. pc' \in Steps /\ replay' \in BOOLEAN /\ cur' \in Packet /\ cur'.conn \in Conns /\ stream' \in Streams
    BY <1>1, <1>2, <1>3, <1>4 DEF Steps, EngineTypes, Elsewhere
  <2> QED
    BY <1>1, <1>6, <2>1, <2>3, <2>4 DEF EngineTypes
<1>9. ClientTypes' /\ ServerTypes'
  BY <1>1 DEF ClientTypes, ServerTypes, Elsewhere
<1>10. PlaceInv'
  BY <1>2, <1>3, <1>4, <1>6 DEF PlaceInv, Tracked, Early, Joined, Late, ListSteps
<1>11. SessionInv'
  <2>1. ASSUME NEW d \in DOMAIN table', ~Apart(d)' PROVE Session(d, table'[d])
    <3>1. d # c
      BY <1>2, <1>4, <2>1 DEF Apart
    <3> QED
      BY <1>1, <1>6, <2>1, <3>1 DEF SessionInv, Apart
  <2> QED
    BY <2>1, SessionElsewhere DEF SessionInv
<1> QED
  BY <1>8, <1>9, <1>10, <1>11 DEF FlowInv, PathInv

LEMMA ReplayOverKeeps ==
  ASSUME FlowInv, ReplayOver, Elsewhere, Calm' => Calm PROVE PathInv'
<1> DEFINE c == cur.conn
           u == Cancelled(T)
<1>1. EngineTypes /\ ClientTypes /\ ServerTypes /\ PlaceInv /\ SessionInv
  BY DEF FlowInv, PathInv
<1>2. /\ pc = "replay" /\ cur' = cur /\ replay' = FALSE /\ pc' = "done" /\ out' = out
      /\ table' = [table EXCEPT ![c] = u]
  BY DEF ReplayOver, T
<1>3. c \in DOMAIN table /\ c \in Conns /\ IsEntry(c, T)
  BY <1>1, <1>2 DEF EngineTypes, PlaceInv, Tracked, T
<1>4. IsEntry(c, u) /\ u.reasm = NoReasm /\ u.delayed = <<>>
  BY <1>3, CancelledEntry
<1> HIDE DEF u
<1>5. DOMAIN table' = DOMAIN table /\ table'[c] = u /\ \A d \in DOMAIN table : d # c => table'[d] = table[d]
  BY <1>2, <1>3
<1>6. EngineTypes'
  <2>1. \A d \in DOMAIN table' : IsEntry(d, table'[d])
    BY <1>1, <1>4, <1>5 DEF EngineTypes
  <2>2. (\A d \in DOMAIN table : IsEntry(d, table[d]))'
    BY <2>1, EntryKept DEF Elsewhere
  <2> QED
    BY <1>1, <1>2, <1>3, <1>5, <2>2 DEF EngineTypes, Steps, Elsewhere
<1>7. ClientTypes' /\ ServerTypes'
  BY <1>1 DEF ClientTypes, ServerTypes, Elsewhere
<1>8. PlaceInv'
  BY <1>2 DEF PlaceInv, Early, Joined, Late, ListSteps
<1>9. SessionInv'
  <2>1. ASSUME NEW d \in DOMAIN table' PROVE Session(d, table'[d])
    <3>1. CASE d = c
      BY <1>4, <1>5, <3>1, EmptyReasm DEF Session
    <3>2. CASE d # c
      BY <1>1, <1>5, <2>1, <3>2 DEF SessionInv, Apart
    <3> QED
      BY <3>1, <3>2
  <2> QED
    BY <2>1, SessionElsewhere DEF SessionInv
<1> QED
  BY <1>6, <1>7, <1>8, <1>9 DEF FlowInv, PathInv

-----------------------------------------------------------------------------
\* A packet is captured. A client goes on with the connection it has, or leaves
\* it; only a SYN opens one.
Steady(d) == client'[d].st \in {"syn", "open"} => client[d].st \in {"syn", "open"} /\ client'[d].gen = client[d].gen
Brings ==
  /\ cur' \in Packet /\ cur'.conn \in Conns
  /\ cur'.dir = "orig" /\ cur'.len > 0 =>
       (cur \in Segments(cur.conn))' /\ Fresh(cur)' /\ (client[cur.conn].st = "open")'
  /\ \A d \in Conns : Steady(d) \/ (d = cur'.conn /\ cur'.kind = "syn")

LEMMA SteadySession ==
  ASSUME stream' = stream
  PROVE  \A c \in Conns : \A t : /\ Session(c, t) /\ Steady(c)
                                 /\ \A i \in DOMAIN t.delayed : t.delayed[i].conn = c
                                 => Session(c, t)'
<1>1. ASSUME NEW c \in Conns, NEW t, Session(c, t), Steady(c), \A i \in DOMAIN t.delayed : t.delayed[i].conn = c
      PROVE  Session(c, t)'
  <2>1. AllFresh(c, t.delayed) => AllFresh(c, t.delayed)'
    BY <1>1 DEF AllFresh, Fresh, FirstSeq, Steady
  <2> QED
    BY <1>1, <2>1 DEF Session, Buffered, Adjacent, ReasmIsFull
<1> QED
  BY <1>1

LEMMA CaptureKeeps ==
  ASSUME FlowInv, NEW p, Capture(p), Brings, stream' = stream, Calm' => Calm, ClientTypes', ServerTypes' PROVE PathInv'
<1> DEFINE P == Purged(table, lastPurge, now)
           f == Fed(P, p, now)
           c == p.conn
<1>1. EngineTypes /\ PlaceInv /\ SessionInv
  BY DEF FlowInv, PathInv
<1>2. /\ pc = "idle" /\ cur' = p /\ replay' = FALSE /\ out' = <<>> /\ table' = f /\ pc' = "find"
      /\ p \in Packet /\ c \in Conns
  BY DEF Capture, Brings
<1>3. /\ DOMAIN P \subseteq DOMAIN table
      /\ DOMAIN f \subseteq DOMAIN P \cup {c} /\ DOMAIN P \subseteq DOMAIN f
      /\ \A d \in DOMAIN f : IsEntry(d, f[d])
      /\ \A d \in DOMAIN P : d # c => f[d] = table[d]
      /\ \A d \in DOMAIN P : Keeps(table[d], f[d]) \/ Blank(f[d])
      /\ \A d \in DOMAIN f \ DOMAIN P : Blank(f[d])
      /\ c \in DOMAIN P /\ p.kind = "syn" /\ table[c].state # "syn" => Blank(f[c])
      /\ c \in DOMAIN f /\ p.kind = "data" => f[c].state # "syn"
  BY <1>1, <1>2, FedFacts
<1> HIDE DEF P, f
<1>4. DOMAIN f \subseteq Conns
  BY <1>1, <1>2, <1>3 DEF EngineTypes
<1>5. EngineTypes'
  <2>1. (\A d \in DOMAIN table : IsEntry(d, table[d]))'
    BY <1>2, <1>3, EntryKept
  <2>2. out' \in Seq(Out) /\ stream' \in Streams /\ DOMAIN table' \subseteq Conns
    BY <1>1, <1>2, <1>4 DEF EngineTypes
  <2>3. pc' \in Steps /\ replay' \in BOOLEAN /\ cur' \in Packet /\ cur'.conn \in Conns
    BY <1>2 DEF Steps
  <2> QED
    BY <2>1, <2>2, <2>3 DEF EngineTypes
<1>6. PlaceInv'
  <2>1. (cur.dir = "orig" /\ cur.len > 0 => cur.kind = "data")'
    BY DEF Brings, Segments
  <2>2. (cur.dir = "orig" /\ cur.len > 0 /\ Tracked => T.state # "syn")'
    BY <1>2, <1>3, <2>1 DEF Tracked, T
  <2> QED
    BY <1>2, <2>2 DEF PlaceInv, Early, Joined, Late, ListSteps, Brings
<1>8. SessionInv'
  <2>1. ASSUME NEW d \in DOMAIN f, ~Blank(f[d])
        PROVE  /\ Session(d, f[d]) /\ (Steady(d) \/ f[d].delayed = <<>>)
               /\ \A i \in DOMAIN f[d].delayed : f[d].delayed[i].conn = d
    <3>1. d \in DOMAIN P /\ d \in DOMAIN table /\ d \in Conns /\ Keeps(table[d], f[d])
      BY <1>3, <1>4, <2>1
    <3>2. Session(d, table[d])
      BY <1>1, <1>2, <3>1 DEF SessionInv, Apart, PlaceInv, Joined, ListSteps
    <3>3. Session(d, f[d])
      BY <3>1, <3>2 DEF Session, Keeps
    <3>4. \A i \in DOMAIN f[d].delayed : f[d].delayed[i].conn = d
      <4>1. f[d].delayed \in Seq(Segments(d))
        BY <1>3, <2>1 DEF IsEntry
      <4> QED
        BY <4>1 DEF Segments
    <3>5. ~Steady(d) => d = c /\ p.kind = "syn"
      BY <1>2, <3>1 DEF Brings
    <3>6. ~Steady(d) => f[d].delayed = <<>>
      BY <1>3, <2>1, <3>1, <3>2, <3>5 DEF Session, Keeps
    <3> QED
      BY <3>3, <3>4, <3>6
  <2>2. \A d, t : Blank(t) => Session(d, t)'
    BY DEF Blank, Session
  <2>3. \A d, t : Session(d, t) /\ t.delayed = <<>> => Session(d, t)'
    BY DEF Session
  <2>4. \A d \in DOMAIN f : Session(d, f[d]) /\ Steady(d) /\ (\A i \in DOMAIN f[d].delayed : f[d].delayed[i].conn = d)
                              => (\A t : t = f[d] => Session(d, t)')
    BY <1>4, SteadySession
  <2>5. \A d \in DOMAIN f : \A t : t = f[d] => Session(d, t)'
    BY <2>1, <2>2, <2>3, <2>4
  <2> QED
    BY <1>2, <2>5 DEF SessionInv
<1> QED
  BY <1>5, <1>6, <1>8 DEF PathInv

-----------------------------------------------------------------------------
\* The clients, the servers and the network.
LEMMA CumulativeFacts ==
  ASSUME ServerTypes, NEW c \in Conns PROVE Cumulative(c) \in Nat
<1> DEFINE G == server[c].got
           n == Cardinality(G)
           M == {k \in Nat : k + 1 \notin G}
<1>1. IsFiniteSet(G)
  BY DEF ServerTypes
<1>2. n \in Nat
  BY <1>1, FS_CardinalityType
<1>3. ASSUME NEW k \in Nat, 1..k \subseteq G PROVE k <= n
  <2>1. IsFiniteSet(1..k) /\ Cardinality(1..k) = k
    BY FS_Interval
  <2> HIDE DEF G
  <2>2. Cardinality(1..k) <= Cardinality(G)
    BY <1>1, <1>3, FS_Subset
  <2> QED
    BY <2>1, <2>2
<1> HIDE DEF G, n
<1>4. M # {}
  <2>1. SUFFICES ASSUME M = {} PROVE FALSE
    OBVIOUS
  <2>2. \A i \in 1..(n + 1) : i \in G
    <3>1. \A i \in 1..(n + 1) : i - 1 \in Nat /\ (i - 1) + 1 = i
      BY <1>2
    <3> QED
      BY <2>1, <3>1
  <2>3. n + 1 <= n
    BY <1>2, <1>3, <2>2
  <2> QED
    BY <1>2, <2>3
<1>5. PICK k \in M : \A j \in M : k <= j
  <2>1. M \subseteq Nat
    OBVIOUS
  <2> HIDE DEF M
  <2> QED
    BY <1>4, <2>1, LeastOf
<1>6. \A i \in 1..k : i \in G
  <2>1. SUFFICES ASSUME NEW i \in 1..k, i \notin G PROVE FALSE
    OBVIOUS
  <2>2. i - 1 \in Nat /\ (i - 1) + 1 = i /\ i - 1 < k
    BY <1>5, <2>1
  <2>3. i - 1 \in M
    BY <2>1, <2>2
  <2> QED
    BY <1>5, <2>2, <2>3
<1>7. k \in 0..n /\ k + 1 \notin G
  BY <1>2, <1>3, <1>5, <1>6
<1>8. Cumulative(c) \in 0..n
  BY <1>6, <1>7 DEF Cumulative, G, n
<1> QED
  BY <1>2, <1>8

LEMMA FirstSeqTyped == ASSUME ClientTypes, NEW c \in Conns PROVE FirstSeq(c) \in 0..(SeqSpace - 1)
<1>1. Isn[c] + client[c].gen \in Int
  BY FlowAssumption DEF ClientTypes
<1> QED
  BY <1>1, ModFacts DEF FirstSeq

LEMMA SegmentFacts ==
  ASSUME ClientTypes, stream \in Streams,
         NEW c \in Conns, NEW a \in Nat \ {0}, NEW b \in Nat, a <= b, b <= stream[c].total
  PROVE  LET p == Segment(c, a, b)
         IN p \in Segments(c) /\ p.conn = c /\ p.at = a /\ p.seq = Mod(FirstSeq(c) + a)
<1> DEFINE x == Mod(FirstSeq(c) + a)
           y == Mod(ServerIsn + 1)
           k == (b - a) + 1
<1>1. x \in 0..(SeqSpace - 1) /\ y \in 0..(SeqSpace - 1)
  <2>1. FirstSeq(c) + a \in Int
    BY FirstSeqTyped
  <2> QED
    BY <2>1, ModFacts DEF ServerIsn
<1>2. stream[c].total \in Nat
  BY FlowAssumption
<1>3. Segment(c, a, b) = [conn |-> c, dir |-> "orig", kind |-> "data", seq |-> x, ack |-> y, len |-> k, at |-> a]
  BY DEF Segment
<1>4. k \in Nat /\ k > 0 /\ a + k = b + 1
  OBVIOUS
<1>5. a + k <= stream[c].total + 1
  BY <1>2, <1>4
<1> HIDE DEF x, y, k
<1> DEFINE p == [conn |-> c, dir |-> "orig", kind |-> "data", seq |-> x, ack |-> y, len |-> k, at |-> a]
<1>6. /\ p.conn = c /\ p.dir = "orig" /\ p.kind = "data" /\ p.at > 0 /\ p.len > 0 /\ p.at = a /\ p.seq = x
      /\ p.at + p.len <= stream[c].total + 1 /\ p \in Packet
  BY <1>1, <1>4, <1>5 DEF Packet, Kinds
<1> HIDE DEF p
<1>7. p \in Segments(c)
  BY <1>6 DEF Segments
<1> QED
  BY <1>3, <1>6, <1>7 DEF p, x

LEMMA ControlFacts ==
  ASSUME ClientTypes, NEW c \in Conns, NEW kind \in {"syn", "ack", "rst"}
  PROVE  LET p == Control(c, kind) IN p \in Packet /\ p.conn = c /\ p.kind = kind /\ p.len = 0
<1>1. /\ Mod(FirstSeq(c) + client[c].nxt) \in 0..(SeqSpace - 1) /\ Mod(ServerIsn + 1) \in 0..(SeqSpace - 1)
      /\ FirstSeq(c) \in 0..(SeqSpace - 1)
  <2>1. FirstSeq(c) \in 0..(SeqSpace - 1) /\ client[c].nxt \in Nat
    BY FirstSeqTyped DEF ClientTypes
  <2> DEFINE n == FirstSeq(c) + client[c].nxt
             m == ServerIsn + 1
  <2>2. n \in Int /\ m \in Int
    BY <2>1 DEF ServerIsn
  <2> HIDE DEF n, m
  <2>3. Mod(n) \in 0..(SeqSpace - 1) /\ Mod(m) \in 0..(SeqSpace - 1)
    BY <2>2, ModFacts
  <2> QED
    BY <2>1, <2>3 DEF n, m
<1>2. 0 \in 0..(SeqSpace - 1)
  BY SeqAssumption
<1> QED
  BY <1>1, <1>2 DEF Control, Packet, Kinds

LEMMA AnswerFacts ==
  ASSUME ClientTypes, ServerTypes, NEW c \in Conns, NEW kind \in {"synack", "ack", "data", "rst", "redirect"}
  PROVE  LET p == Answer(c, kind) IN p \in Packet /\ p.conn = c /\ p.kind = kind /\ p.dir = "reply"
<1> DEFINE k == IF kind = "synack" THEN 0 ELSE Cumulative(c)
           s == IF kind = "synack" THEN ServerIsn ELSE Mod(ServerIsn + 1)
           l == IF kind \in {"data", "redirect"} THEN 1 ELSE 0
           a == Mod((FirstSeq(c) + 1) + k)
           p == [conn |-> c, dir |-> "reply", kind |-> kind, seq |-> s, ack |-> a, len |-> l, at |-> 0]
<1>1. Answer(c, kind) = p
  BY DEF Answer
<1>2. k \in Nat /\ FirstSeq(c) \in Int
  BY CumulativeFacts, FirstSeqTyped
<1>3. a \in 0..(SeqSpace - 1)
  <2>1. (FirstSeq(c) + 1) + k \in Int
    BY <1>2
  <2> QED
    BY <2>1, ModFacts
<1>4. s \in 0..(SeqSpace - 1)
  <2>1. Mod(ServerIsn + 1) \in 0..(SeqSpace - 1)
    BY ModFacts DEF ServerIsn
  <2> QED
    BY <2>1, SeqAssumption DEF ServerIsn
<1>5. l \in Nat
  OBVIOUS
<1> HIDE DEF k, s, l, a
<1>6. p \in Packet
  BY <1>3, <1>4, <1>5 DEF Packet, Kinds
<1> QED
  BY <1>1, <1>6
LEMMA QuietNetwork ==
  ASSUME ClientTypes, ServerTypes, Elsewhere
  PROVE  ClientTypes' /\ ServerTypes' /\ stream' = stream /\ \A d \in Conns : Steady(d)
  BY DEF ClientTypes, ServerTypes, Elsewhere, Steady

LEMMA AnswerKeeps ==
  ASSUME FlowInv, NEW c \in Conns, NEW kind \in {"synack", "ack", "data", "rst", "redirect"},
         Capture(Answer(c, kind)), Elsewhere, Calm' => Calm
  PROVE  PathInv'
<1>1. PICK p : p = Answer(c, kind) /\ Capture(p)
  OBVIOUS
<1>2. p \in Packet /\ p.conn = c /\ p.dir = "reply"
  BY <1>1, AnswerFacts DEF FlowInv, PathInv
<1>3. cur' = p
  BY <1>1 DEF Capture
<1>4. Brings
  BY <1>2, <1>3, QuietNetwork DEF Brings, FlowInv, PathInv
<1> QED
  BY <1>1, <1>4, QuietNetwork, CaptureKeeps DEF FlowInv, PathInv

LEMMA ControlKeeps ==
  ASSUME FlowInv, NEW c \in Conns, NEW kind \in {"syn", "ack", "rst"}, Capture(Control(c, kind)),
         stream' = stream, Calm' => Calm, ClientTypes', ServerTypes',
         \A d \in Conns : Steady(d) \/ (d = c /\ kind = "syn")
  PROVE  PathInv'
<1>1. PICK p : p = Control(c, kind) /\ Capture(p)
  OBVIOUS
<1>2. p \in Packet /\ p.conn = c /\ p.kind = kind /\ p.len = 0
  BY <1>1, ControlFacts DEF FlowInv, PathInv
<1>3. cur' = p
  BY <1>1 DEF Capture
<1>4. Brings
  BY <1>2, <1>3 DEF Brings
<1> QED
  BY <1>1, <1>4, CaptureKeeps

LEMMA SegmentKeeps ==
  ASSUME FlowInv, NEW c \in Conns, NEW a \in Nat \ {0}, NEW b \in Nat, a <= b, b <= stream[c].total,
         Capture(Segment(c, a, b)), stream' = stream, Calm' => Calm, ClientTypes', ServerTypes',
         \A d \in Conns : Steady(d), client'[c].st = "open"
  PROVE  PathInv'
<1>1. PICK p : p = Segment(c, a, b) /\ Capture(p)
  OBVIOUS
<1>2. p \in Segments(c) /\ p.conn = c /\ p.at = a /\ p.seq = Mod(FirstSeq(c) + a)
  BY <1>1, SegmentFacts DEF FlowInv, PathInv, EngineTypes
<1>3. cur' = p
  BY <1>1 DEF Capture
<1>4. client'[c].gen = client[c].gen
  BY DEF Steady
<1>5. Fresh(cur)'
  BY <1>2, <1>3, <1>4 DEF Fresh, FirstSeq
<1>6. (cur \in Segments(cur.conn))' /\ p \in Packet
  BY <1>2, <1>3 DEF Segments
<1>7. Brings
  BY <1>2, <1>3, <1>5, <1>6 DEF Brings
<1> QED
  BY <1>1, <1>7, CaptureKeeps

\* What the clients do.
LEMMA ClientsKeep ==
  ASSUME FlowInv, Calm' => Calm, NEW c \in Conns,
         Syn(c) \/ SendNew(c) \/ Retransmit(c) \/ PureAck(c) \/ Abort(c) \/ SynAck(c) \/ Ack(c) \/ Data(c)
  PROVE  PathInv'
<1>1. /\ ClientTypes /\ ServerTypes /\ stream \in Streams
      /\ client[c] \in [st : States, una : Nat \ {0}, nxt : Nat \ {0}, gen : Nat]
      /\ client[c].nxt <= stream[c].total + 1 /\ stream[c].total \in Nat
  BY FlowAssumption DEF FlowInv, PathInv, EngineTypes, ClientTypes
<1>2. CASE Syn(c)
  <2> DEFINE k == [client[c] EXCEPT !.st = "syn"]
  <2>1. client' = [client EXCEPT ![c] = k] /\ server' = server /\ stream' = stream
        /\ Capture(Control(c, "syn"))
    BY <1>2 DEF Syn, world
  <2>2. k \in [st : States, una : Nat \ {0}, nxt : Nat \ {0}, gen : Nat] /\ k.nxt = client[c].nxt
    BY <1>1 DEF States
  <2> HIDE DEF k
  <2>3. ClientTypes' /\ \A d \in Conns : d # c => Steady(d)
    BY <1>1, <2>1, <2>2 DEF ClientTypes, Steady
  <2>4. ServerTypes'
    BY <1>1, <2>1 DEF ServerTypes
  <2> QED
    BY <2>1, <2>3, <2>4, ControlKeeps
<1>3. CASE SendNew(c)
  <2>1. PICK b \in client[c].nxt..(IF client[c].nxt + Mss > stream[c].total
                                   THEN stream[c].total ELSE client[c].nxt + Mss - 1) :
          Capture(Segment(c, client[c].nxt, b)) /\ client' = [client EXCEPT ![c].nxt = b + 1]
    BY <1>3 DEF SendNew
  <2> DEFINE k == [client[c] EXCEPT !.nxt = b + 1]
  <2>2. client' = [client EXCEPT ![c] = k] /\ server' = server /\ stream' = stream /\ client[c].st = "open"
    BY <1>3, <2>1 DEF SendNew, world
  <2>3. b \in Nat /\ client[c].nxt \in Nat \ {0} /\ client[c].nxt <= b /\ b <= stream[c].total
    BY <1>1, <2>1, FlowAssumption
  <2>4. /\ k \in [st : States, una : Nat \ {0}, nxt : Nat \ {0}, gen : Nat]
        /\ k.nxt <= stream[c].total + 1 /\ k.st = client[c].st /\ k.gen = client[c].gen
    BY <1>1, <2>3
  <2> HIDE DEF k
  <2>5. ClientTypes' /\ (\A d \in Conns : Steady(d)) /\ client'[c].st = "open"
    BY <1>1, <2>2, <2>4 DEF ClientTypes, Steady
  <2>6. ServerTypes'
    BY <1>1, <2>2 DEF ServerTypes
  <2>7. PICK a \in Nat \ {0} : a = client[c].nxt /\ Capture(Segment(c, a, b)) /\ a <= b
    BY <2>1, <2>3
  <2> QED
    BY <2>2, <2>3, <2>5, <2>6, <2>7, SegmentKeeps
<1>4. CASE Retransmit(c)
  <2>1. PICK b \in client[c].una..(client[c].una + Mss - 1) :
          b < client[c].nxt /\ Capture(Segment(c, client[c].una, b))
    BY <1>4 DEF Retransmit
  <2>2. Elsewhere /\ client[c].st = "open"
    BY <1>4 DEF Retransmit, world, network, Elsewhere
  <2>3. b \in Nat /\ client[c].una \in Nat \ {0} /\ client[c].una <= b /\ b <= stream[c].total
    BY <1>1, <2>1, FlowAssumption
  <2>4. PICK a \in Nat \ {0} : a = client[c].una /\ Capture(Segment(c, a, b)) /\ a <= b
    BY <2>1, <2>3
  <2>5. client'[c].st = "open"
    BY <2>2 DEF Elsewhere
  <2> QED
    BY <1>1, <2>2, <2>3, <2>4, <2>5, QuietNetwork, SegmentKeeps
<1>5. CASE PureAck(c)
  <2>1. Elsewhere /\ Capture(Control(c, "ack"))
    BY <1>5 DEF PureAck, world, Elsewhere
  <2> QED
    BY <1>1, <2>1, QuietNetwork, ControlKeeps
<1>6. CASE Abort(c)
  <2> DEFINE k == [st |-> "closed", una |-> 1, nxt |-> 1, gen |-> client[c].gen + 1]
             v == [st |-> "closed", got |-> {}]
  <2>1. /\ client' = [client EXCEPT ![c] = k] /\ server' = [server EXCEPT ![c] = v] /\ stream' = stream
        /\ Capture(Control(c, "rst"))
    BY <1>6 DEF Abort, world
  <2>2. /\ k \in [st : States, una : Nat \ {0}, nxt : Nat \ {0}, gen : Nat] /\ k.st = "closed"
        /\ k.nxt <= stream[c].total + 1
    BY <1>1 DEF States
  <2>3. v \in [st : States, got : SUBSET Nat] /\ IsFiniteSet(v.got)
    BY FS_EmptySet DEF States
  <2> HIDE DEF k, v
  <2>4. ClientTypes' /\ \A d \in Conns : Steady(d)
    BY <1>1, <2>1, <2>2 DEF ClientTypes, Steady
  <2>5. ServerTypes'
    BY <1>1, <2>1, <2>3 DEF ServerTypes
  <2> QED
    BY <2>1, <2>4, <2>5, ControlKeeps
<1>7. CASE SynAck(c) \/ Ack(c) \/ Data(c)
  <2>1. /\ Elsewhere
        /\ Capture(Answer(c, "synack")) \/ Capture(Answer(c, "ack")) \/ Capture(Answer(c, "data"))
    BY <1>7 DEF SynAck, Ack, Data, world, network, Elsewhere
  <2> QED
    BY <2>1, AnswerKeeps
<1> QED
  BY <1>2, <1>3, <1>4, <1>5, <1>6, <1>7

\* What was sent reaches them, one packet after the other.
ClientEnds == [Conns -> [st : States, una : Nat \ {0}, nxt : Nat \ {0}, gen : Nat]]
ServerEnds == {sv \in [Conns -> [st : States, got : SUBSET Nat]] : \A c \in Conns : IsFiniteSet(sv[c].got)}
Goes(cl) ==
  \A c \in Conns : /\ cl[c].nxt = client[c].nxt /\ cl[c].gen = client[c].gen
                   /\ cl[c].st \in {"syn", "open"} => client[c].st \in {"syn", "open"}
Ends(w) == w[1] \in ClientEnds /\ w[2] \in ServerEnds /\ Goes(w[1])

LEMMA ReachesEnds ==
  ASSUME ClientTypes, NEW cl \in ClientEnds, NEW sv \in ServerEnds, Goes(cl), NEW p \in Packet
  PROVE  Ends(Reaches(cl, sv, p))
<1> DEFINE c == p.conn
           w == Reaches(cl, sv, p)
<1>1. Ends(<<cl, sv>>)
  BY DEF Ends
<1>2. CASE p.kind = "syn"
  <2> DEFINE s == [sv EXCEPT ![c].st = "syn"]
  <2>1. s \in ServerEnds
    BY DEF ServerEnds, States
  <2>2. w = <<cl, s>> \/ w = <<cl, sv>>
    BY <1>2 DEF Reaches
  <2> HIDE DEF w, s
  <2>3. Ends(w)
    BY <1>1, <2>1, <2>2 DEF Ends
  <2> QED
    BY <2>3 DEF w
<1>3. CASE p.kind = "synack"
  <2> DEFINE k == [cl EXCEPT ![c].st = "open"]
             s == [sv EXCEPT ![c].st = "open"]
  <2>1. s \in ServerEnds
    BY DEF ServerEnds, States
  <2>2. cl[c].st = "syn" => k \in ClientEnds /\ Goes(k)
    <3>1. SUFFICES ASSUME cl[c].st = "syn" PROVE k \in ClientEnds /\ Goes(k)
      OBVIOUS
    <3>2. CASE c \in Conns
      <4> DEFINE e == [cl[c] EXCEPT !.st = "open"]
      <4>1. k = [cl EXCEPT ![c] = e]
        BY <3>2 DEF ClientEnds
      <4>2. /\ e \in [st : States, una : Nat \ {0}, nxt : Nat \ {0}, gen : Nat]
            /\ e.nxt = cl[c].nxt /\ e.gen = cl[c].gen
        BY <3>2 DEF ClientEnds, States
      <4>3. client[c].st \in {"syn", "open"}
        BY <3>1, <3>2 DEF Goes
      <4> HIDE DEF e, k
      <4> QED
        BY <3>2, <4>1, <4>2, <4>3 DEF ClientEnds, Goes
    <3>3. CASE c \notin Conns
      <4>1. k = cl
        BY <3>3 DEF ClientEnds
      <4> QED
        BY <4>1
    <3> QED
      BY <3>2, <3>3
  <2>3. w = <<cl, sv>> \/ (cl[c].st = "syn" /\ w = <<k, s>>)
    BY <1>3 DEF Reaches
  <2> HIDE DEF w, s, k
  <2>4. Ends(w)
    BY <1>1, <2>1, <2>2, <2>3 DEF Ends
  <2> QED
    BY <2>4 DEF w
<1>4. CASE p.kind = "data" /\ p.dir = "orig"
  <2> DEFINE I == p.at..(p.at + p.len - 1)
             s == [sv EXCEPT ![c].got = @ \cup I]
  <2>1. I \subseteq Nat /\ IsFiniteSet(I)
    <3>1. p.at \in Nat /\ p.at + p.len - 1 \in Int
      BY DEF Packet
    <3> QED
      BY <3>1, FS_Interval
  <2> HIDE DEF I
  <2>2. s \in ServerEnds
    <3>1. \A d \in Conns : IsFiniteSet(sv[d].got) /\ IsFiniteSet(sv[d].got \cup I)
      BY <2>1, FS_Union DEF ServerEnds
    <3> QED
      BY <2>1, <3>1 DEF ServerEnds
  <2>3. w = <<cl, sv>> \/ w = <<cl, s>>
    BY <1>4 DEF Reaches, I
  <2> HIDE DEF w, s
  <2>4. Ends(w)
    BY <1>1, <2>2, <2>3 DEF Ends
  <2> QED
    BY <2>4 DEF w
<1>5. CASE p.dir = "reply" /\ p.kind \in {"ack", "data"}
  <2> DEFINE a == Dist(p.ack, FirstSeq(c))
             k == [cl EXCEPT ![c].una = IF a > @ THEN a ELSE @,
                             ![c].st = IF p.kind = "data" THEN "answered" ELSE @]
  <2>1. c \in Conns => a \in Nat
    <3>1. SUFFICES ASSUME c \in Conns PROVE a \in Nat
      OBVIOUS
    <3>2. p.ack \in Int /\ FirstSeq(c) \in Int
      BY <3>1, FirstSeqTyped DEF Packet
    <3>3. p.ack - FirstSeq(c) \in Int
      BY <3>2
    <3> QED
      BY <3>3, ModFacts DEF Dist
  <2>2. w = <<k, sv>>
    BY <1>5 DEF Reaches
  <2> HIDE DEF a
  <2>3. k \in ClientEnds /\ Goes(k)
    <3>1. CASE c \in Conns
      <4> DEFINE x == IF a > cl[c].una THEN a ELSE cl[c].una
                 y == IF p.kind = "data" THEN "answered" ELSE cl[c].st
                 e == [cl[c] EXCEPT !.una = x, !.st = y]
      <4>1. k = [cl EXCEPT ![c] = e]
        BY <3>1 DEF ClientEnds
      <4>2. x \in Nat \ {0} /\ y \in States /\ (y \in {"syn", "open"} => y = cl[c].st)
        BY <2>1, <3>1 DEF ClientEnds, States
      <4> HIDE DEF x, y
      <4>3. /\ e \in [st : States, una : Nat \ {0}, nxt : Nat \ {0}, gen : Nat]
            /\ e.nxt = cl[c].nxt /\ e.gen = cl[c].gen /\ e.st = y
        BY <3>1, <4>2 DEF ClientEnds
      <4> HIDE DEF e, k
      <4> QED
        BY <3>1, <4>1, <4>2, <4>3 DEF ClientEnds, Goes
    <3>2. CASE c \notin Conns
      <4>1. k = cl
        BY <3>2 DEF ClientEnds
      <4> QED
        BY <4>1
    <3> QED
      BY <3>1, <3>2
  <2> HIDE DEF w, k
  <2>4. Ends(w)
    BY <2>2, <2>3 DEF Ends
  <2> QED
    BY <2>4 DEF w
<1>6. CASE /\ p.kind \notin {"syn", "synack"} /\ ~(p.kind = "data" /\ p.dir = "orig")
           /\ ~(p.dir = "reply" /\ p.kind \in {"ack", "data"})
  <2>1. w = <<cl, sv>>
    BY <1>6 DEF Reaches
  <2> QED
    BY <1>1, <2>1
<1> QED
  BY <1>2, <1>3, <1>4, <1>5, <1>6

IsRun(f, q, n) ==
  f = [i \in 0..n |-> IF i = 0 THEN <<client, server>> ELSE Reaches(f[i - 1][1], f[i - 1][2], q[i].p)]
LEMMA RunExists == ASSUME NEW q PROVE \A n \in Nat : \E f : IsRun(f, q, n)
<1> DEFINE Ns == {n \in Nat : \E f : IsRun(f, q, n)}
<1>1. 0 \in Ns
  <2>1. IsRun([i \in 0..0 |-> <<client, server>>], q, 0)
    BY DEF IsRun
  <2> QED
    BY <2>1
<1>2. ASSUME NEW n \in Nat, n \in Ns PROVE n + 1 \in Ns
  <2>1. PICK f : IsRun(f, q, n)
    BY <1>2
  <2> DEFINE Step(v, i) == Reaches(v[1], v[2], q[i].p)
             g == [i \in 0..(n + 1) |-> IF i <= n THEN f[i] ELSE Step(f[n], n + 1)]
  <2>2. f = [i \in 0..n |-> IF i = 0 THEN <<client, server>> ELSE Step(f[i - 1], i)]
    BY <2>1, Zenon DEF IsRun
  <2> HIDE DEF Step
  <2>3. ASSUME NEW i \in 0..(n + 1) PROVE g[i] = IF i = 0 THEN <<client, server>> ELSE Step(g[i - 1], i)
    <3>1. CASE i = 0
      BY <2>2, <3>1
    <3>2. CASE i \in 1..n
      <4>1. g[i] = f[i] /\ g[i - 1] = f[i - 1] /\ i \in 0..n /\ i # 0
        BY <3>2
      <4>2. f[i] = Step(f[i - 1], i)
        BY <2>2, <4>1
      <4> QED
        BY <4>1, <4>2
    <3>3. CASE i = n + 1
      BY <3>3
    <3> QED
      BY <3>1, <3>2, <3>3
  <2>4. g = [i \in 0..(n + 1) |-> IF i = 0 THEN <<client, server>> ELSE Step(g[i - 1], i)]
    BY <2>3
  <2> HIDE DEF g
  <2>5. IsRun(g, q, n + 1)
    BY <2>4, Zenon DEF IsRun, Step
  <2> QED
    BY <2>5
<1> HIDE DEF Ns
<1>3. Nat \subseteq Ns
  BY <1>1, <1>2, NatSets
<1> QED
  BY <1>3 DEF Ns

LEMMA AfterAllFacts ==
  ASSUME ClientTypes, ServerTypes, NEW q \in Seq(Out) PROVE Ends(AfterAll(q))
<1> DEFINE n == Len(q)
           F == CHOOSE f : IsRun(f, q, n)
           Ns == {i \in Nat : i <= n => Ends(F[i])}
<1>1. n \in Nat /\ IsRun(F, q, n)
  <2>1. n \in Nat
    OBVIOUS
  <2> HIDE DEF n
  <2>2. \E f : IsRun(f, q, n)
    BY <2>1, RunExists
  <2> QED
    BY <2>1, <2>2, Zenon
<1>2. AfterAll(q) = F[n]
  BY DEF AfterAll, IsRun
<1> HIDE DEF F
<1>3. F[0] = <<client, server>>
  BY <1>1 DEF IsRun
<1>4. ASSUME NEW i \in Nat, i + 1 <= n PROVE F[i + 1] = Reaches(F[i][1], F[i][2], q[i + 1].p)
  <2> DEFINE Step(v, j) == Reaches(v[1], v[2], q[j].p)
  <2>1. F = [j \in 0..n |-> IF j = 0 THEN <<client, server>> ELSE Step(F[j - 1], j)]
    BY <1>1, Zenon DEF IsRun
  <2>2. i + 1 \in 0..n /\ i + 1 # 0 /\ (i + 1) - 1 = i
    BY <1>4
  <2> HIDE DEF Step
  <2>3. F[i + 1] = Step(F[i], i + 1)
    BY <2>1, <2>2
  <2> QED
    BY <2>3 DEF Step
<1>5. 0 \in Ns
  <2>1. client \in ClientEnds /\ server \in ServerEnds /\ Goes(client)
    BY DEF ClientTypes, ServerTypes, ClientEnds, ServerEnds, Goes
  <2>2. Ends(<<client, server>>)
    BY <2>1 DEF Ends
  <2> QED
    BY <1>3, <2>2
<1>6. ASSUME NEW i \in Nat, i \in Ns PROVE i + 1 \in Ns
  <2>1. SUFFICES ASSUME i + 1 <= n PROVE Ends(F[i + 1])
    OBVIOUS
  <2>2. F[i][1] \in ClientEnds /\ F[i][2] \in ServerEnds /\ Goes(F[i][1])
    BY <1>6, <2>1 DEF Ends
  <2>3. q[i + 1].p \in Packet
    <3>1. i + 1 \in 1..Len(q)
      BY <2>1
    <3>2. \A o \in Out : o.p \in Packet
      BY DEF Out
    <3>3. q[i + 1] \in Out
      BY <3>1
    <3> QED
      BY <3>2, <3>3
  <2> QED
    BY <1>4, <2>1, <2>2, <2>3, ReachesEnds
<1> HIDE DEF Ns
<1>7. Nat \subseteq Ns
  BY <1>5, <1>6, NatSets
<1> QED
  BY <1>2, <1>7 DEF Ns

LEMMA FinishKeeps ==
  ASSUME FlowInv, Calm' => Calm, Transmit \/ Lose PROVE PathInv'
<1>1. EngineTypes /\ ClientTypes /\ ServerTypes /\ PlaceInv /\ SessionInv
  BY DEF FlowInv, PathInv
<1>2. /\ pc = "done" /\ pc' = "idle" /\ cur' = NoPacket /\ out' = <<>> /\ table' = table
      /\ replay' = replay /\ stream' = stream
  BY DEF Transmit, Lose, Finish, world
<1>3. ASSUME NEW w, Ends(w), client' = w[1], server' = w[2]
      PROVE  ClientTypes' /\ ServerTypes' /\ \A c \in Conns : Steady(c)
  BY <1>1, <1>2, <1>3 DEF Ends, ClientEnds, ServerEnds, Goes, ClientTypes, ServerTypes, Steady
<1>4. ClientTypes' /\ ServerTypes' /\ \A c \in Conns : Steady(c)
  <2>1. out \in Seq(Out)
    BY <1>1 DEF EngineTypes
  <2>2. CASE Transmit
    BY <1>1, <1>3, <2>1, <2>2, AfterAllFacts DEF Transmit
  <2>3. CASE Lose
    <3>1. PICK i \in DOMAIN out : client' = AfterAll(Without(out, i))[1] /\ server' = AfterAll(Without(out, i))[2]
      BY <2>3 DEF Lose
    <3>2. Without(out, i) \in Seq(Out)
      <4> DEFINE a == SubSeq(out, 1, i - 1)
                 b == SubSeq(out, i + 1, Len(out))
      <4>1. a \in Seq(Out) /\ b \in Seq(Out)
        BY <2>1, <3>1
      <4> HIDE DEF a, b
      <4>2. a \o b \in Seq(Out)
        BY <4>1
      <4> QED
        BY <4>2 DEF Without, a, b
    <3> QED
      BY <1>1, <1>3, <3>1, <3>2, AfterAllFacts
  <2> QED
    BY <2>2, <2>3
<1>5. EngineTypes'
  <2>1. (\A c \in DOMAIN table : IsEntry(c, table[c]))'
    BY <1>1, <1>2, EntryKept DEF EngineTypes
  <2>2. cur' \in Packet
    BY <1>2, SeqAssumption DEF NoPacket, Packet, Kinds
  <2> QED
    BY <1>1, <1>2, <2>1, <2>2 DEF EngineTypes, Steps
<1>6. PlaceInv'
  BY <1>1, <1>2 DEF PlaceInv, Early, Joined, Late, ListSteps
<1>7. SessionInv'
  <2>1. ASSUME NEW c \in DOMAIN table
        PROVE  /\ c \in Conns /\ Session(c, table[c]) /\ Steady(c)
               /\ \A i \in DOMAIN table[c].delayed : table[c].delayed[i].conn = c
    <3>1. c \in Conns /\ table[c].delayed \in Seq(Segments(c))
      BY <1>1, <2>1 DEF EngineTypes, IsEntry
    <3>2. Session(c, table[c])
      BY <1>1, <1>2, <2>1 DEF SessionInv, Apart, PlaceInv, Joined, ListSteps
    <3> QED
      BY <1>4, <3>1, <3>2 DEF Segments
  <2>2. \A c \in DOMAIN table : \A t : t = table[c] => Session(c, t)'
    BY <1>2, <2>1, SteadySession
  <2> QED
    BY <1>2, <2>2 DEF SessionInv
<1> QED
  BY <1>4, <1>5, <1>6, <1>7 DEF FlowInv, PathInv

LEMMA FlowInvInit == Init => FlowInv
<1> SUFFICES ASSUME Init PROVE FlowInv
  OBVIOUS
<1>1. /\ stream \in Streams /\ DOMAIN table = {} /\ pc = "idle" /\ cur = NoPacket /\ replay = FALSE /\ out = <<>>
  BY DEF Init, InitEnvironment, InitEngine
<1>2. PICK st \in [Conns -> AtStart] :
        /\ client = [c \in Conns |-> [st |-> st[c], una |-> 1, nxt |-> 1, gen |-> 0]]
        /\ server = [c \in Conns |-> [st |-> st[c], got |-> {}]]
  BY DEF Init, InitEnvironment
<1>3. EngineTypes
  <2>1. cur \in Packet
    BY <1>1, SeqAssumption DEF NoPacket, Packet, Kinds
  <2>2. <<>> \in Seq(Out)
    OBVIOUS
  <2> QED
    BY <1>1, <2>1, <2>2 DEF EngineTypes, Steps
<1>4. ClientTypes /\ ServerTypes
  <2>1. \A c \in Conns : st[c] \in States /\ stream[c].total \in Nat
    <3>1. \A c \in Conns : st[c] \in AtStart
      BY <1>2
    <3>2. \A c \in Conns : stream[c].total \in 0..(SeqSpace - 1)
      BY <1>1, FlowAssumption
    <3>3. \A c \in Conns : st[c] \in States
      BY <3>1, FlowAssumption DEF States
    <3>4. \A x \in 0..(SeqSpace - 1) : x \in Nat
      BY SeqAssumption
    <3> QED
      BY <3>2, <3>3, <3>4
  <2>2. ClientTypes
    BY <1>2, <2>1 DEF ClientTypes
  <2>3. ServerTypes
    BY <1>2, <2>1, FS_EmptySet DEF ServerTypes
  <2> QED
    BY <2>2, <2>3
<1>5. PlaceInv /\ SessionInv
  BY <1>1 DEF PlaceInv, SessionInv, Early, Joined, Late, ListSteps
<1>6. /\ dp = 0 /\ edits = 0 /\ now = 0 /\ back.host = NoHost /\ ipcache = <<>> /\ loc = NoLoc
      /\ disk = [f \in Files |-> FirstFile(f)]
      /\ mem = MakeAutolistsNonEmpty([f \in Files |-> FirstList(f)], AutoLists)
  <2>1. /\ disk = [f \in Files |-> FirstFile(f)]
        /\ mem = MakeAutolistsNonEmpty([f \in Files |-> FirstList(f)], AutoLists)
    BY DEF Init, InitLists, FirstFile, FirstList
  <2> QED
    BY <2>1 DEF Init, InitEngine, InitEnvironment
<1>7. ListTypes
  <2>1. 0 \in 0..Len(Profiles)
    BY ProfileCount
  <2>2. DpTypes /\ NameTypes
    BY <1>1, <1>6, <2>1 DEF DpTypes, NameTypes, IsHost
  <2>3. FileTypes
    BY <1>6 DEF FileTypes, FirstFile, MakeAutolistsNonEmpty
  <2> QED
    BY <2>2, <2>3 DEF ListTypes
<1>8. MemInv
  <2> DEFINE m == [f \in Files |-> FirstList(f)]
  <2>1. Settled(m, disk)
    BY <1>6 DEF Settled, FirstFile
  <2> HIDE DEF m
  <2> QED
    BY <1>6, <2>1, SettledAutolists DEF MemInv, m
<1>9. FoundInv
  BY <1>1, <1>6 DEF FoundInv, NoPacket, NoLoc
<1> QED
  BY <1>3, <1>4, <1>5, <1>7, <1>8, <1>9 DEF FlowInv, PathInv, ListInv

-----------------------------------------------------------------------------
\* The steps by what they touch.
Rests ==
  /\ UNCHANGED <<table, mem, ipcache, pc, cur, replay, dp, loc, back, out, disk, stream, client, server, edits>>
  /\ now' = now \/ now' = now + 1
Edited ==
  /\ UNCHANGED <<table, mem, ipcache, pc, cur, replay, dp, loc, back, out, stream, client, server, now>>
  /\ \/ \E f \in DOMAIN Contents : \E content \in Contents[f] : Write(f, content)
     \/ \E f \in Lockable : Lock(f) \/ Unlock(f)
  /\ edits' = edits + 1 \/ (edits' = edits /\ \E f : Unlock(f))
Captures == (\E p : Capture(p) /\ (p.dir = "reply" => p.at = 0)) /\ UNCHANGED <<disk, now, stream, edits>>
Worked == Works /\ UNCHANGED <<now, stream, client, server, edits>> /\ (disk' = disk \/ AppendHost)
Replays == (NextHeld \/ ReplayOver) /\ UNCHANGED <<disk, now, stream, client, server, edits>>
Finishes == Finish /\ UNCHANGED <<disk, now, stream, edits>>

LEMMA NextKinds == [Next]_vars => Rests \/ Edited \/ Captures \/ Worked \/ Replays \/ Finishes
<1> SUFFICES ASSUME [Next]_vars PROVE Rests \/ Edited \/ Captures \/ Worked \/ Replays \/ Finishes
  OBVIOUS
<1>1. CASE UNCHANGED vars
  BY <1>1 DEF vars, engine, world, network, Rests
<1>2. ASSUME NEW c \in Conns, Syn(c) \/ SendNew(c) \/ Retransmit(c) \/ PureAck(c) \/ Abort(c) PROVE Captures
  <2>1. (\A kind : Control(c, kind).dir = "orig") /\ \A a, b : Segment(c, a, b).dir = "orig"
    BY DEF Control, Segment
  <2> QED
    BY <1>2, <2>1 DEF Syn, SendNew, Retransmit, PureAck, Abort, world, network, Captures
<1>3. ASSUME NEW c \in Conns, SynAck(c) \/ Ack(c) \/ Data(c) PROVE Captures
  <2>1. \A kind : Answer(c, kind).at = 0
    BY DEF Answer
  <2> QED
    BY <1>3, <2>1 DEF SynAck, Ack, Data, world, network, Captures
<1>4. ASSUME NEW c \in Conns, NEW kind \in Blocks, Block(c, kind) PROVE Captures
  BY <1>4 DEF Block, Answer, world, Captures
<1>5. CASE Engine
  <2>1. CASE AppendHost /\ UNCHANGED <<now, stream, network>>
    BY <2>1 DEF Worked, Works, network
  <2>2. CASE ~(AppendHost /\ UNCHANGED <<now, stream, network>>)
    <3>1. UNCHANGED <<disk, now, stream, client, server, edits>> /\ (Works \/ NextHeld \/ ReplayOver)
      BY <1>5, <2>2 DEF Engine, Quietly, world, network, Works
    <3> QED
      BY <3>1 DEF Worked, Replays
  <2> QED
    BY <2>1, <2>2
<1>6. CASE Transmit \/ Lose
  BY <1>6 DEF Transmit, Lose, world, Finishes
<1>7. CASE Tick
  BY <1>7 DEF Tick, engine, network, Rests
<1>8. ASSUME NEW f \in DOMAIN Contents, NEW content \in Contents[f], Write(f, content) PROVE Edited
  BY <1>8 DEF Write, engine, Edited
<1>9. ASSUME NEW f \in Lockable, Lock(f) \/ Unlock(f) PROVE Edited
  <2>1. CASE Lock(f)
    BY <2>1 DEF Lock, engine, Edited
  <2>2. CASE Unlock(f)
    <3>1. UNCHANGED <<engine, now, stream, network>>
      BY <2>2 DEF Unlock
    <3> QED
      BY <2>2, <3>1 DEF engine, network, Edited
  <2> QED
    BY <1>9, <2>1, <2>2
<1> QED
  BY <1>1, <1>2, <1>3, <1>4, <1>5, <1>6, <1>7, <1>8, <1>9 DEF Next

\* Edits are counted, and a lock counts as one.
LEMMA EditsGrow == ASSUME FileTypes, [Next]_vars PROVE edits' \in Nat /\ (edits' = edits \/ edits' > 0)
<1>1. edits \in Nat
  BY DEF FileTypes
<1>2. CASE Edited
  BY <1>1, <1>2 DEF Edited
<1> QED
  BY <1>1, <1>2, NextKinds DEF Rests, Captures, Worked, Replays, Finishes

LEMMA CalmBefore == ASSUME FileTypes, [Next]_vars PROVE Calm' => Calm
<1>1. edits' = edits \/ edits' > 0
  BY EditsGrow
<1>2. Tidy' <=> Tidy
  BY DEF Tidy, AutoLists, NamesIn
<1> QED
  BY <1>1, <1>2 DEF Calm

\* What the steps do to the profile in force, to the names and to the files.
LEMMA DpNext == ASSUME FlowInv, [Next]_vars PROVE DpTypes'
<1>1. DpTypes /\ PlaceInv /\ Len(Profiles) \in Nat
  BY ProfileCount DEF FlowInv, PathInv, ListInv, ListTypes
<1>2. ASSUME dp' = dp, pc \notin {"idle", "find", "replay"} \/ pc' = pc \/ pc' \in {"idle", "find", "replay", "done"}, pc # "done" \/ pc' \in {"idle", "done"}
      PROVE  DpTypes'
  BY <1>1, <1>2 DEF DpTypes
<1>3. 0 \in 0..Len(Profiles)
  BY <1>1
<1>4. CASE Rests \/ Edited
  BY <1>2, <1>4 DEF Rests, Edited
<1>5. CASE Captures \/ Finishes
  BY <1>3, <1>5 DEF Captures, Finishes, Capture, Finish, DpTypes
<1>6. CASE Replays
  <2>1. CASE ReplayOver
    BY <1>2, <2>1 DEF ReplayOver
  <2>2. CASE NextHeld
    <3>1. Tracked
      BY <1>1, <2>2 DEF NextHeld, PlaceInv
    <3>2. T.dp \in 0..Len(Profiles)
      BY <3>1 DEF FlowInv, PathInv, EngineTypes, Tracked, T, IsEntry, ToldBy, Told
    <3> QED
      BY <1>3, <2>2, <3>2 DEF NextHeld, DpTypes
  <2> QED
    BY <1>6, <2>1, <2>2 DEF Replays
<1>7. CASE Worked
  <2>1. CASE FindProfile
    <3>1. dp' \in 0..Len(Profiles)
      <4>1. CASE UseCached
        BY <4>1 DEF UseCached, FlowInv, PathInv, EngineTypes, Tracked, T, IsEntry, ToldBy, Told
      <4>2. CASE Search
        BY <4>2, FindTyped DEF Search, Searched
      <4> QED
        BY <2>1, <4>1, <4>2 DEF FindProfile
    <3>2. dp' # 0 \/ pc' \in {"done", "replay"}
      BY <2>1 DEF FindProfile, SendOrig, After
    <3> QED
      BY <3>1, <3>2 DEF DpTypes
  <2>2. CASE Discover
    <3>1. CASE Rediscover
      <4>1. dp' = Choice.dp /\ dp' \in 0..Len(Profiles)
        BY <3>1, FindTyped DEF Rediscover, RediscoverAs, Choice
      <4>2. dp' # 0 \/ pc' \in {"done", "replay"}
        BY <3>1, <4>1 DEF Rediscover, RediscoverAs, Choice, CancelAndSendOrig, After
      <4> QED
        BY <4>1, <4>2 DEF DpTypes
    <3>2. CASE NothingNew
      BY <1>2, <2>2, <3>2 DEF NothingNew, Discover
    <3> QED
      BY <2>2, <3>1, <3>2 DEF Discover
  <2>3. CASE ~FindProfile /\ ~Discover
    <3>1. dp' = dp /\ pc \notin {"idle", "find", "replay", "done"}
      BY <1>7, <2>3 DEF Worked, Works, Limits, Inbound, RecheckFailed, AppendHost, SignList,
                        Gate, Payload, Classify, CheckHost, Act
    <3> QED
      BY <1>2, <3>1
  <2> QED
    BY <2>1, <2>2, <2>3
<1> QED
  BY <1>4, <1>5, <1>6, <1>7, NextKinds

LEMMA NamesNext == ASSUME FlowInv, [Next]_vars PROVE NameTypes'
<1>1. NameTypes /\ EngineTypes
  BY DEF FlowInv, PathInv, ListInv, ListTypes
<1>2. back' = back /\ ipcache' = ipcache => NameTypes'
  BY <1>1 DEF NameTypes, IsHost
<1>3. CASE Rests \/ Edited \/ Replays \/ Finishes
  BY <1>2, <1>3 DEF Rests, Edited, Replays, Finishes, NextHeld, ReplayOver, Finish
<1>4. CASE Captures
  <2>1. back' = back /\ ipcache' = IpcachePurged
    BY <1>4 DEF Captures, Capture
  <2>2. \A a \in DOMAIN IpcachePurged : a \in DOMAIN ipcache /\ IpcachePurged[a] = ipcache[a]
    BY DEF IpcachePurged
  <2> QED
    BY <1>1, <2>1, <2>2 DEF NameTypes, IsHost
<1>5. CASE Worked
  <2>1. Here
    BY <1>5, StepShaped DEF Worked, Here, FlowInv, PathInv
  <2>2. Tracked => IsHost(T.host)
    BY <1>1 DEF EngineTypes, Tracked, T, IsEntry, ToldBy, Told
  <2>3. CASE Inbound \/ Payload
    <3>1. ipcache' = ipcache /\ (back' = back \/ (Tracked /\ back'.host = T.host))
      BY <2>3 DEF Inbound, Payload, Answered, Unremarkable, FirstAnswer, RetransCounts, CountFail
    <3> QED
      BY <1>1, <2>2, <3>1 DEF NameTypes, IsHost
  <2>4. CASE FindProfile
    <3>1. back' = back
      BY <2>4 DEF FindProfile
    <3>2. CASE UseCached
      BY <1>2, <3>1, <3>2 DEF UseCached
    <3>3. CASE Search
      <4>1. IsHost(CachedHost)
        BY <1>1 DEF NameTypes, CachedHost, IsHost
      <4>2. PICK a : a = Target(cur).addr
        OBVIOUS
      <4>3. \/ ipcache' = ipcache
            \/ ipcache' = [b \in DOMAIN ipcache \cup {a} |->
                             IF b = a THEN [host |-> CachedHost, last |-> now] ELSE ipcache[b]]
        BY <3>3, <4>2 DEF Search, Searched
      <4> QED
        BY <1>1, <3>1, <4>1, <4>3 DEF NameTypes, IsHost
    <3> QED
      BY <2>4, <3>2, <3>3 DEF FindProfile
  <2>5. CASE Discover
    <3>1. back' = back
      BY <2>5 DEF Discover
    <3>2. CASE NothingNew
      BY <1>2, <3>1, <3>2 DEF NothingNew
    <3>3. CASE Rediscover
      <4>1. IsHost(S.host)
        BY <2>1, HostNowFacts
      <4>2. PICK a : a = Target(cur).addr
        OBVIOUS
      <4>3. \/ ipcache' = ipcache
            \/ ipcache' = [b \in DOMAIN ipcache \cup {a} |->
                             IF b = a THEN [host |-> S.host, last |-> now] ELSE ipcache[b]]
        BY <3>3, <4>2 DEF Rediscover, RediscoverAs
      <4> QED
        BY <1>1, <3>1, <4>1, <4>3 DEF NameTypes, IsHost
    <3> QED
      BY <2>5, <3>2, <3>3 DEF Discover
  <2>6. CASE ~(Inbound \/ Payload \/ FindProfile \/ Discover)
    BY <1>2, <1>5, <2>6 DEF Worked, Works, Limits, RecheckFailed, AppendHost, SignList, Gate, Classify, CheckHost, Act
  <2> QED
    BY <2>3, <2>4, <2>5, <2>6
<1> QED
  BY <1>3, <1>4, <1>5, NextKinds

LEMMA FilesNext == ASSUME FlowInv, [Next]_vars PROVE FileTypes'
<1>1. FileTypes
  BY DEF FlowInv, ListInv, ListTypes
<1>2. edits' \in Nat
  BY <1>1, EditsGrow
<1>3. now' \in Nat
  <2>1. now' = now \/ now' = now + 1
    BY NextKinds DEF Rests, Edited, Captures, Worked, Replays, Finishes
  <2> QED
    BY <1>1, <2>1 DEF FileTypes
<1>4. DOMAIN disk' = DOMAIN disk /\ \A f \in Files : DOMAIN disk'[f] = DOMAIN disk[f]
  <2>1. CASE disk' = disk
    BY <2>1
  <2>2. CASE Edited
    BY <1>1, <2>2 DEF Edited, Write, Lock, Unlock, FileTypes
  <2>3. CASE AppendHost
    <3>1. PICK a : a = DP.auto
      OBVIOUS
    <3>2. disk' = disk \/ disk' = Appended(a)
      BY <2>3, <3>1 DEF AppendHost
    <3> QED
      BY <1>1, <3>2 DEF Appended, FileTypes
  <2> QED
    BY <2>1, <2>2, <2>3, NextKinds DEF Rests, Captures, Worked, Replays, Finishes
<1> QED
  BY <1>1, <1>2, <1>3, <1>4 DEF FileTypes

\* Without edits the lists stay what they were, whatever is read again.
LEMMA MemNext == ASSUME FlowInv, [Next]_vars PROVE MemInv'
<1>1. FileTypes /\ DpTypes
  BY DEF FlowInv, ListInv, ListTypes
<1> SUFFICES ASSUME Calm' PROVE Settled(mem', disk')
  BY DEF MemInv, Settled, FirstFile, FirstList, AutoLists
<1>2. Calm /\ Tidy
  BY <1>1, CalmBefore DEF Calm
<1>3. Settled(mem, disk)
  BY <1>2 DEF FlowInv, ListInv, MemInv
<1>4. CASE mem' = mem /\ disk' = disk
  BY <1>3, <1>4
<1>5. CASE Edited
  <2>1. edits' = 0 /\ edits \in Nat /\ mem' = mem
    BY <1>1, <1>5 DEF Calm, FileTypes, Edited
  <2>2. PICK f : Unlock(f)
    BY <1>5, <2>1 DEF Edited
  <2>3. ~disk[f].readable /\ \E v : disk' = [disk EXCEPT ![f] = v]
    BY <2>2 DEF Unlock
  <2>4. f \notin Files /\ DOMAIN disk = Files
    BY <1>1, <1>3, <2>3 DEF Settled, FileTypes
  <2>5. PICK v : disk' = [disk EXCEPT ![f] = v]
    BY <2>3
  <2>6. \A x \in DOMAIN disk : disk[x] = disk'[x] /\ x \in DOMAIN disk'
    BY <2>4, <2>5
  <2>7. \A x \in Files : disk'[x] = disk[x]
    BY <2>4, <2>6
  <2> QED
    BY <1>3, <2>1, <2>7 DEF Settled
<1>6. CASE Worked
  <2>1. Here /\ pc \notin {"idle", "replay", "done"}
    BY <1>6, StepShaped DEF Worked, Here, FlowInv, PathInv
  <2>2. CASE FindProfile
    <3>1. disk' = disk
      BY <1>6, <2>2 DEF Worked, FindProfile, AppendHost
    <3>2. CASE UseCached
      BY <1>3, <3>1, <3>2 DEF UseCached
    <3>3. CASE Search
      <4>1. PICK h, l7 : mem' = DpFind(mem, disk, Target(cur), h, l7).mem
        BY <3>3 DEF Search, Searched
      <4>2. Settled(mem', disk)
        BY <1>2, <1>3, <4>1, FindSettled
      <4> QED
        BY <3>1, <4>2
    <3> QED
      BY <2>2, <3>2, <3>3 DEF FindProfile
  <2>3. CASE Discover
    <3>1. disk' = disk
      BY <1>6, <2>3 DEF Worked, Discover, AppendHost
    <3>2. CASE NothingNew
      BY <1>3, <3>1, <3>2 DEF NothingNew
    <3>3. CASE Rediscover
      <4>1. mem' = Choice.mem
        BY <3>3 DEF Rediscover, RediscoverAs, Choice
      <4> QED
        BY <1>2, <2>1, <3>1, <4>1, ChoiceFacts
    <3> QED
      BY <2>3, <3>2, <3>3 DEF Discover
  <2>4. CASE RecheckFailed \/ CheckHost
    <3>1. disk' = disk
      BY <1>6, <2>4 DEF Worked, RecheckFailed, CheckHost, AppendHost
    <3>2. mem' = mem \/ mem' = Recheck(mem, disk, DP)
      BY <2>4 DEF RecheckFailed, CheckHost
    <3>3. Settled(Recheck(mem, disk, DP), disk)
      BY <1>3, SettledHostlists DEF Recheck
    <3> QED
      BY <1>3, <3>1, <3>2, <3>3
  <2>5. CASE AppendHost \/ SignList
    <3>1. PICK a : a = DP.auto
      OBVIOUS
    <3>2. a \in AutoLists \/ a \notin Files
      <4>1. dp # 0 /\ dp \in DOMAIN Profiles
        BY <1>1, <2>5, ProfileCount DEF AppendHost, SignList, DpTypes
      <4> QED
        BY <3>1, <4>1, ProfilesAssumption DEF DP, AutoLists
    <3>3. DOMAIN mem' = DOMAIN mem /\ \A f \in DOMAIN mem : f # a => mem'[f] = mem[f]
      BY <2>5, <3>1 DEF AppendHost, SignList
    <3>4. \A f \in Files : (f # a => disk'[f] = disk[f]) /\ disk'[f].readable = disk[f].readable
      <4>1. disk' = disk \/ disk' = Appended(a)
        BY <1>6, <2>5, <3>1 DEF Worked, AppendHost, SignList
      <4> QED
        BY <1>1, <4>1 DEF Appended, FileTypes
    <3> QED
      BY <1>3, <3>2, <3>3, <3>4 DEF Settled
  <2>6. CASE ~(FindProfile \/ Discover \/ RecheckFailed \/ CheckHost \/ AppendHost \/ SignList)
    <3>1. mem' = mem /\ disk' = disk
      BY <1>6, <2>6 DEF Worked, Works, Limits, Inbound, Gate, Payload, Classify, Act
    <3> QED
      BY <1>4, <3>1
  <2> QED
    BY <2>2, <2>3, <2>4, <2>5, <2>6
<1> QED
  BY <1>4, <1>5, <1>6, NextKinds DEF Rests, Captures, Replays, Finishes, Capture, NextHeld, ReplayOver, Finish

\* A name is found only with the protocol that has it.
LEMMA ClassifyKnows ==
  ASSUME Here, Classify, pc' = "discover", loc'.have = TRUE, ~(loc.have = TRUE), Tracked, ~replay
  PROVE  N.l7 # "unknown"
<1>1. IsEntry(cur.conn, T) /\ cur.conn \in DOMAIN table
  BY DEF Here, EngineTypes, Tracked, T
<1>2. CASE ClassifyHttp
  <2> DEFINE a == Cancelled(T)
             t == WithL7(a, "http")
             u == IF DP.noForced THEN t ELSE ForcedWsizeCut(t, DP)
             v == IF HasHost THEN HttpRequestSeen(u) ELSE u
  <2>1. table' = [table EXCEPT ![cur.conn] = v]
    BY <1>2 DEF ClassifyHttp, Real
  <2>2. IsEntry(cur.conn, a)
    BY <1>1, CancelledEntry
  <2> HIDE DEF a
  <2>3. IsEntry(cur.conn, t) /\ t.l7 # "unknown"
    <3>1. t.l7 # "unknown"
      BY <2>2 DEF WithL7, IsEntry, Fields
    <3> QED
      BY <2>2, <3>1, RequestEntry
  <2> HIDE DEF t
  <2>4. IsEntry(cur.conn, u) /\ u.l7 # "unknown"
    <3>1. IsEntry(cur.conn, ForcedWsizeCut(t, DP)) /\ Like(t, ForcedWsizeCut(t, DP))
      BY <2>3, WsizeEntry
    <3> QED
      BY <2>3, <3>1 DEF Like, Recalls
  <2> HIDE DEF u
  <2>5. v.l7 # "unknown"
    <3>1. Like(u, HttpRequestSeen(u))
      BY <2>4, RequestEntry
    <3> QED
      BY <2>4, <3>1 DEF Like, Recalls
  <2> HIDE DEF v
  <2> QED
    BY <1>1, <2>1, <2>5 DEF N
<1>3. CASE ClassifyTls
  <2> DEFINE u == HelloSeen(T)
             w == [table EXCEPT ![cur.conn] = u]
  <2>1. table' = w
    BY <1>3 DEF ClassifyTls, HoldHello, HelloTooLarge, HelloAtHand, CancelAndSendOrig, After, Real, T
  <2>2. u.l7 # "unknown"
    BY <1>1, HelloEntry
  <2> HIDE DEF u
  <2> QED
    BY <1>1, <2>1, <2>2 DEF N
<1> QED
  BY <1>2, <1>3 DEF Classify, ClassifyOther

LEMMA FoundNext == ASSUME FlowInv, [Next]_vars PROVE FoundInv'
<1>1. FoundInv /\ PlaceInv /\ EngineTypes
  BY DEF FlowInv, PathInv, ListInv
<1>2. CASE Rests \/ Edited
  BY <1>1, <1>2 DEF Rests, Edited, FoundInv, Joined, ListSteps, Tracked, T
<1>3. CASE Captures \/ Finishes
  BY <1>1, <1>3 DEF Captures, Finishes, Capture, Finish, FoundInv, PlaceInv, Joined, ListSteps, NoLoc, NoPacket
<1>4. CASE Replays
  <2>1. CASE ReplayOver
    BY <1>1, <2>1 DEF ReplayOver, FoundInv, Joined, ListSteps
  <2>2. CASE NextHeld
    <3> DEFINE c == cur.conn
    <3>1. pc = "replay" /\ T.delayed # <<>> /\ c \in DOMAIN table /\ c \in Conns /\ IsEntry(c, T)
      BY <1>1, <2>2 DEF NextHeld, PlaceInv, Tracked, EngineTypes, T
    <3>2. cur' = Head(T.delayed) /\ T.delayed \in Seq(Segments(c))
      BY <2>2, <3>1 DEF NextHeld, IsEntry
    <3>3. cur'.conn = c /\ cur'.dir = "orig"
      BY <3>1, <3>2 DEF Segments
    <3> DEFINE q == Tail(T.delayed)
               u == [T EXCEPT !.delayed = q]
    <3>4. table' = [table EXCEPT ![c] = u]
      BY <2>2 DEF NextHeld, T
    <3>5. u.l7 = T.l7
      BY <3>1 DEF IsEntry, Fields
    <3> HIDE DEF q, u
    <3>6. T' = u /\ T.l7 # "unknown"
      BY <1>1, <3>1, <3>3, <3>4 DEF T, FoundInv
    <3>7. ~(loc'.have = TRUE) /\ pc' \in {"classify", "replay"} /\ replay' = TRUE
      BY <2>2 DEF NextHeld, NoLoc
    <3>8. ~Joined'
      BY <3>7 DEF Joined
    <3> HIDE DEF c
    <3> QED
      BY <3>3, <3>5, <3>6, <3>7, <3>8 DEF FoundInv
  <2> QED
    BY <1>4, <2>1, <2>2 DEF Replays
<1>5. CASE Worked
  <2>1. Stays /\ pc \in Steps \ {"idle", "replay", "done"} /\ StepShape /\ Here
    BY <1>5, StepShaped DEF Worked, Here, FlowInv, PathInv
  <2>2. Only(table') /\ (Tracked => Recalls(T, N))
    BY <1>5, WorksShape DEF Worked
  <2>3. (Tracked' <=> Tracked) /\ T' = N
    BY <2>1, <2>2 DEF Tracked, T, N, Stays, Only
  <2>4. replay' \/ (Tracked' /\ pc' \in {"discover", "check", "act"}) => cur'.dir = "orig"
    <3>1. replay \/ (Tracked /\ pc \in {"classify", "discover", "check", "act"}) => cur.dir = "orig"
      BY <1>1, <2>1 DEF FoundInv, PlaceInv, Joined
    <3>2. pc' \in {"discover", "check", "act"} => pc \in {"classify", "discover", "check"} 
      BY <1>1, <2>1 DEF StepShape, Leaves, Enters, Relists, Reads, Looks, GivesUp, HoldsIt, After, PlaceInv, ListSteps
    <3> QED
      BY <2>1, <2>3, <3>1, <3>2 DEF Stays
  <2>5. cur' = cur /\ replay' = replay
    BY <2>1 DEF Stays
  <2>6. Joined' /\ ~Tracked' => loc'.at = cur'.at
    <3>1. Joined' => (Relists /\ Joined) \/ Reads
      BY <1>1, <2>1, <2>5 DEF StepShape, Leaves, Enters, Relists, Looks, GivesUp, HoldsIt, After, Joined, PlaceInv, ListSteps
    <3>2. Relists => loc' = loc
      BY DEF Relists
    <3>3. Reads /\ ~Tracked => loc'.at = cur.at
      BY DEF Reads, JoinsIt
    <3> QED
      BY <1>1, <2>3, <2>5, <3>1, <3>2, <3>3 DEF FoundInv
  <2>7. pc' = "discover" /\ loc'.have = TRUE => cur'.dir = "orig"
    <3>1. SUFFICES ASSUME pc' = "discover", loc'.have = TRUE, ~replay, ~Tracked PROVE cur.at # 0
      BY <1>1, <2>1, <2>3, <2>4, <2>5 DEF FoundInv, EngineTypes, Packet
    <3>2. Classify /\ pc = "classify"
      <4>1. pc \in {"classify", "discover", "check"}
        BY <1>1, <2>1, <3>1 DEF StepShape, Leaves, Enters, Relists, Reads, GivesUp, HoldsIt, Looks, After, PlaceInv, ListSteps
      <4>2. ~Discover /\ ~CheckHost
        BY <3>1 DEF Discover, Rediscover, RediscoverAs, NothingNew, CheckHost, CancelAndSendOrig, After
      <4>3. Classify
        BY <1>5, <4>1, <4>2 DEF Worked, Works, FindProfile, Limits, Inbound, RecheckFailed, AppendHost, SignList,
             Gate, Payload, Act
      <4> QED
        BY <4>3 DEF Classify
    <3>3. Joined /\ loc.at = cur.at /\ ~(loc.have = TRUE)
      BY <1>1, <3>1, <3>2 DEF FoundInv, Joined, Steps
    <3>4. loc.at = 1 \/ loc' = loc
      BY <3>2 DEF Classify, ClassifyHttp, ClassifyTls, ClassifyOther, IsHttp, IsTLSClientHello
    <3> QED
      BY <3>1, <3>3, <3>4
  <2>8. replay' \/ pc' = "replay" => T'.l7 # "unknown"
    <3>1. CASE replay
      <4>1. Tracked /\ T.l7 # "unknown"
        BY <1>1, <3>1 DEF FoundInv, PlaceInv
      <4> QED
        BY <2>2, <2>3, <4>1 DEF Recalls
    <3>2. CASE ~replay
      <4>1. pc' = "replay" => HoldsIt
        BY <1>1, <2>1, <3>2 DEF StepShape, Leaves, Enters, Relists, Reads, Looks, GivesUp, After, PlaceInv, ListSteps
      <4> QED
        BY <2>1, <2>3, <3>2, <4>1 DEF HoldsIt, Stays
    <3> QED
      BY <3>1, <3>2
  <2>9. /\ pc' \in Steps \ {"idle", "replay", "discover", "check", "act", "done"} => ~(loc'.have = TRUE)
        /\ pc' = "discover" /\ loc'.have = TRUE /\ Tracked => N.l7 # "unknown"
    <3>1. CASE Payload
      BY <3>1 DEF Payload, CountFail, NoLoc
    <3>2. CASE Classify
      <4>1. pc' \in {"discover", "done", "replay"}
        BY <3>2 DEF Classify, ClassifyHttp, ClassifyTls, HoldHello, HelloTooLarge, HelloAtHand, ClassifyOther,
                    CancelAndSendOrig, After
      <4>2. ~(loc.have = TRUE)
        BY <1>1, <3>2 DEF Classify, FoundInv, Steps
      <4>3. CASE replay /\ Tracked
        BY <1>1, <2>2, <4>1, <4>3 DEF FoundInv, Recalls
      <4>4. CASE ~replay
        BY <2>1, <3>2, <4>1, <4>2, <4>4, ClassifyKnows
      <4> QED
        BY <1>1, <4>1, <4>3, <4>4
    <3>3. CASE Discover \/ CheckHost \/ Act
      BY <3>3 DEF Discover, Rediscover, RediscoverAs, NothingNew, CheckHost, Act, CancelAndSendOrig, After
    <3>4. CASE ~(Payload \/ Classify \/ Discover \/ CheckHost \/ Act)
      <4>1. loc' = loc /\ pc' # "discover" /\ pc \in Steps \ {"idle", "replay", "discover", "check", "act", "done"}
        BY <1>1, <1>5, <3>4 DEF Worked, Works, FindProfile, Limits, Inbound, RecheckFailed, AppendHost, SignList, Gate,
             SendOrig, CancelAndSendOrig, After, Answered, Unremarkable, CountFail, PlaceInv, ListSteps, Steps
      <4> QED
        BY <1>1, <4>1 DEF FoundInv
    <3> QED
      BY <3>1, <3>2, <3>3, <3>4
  <2> QED
    BY <1>1, <2>3, <2>4, <2>5, <2>6, <2>7, <2>8, <2>9 DEF FoundInv
<1> QED
  BY <1>2, <1>3, <1>4, <1>5, NextKinds

LEMMA ListsNext == ASSUME FlowInv, [Next]_vars PROVE ListInv'
  BY DpNext, NamesNext, FilesNext, MemNext, FoundNext DEF ListInv, ListTypes

LEMMA FlowInvNext == FlowInv /\ [Next]_vars => FlowInv'
<1> SUFFICES ASSUME FlowInv, [Next]_vars PROVE PathInv'
  BY ListsNext DEF FlowInv
<1>0. Calm' => Calm
  BY CalmBefore DEF FlowInv, ListInv, ListTypes
<1>1. ASSUME UNCHANGED <<table, pc, cur, replay, loc, back, out, stream, client, server>> PROVE PathInv'
  <2>1. EngineTypes' /\ ClientTypes' /\ ServerTypes'
    <3>1. (\A c \in DOMAIN table : IsEntry(c, table[c]))'
      BY <1>0, <1>1, EntryKept DEF FlowInv, PathInv, EngineTypes
    <3>2. EngineTypes'
      BY <1>1, <3>1 DEF FlowInv, PathInv, EngineTypes
    <3>3. ClientTypes' /\ ServerTypes'
      BY <1>1 DEF FlowInv, PathInv, ClientTypes, ServerTypes
    <3> QED
      BY <3>2, <3>3
  <2>2. (Tracked' <=> Tracked) /\ T' = T /\ (Early' <=> Early) /\ (Joined' <=> Joined) /\ (Late' <=> Late)
    BY <1>1 DEF Tracked, T, Early, Joined, Late, ListSteps
  <2>3. Grown(cur.conn, T)' <=> Grown(cur.conn, T)
    BY <1>1, <2>2 DEF Grown, ReasmIsFull, Buffered, Adjacent, AllFresh, Fresh, FirstSeq
  <2>4. (cur \in Segments(cur.conn))' <=> cur \in Segments(cur.conn)
    BY <1>1 DEF Segments
  <2>5. Fresh(cur)' <=> Fresh(cur)
    BY <1>1 DEF Fresh, FirstSeq
  <2>6. PlaceInv'
    BY <1>1, <2>2, <2>3, <2>4, <2>5 DEF FlowInv, PathInv, PlaceInv
  <2>7. Elsewhere
    BY <1>1 DEF Elsewhere
  <2>8. SessionInv'
    BY <1>1, <2>2, <2>7, SessionElsewhere DEF FlowInv, PathInv, SessionInv, Apart
  <2> QED
    BY <2>1, <2>6, <2>8 DEF PathInv
<1>2. CASE UNCHANGED vars
  BY <1>1, <1>2 DEF vars, engine, world, network
<1>3. ASSUME NEW c \in Conns,
             Syn(c) \/ SendNew(c) \/ Retransmit(c) \/ PureAck(c) \/ Abort(c) \/ SynAck(c) \/ Ack(c) \/ Data(c)
      PROVE  PathInv'
  BY <1>0, <1>3, ClientsKeep
<1>4. ASSUME NEW c \in Conns, NEW kind \in Blocks, Block(c, kind) PROVE PathInv'
  <2>1. Elsewhere /\ Capture(Answer(c, kind)) /\ kind \in {"synack", "ack", "data", "rst", "redirect"}
    BY <1>4, FlowAssumption DEF Block, world, Elsewhere
  <2> QED
    BY <1>0, <2>1, AnswerKeeps
<1>5. CASE Engine
  <2>1. Elsewhere
    BY <1>5 DEF Engine, Quietly, world, network, Elsewhere
  <2>2. Works \/ NextHeld \/ ReplayOver
    BY <1>5 DEF Engine, Quietly, Works
  <2> QED
    BY <1>0, <2>1, <2>2, WorksKeeps, NextHeldKeeps, ReplayOverKeeps
<1>6. CASE Transmit \/ Lose
  BY <1>0, <1>6, FinishKeeps
<1>7. CASE Tick
  BY <1>1, <1>7 DEF Tick, engine, network
<1>8. ASSUME NEW f \in DOMAIN Contents, NEW content \in Contents[f], Write(f, content) PROVE PathInv'
  BY <1>1, <1>8 DEF Write, engine
<1>9. ASSUME NEW f \in Lockable, Lock(f) \/ Unlock(f) PROVE PathInv'
  BY <1>1, <1>9 DEF Lock, Unlock, engine, network
<1> QED
  BY <1>2, <1>3, <1>4, <1>5, <1>6, <1>7, <1>8, <1>9 DEF Next

\* In every reachable state the held packets of a connection are what its buffer
\* has of one request, wherever the handler is.
THEOREM FlowKept == Spec => []FlowInv
<1>1. Init => FlowInv
  BY FlowInvInit
<1>2. FlowInv /\ [Next]_vars => FlowInv'
  BY FlowInvNext
<1> QED
  BY <1>1, <1>2, PTL DEF Spec

\* Between two captures the held packets of a connection are its unfinished
\* request, from the first segment on and without a gap (reasm_orig_feed).
THEOREM HeldIsOneRequest == Spec => []HeldIsReassembled
<1>1. FlowInv => HeldIsReassembled
  <2>1. SUFFICES ASSUME FlowInv, pc = "idle", NEW c \in DOMAIN table PROVE Session(c, table[c])
    BY DEF HeldIsReassembled, Session, Buffered, Adjacent, ReasmIsEmpty
  <2> QED
    BY <2>1 DEF FlowInv, PathInv, SessionInv, Apart, PlaceInv, Joined, ListSteps
<1> QED
  BY <1>1, FlowKept, PTL

-----------------------------------------------------------------------------
\* The refinement: each step does what PacketPath allows.
LEMMA SendsFacts ==
  /\ Sends(<<>>) = <<>>
  /\ \A q \in Seq(Out) : Sends(q) \in Seq(Packet)
  /\ \A q \in Seq(Out), x \in Out : Sends(Append(q, x)) = Append(Sends(q), x.p)
  /\ \A q \in Seq(Out), h \in Seq(Packet) : q \o AllOrig(h) \in Seq(Out) /\ Sends(q \o AllOrig(h)) = Sends(q) \o h
<1>1. Sends(<<>>) = <<>>
  BY DEF Sends
<1>2. ASSUME NEW q \in Seq(Out)
      PROVE  Sends(q) \in Seq(Packet) /\ Len(Sends(q)) = Len(q) /\ \A i \in 1..Len(q) : Sends(q)[i] = q[i].p
  <2> DEFINE s == Sends(q)
             n == Len(q)
  <2>1. s = [i \in 1..n |-> q[i].p] /\ n \in Nat
    <3>1. DOMAIN q = 1..n /\ n \in Nat
      OBVIOUS
    <3> HIDE DEF n
    <3> QED
      BY <3>1, Zenon DEF Sends
  <2>2. \A i \in 1..n : q[i].p \in Packet
    <3>1. \A i \in 1..n : q[i] \in Out
      OBVIOUS
    <3>2. \A x \in Out : x.p \in Packet
      BY DEF Out
    <3> QED
      BY <3>1, <3>2
  <2> HIDE DEF s, n
  <2>3. s \in Seq(Packet) /\ Len(s) = n /\ \A i \in 1..n : s[i] = q[i].p
    BY <2>1, <2>2
  <2> QED
    BY <2>3 DEF s, n
<1>3. ASSUME NEW q \in Seq(Out), NEW x \in Out PROVE Sends(Append(q, x)) = Append(Sends(q), x.p)
  <2> DEFINE a == Append(q, x)
             b == Append(Sends(q), x.p)
  <2>1. /\ a \in Seq(Out) /\ Len(a) = Len(q) + 1 /\ a[Len(q) + 1] = x /\ Len(q) \in Nat
        /\ \A i \in 1..Len(q) : a[i] = q[i]
    OBVIOUS
  <2>2. x.p \in Packet
    BY DEF Out
  <2>3. /\ b \in Seq(Packet) /\ Len(b) = Len(q) + 1 /\ b[Len(q) + 1] = x.p
        /\ \A i \in 1..Len(q) : b[i] = Sends(q)[i]
    <3> DEFINE s == Sends(q)
    <3>1. s \in Seq(Packet) /\ Len(s) = Len(q)
      BY <1>2
    <3> HIDE DEF s
    <3>2. Append(s, x.p) \in Seq(Packet) /\ Len(Append(s, x.p)) = Len(s) + 1 /\ Append(s, x.p)[Len(s) + 1] = x.p
          /\ \A i \in 1..Len(s) : Append(s, x.p)[i] = s[i]
      BY <2>2, <3>1
    <3> QED
      BY <3>1, <3>2 DEF s
  <2> HIDE DEF a, b
  <2>4. Sends(a) \in Seq(Packet) /\ Len(Sends(a)) = Len(a) /\ \A i \in 1..Len(a) : Sends(a)[i] = a[i].p
    BY <1>2, <2>1
  <2>5. \A i \in 1..Len(Sends(a)) : Sends(a)[i] = b[i]
    <3>1. \A i \in 1..Len(q) : a[i].p = b[i]
      BY <1>2, <2>1, <2>3
    <3> QED
      BY <2>1, <2>3, <2>4, <3>1
  <2>6. Sends(a) = b
    BY <2>1, <2>3, <2>4, <2>5, SeqEqual
  <2> QED
    BY <2>6 DEF a, b
<1>4. ASSUME NEW q \in Seq(Out), NEW h \in Seq(Packet)
      PROVE  q \o AllOrig(h) \in Seq(Out) /\ Sends(q \o AllOrig(h)) = Sends(q) \o h
  <2> DEFINE g == AllOrig(h)
             a == q \o g
             b == Sends(q) \o h
  <2>1. g \in Seq(Out) /\ Len(g) = Len(h) /\ \A i \in 1..Len(h) : g[i].p = h[i]
    <3>1. g = [i \in 1..Len(h) |-> AsOrig(h[i])] /\ Len(h) \in Nat
      BY DEF AllOrig
    <3>2. \A i \in 1..Len(h) : AsOrig(h[i]) \in Out /\ AsOrig(h[i]).p = h[i]
      BY DEF AsOrig, Out
    <3> HIDE DEF g
    <3> QED
      BY <3>1, <3>2
  <2> HIDE DEF g
  <2>2. /\ a \in Seq(Out) /\ Len(a) = Len(q) + Len(h) /\ Len(q) \in Nat /\ Len(h) \in Nat
        /\ \A i \in 1..Len(q) : a[i] = q[i]
        /\ \A i \in 1..Len(h) : a[Len(q) + i] = g[i]
    <3>1. a \in Seq(Out) /\ Len(a) = Len(q) + Len(g)
      BY <2>1, ConcatProperties
    <3>2. Len(q) \in Nat /\ Len(h) \in Nat /\ q \in Seq(Out)
      OBVIOUS
    <3>3. \A i \in 1..(Len(q) + Len(g)) : a[i] = IF i <= Len(q) THEN q[i] ELSE g[i - Len(q)]
      BY <2>1, ConcatProperties
    <3>4. \A i \in 1..Len(h) : Len(q) + i \in 1..(Len(q) + Len(g)) /\ ~(Len(q) + i <= Len(q)) /\ Len(q) + i - Len(q) = i
      BY <2>1, <3>2
    <3> HIDE DEF a
    <3> QED
      BY <2>1, <3>1, <3>2, <3>3, <3>4
  <2> DEFINE s == Sends(q)
  <2>3. s \in Seq(Packet) /\ Len(s) = Len(q) /\ \A i \in 1..Len(q) : s[i] = q[i].p
    BY <1>2
  <2> HIDE DEF s
  <2>4. /\ s \o h \in Seq(Packet) /\ Len(s \o h) = Len(q) + Len(h)
        /\ \A i \in 1..(Len(s) + Len(h)) : (s \o h)[i] = IF i <= Len(s) THEN s[i] ELSE h[i - Len(s)]
    BY <2>3, ConcatProperties
  <2> DEFINE r == s \o h
             o == Sends(a)
  <2>5. o \in Seq(Packet) /\ Len(o) = Len(a) /\ \A i \in 1..Len(a) : o[i] = a[i].p
    <3> HIDE DEF a
    <3> QED
      BY <1>2, <2>2
  <2>6. r \in Seq(Packet) /\ Len(r) = Len(q) + Len(h)
        /\ \A i \in 1..(Len(s) + Len(h)) : r[i] = IF i <= Len(s) THEN s[i] ELSE h[i - Len(s)]
    BY <2>4
  <2> HIDE DEF a, r, o
  <2>7. ASSUME NEW i \in 1..Len(o) PROVE o[i] = r[i]
    <3>1. i \in 1..(Len(q) + Len(h)) /\ Len(q) \in Nat /\ Len(h) \in Nat /\ i \in 1..Len(a)
      BY <2>2, <2>5
    <3>2. CASE i <= Len(q)
      <4>1. i \in 1..Len(q) /\ i \in 1..(Len(s) + Len(h))
        BY <2>3, <3>1, <3>2
      <4>2. o[i] = q[i].p
        BY <2>2, <2>5, <3>1, <4>1
      <4>3. r[i] = s[i]
        BY <2>3, <2>6, <3>2, <4>1
      <4> QED
        BY <2>3, <4>1, <4>2, <4>3
    <3>3. CASE ~(i <= Len(q))
      <4> DEFINE j == i - Len(q)
      <4>1. j \in 1..Len(h) /\ Len(q) + j = i
        BY <3>1, <3>3
      <4> HIDE DEF j
      <4>2. a[i] = g[j] /\ o[i] = g[j].p
        BY <2>2, <2>5, <3>1, <4>1
      <4>3. r[i] = h[j]
        BY <2>3, <2>6, <3>1, <3>3 DEF j
      <4> QED
        BY <2>1, <4>1, <4>2, <4>3
    <3> QED
      BY <3>2, <3>3
  <2>8. o = r
    BY <2>2, <2>5, <2>6, <2>7, SeqEqual
  <2> QED
    BY <2>2, <2>8 DEF a, o, r, s, g
<1> QED
  BY <1>1, <1>2, <1>3, <1>4

LEMMA Departs ==
  ASSUME AtHand = <<cur>>, AtHand' = <<>>, Sends(out)' = Append(Sends(out) \o Holding[cur.conn], cur),
         Holding' = [Holding EXCEPT ![cur.conn] = <<>>]
  PROVE  Path!Next
<1>1. AtHand[1] = cur /\ AtHand # <<>>
  OBVIOUS
<1>2. Path!Depart
  BY <1>1 DEF Path!Depart
<1> QED
  BY <1>2 DEF Path!Next

LEMMA Overtakes ==
  ASSUME AtHand = <<cur>>, AtHand' = <<>>, cur.len = 0 \/ cur.dir = "reply",
         Sends(out)' = Append(Sends(out), cur), Holding' = Holding
  PROVE  Path!Next
<1>1. AtHand[1] = cur /\ AtHand # <<>>
  OBVIOUS
<1>2. Path!Overtake
  BY <1>1 DEF Path!Overtake
<1> QED
  BY <1>2 DEF Path!Next

LEMMA IsHeld ==
  ASSUME AtHand = <<cur>>, AtHand' = <<>>, Sends(out)' = Sends(out),
         Holding' = [Holding EXCEPT ![cur.conn] = Append(@, cur)]
  PROVE  Path!Next
<1>1. AtHand[1] = cur /\ AtHand # <<>>
  OBVIOUS
<1>2. Path!Hold
  BY <1>1 DEF Path!Hold
<1> QED
  BY <1>2 DEF Path!Next

LEMMA ReleasesOne ==
  ASSUME NEW c \in Conns, NEW p \in Packet, NEW q \in Seq(Packet), Holding[c] = <<p>> \o q,
         AtHand' = AtHand, Sends(out)' = Append(Sends(out), p), Sends(out) \in Seq(Packet),
         Holding' = [Holding EXCEPT ![c] = q]
  PROVE  Path!Next
<1> DEFINE s == <<p>> \o q
<1>1. /\ s \in Seq(Packet) /\ Len(s) = Len(q) + 1 /\ SubSeq(s, 1, 1) = <<p>>
      /\ SubSeq(s, 2, Len(s)) = q
  <2>1. <<p>> \in Seq(Packet) /\ Len(<<p>>) = 1 /\ Len(q) \in Nat
    OBVIOUS
  <2>2. s \in Seq(Packet) /\ Len(s) = Len(q) + 1
    BY <2>1
  <2>3. s[1] = p /\ \A i \in 1..Len(q) : s[i + 1] = q[i]
    BY <2>1
  <2> HIDE DEF s
  <2>4. SubSeq(s, 1, 1) = <<p>>
    <3>1. SubSeq(s, 1, 1) \in Seq(Packet) /\ Len(SubSeq(s, 1, 1)) = 1 /\ SubSeq(s, 1, 1)[1] = s[1]
      BY <2>1, <2>2
    <3>2. \A i \in 1..Len(SubSeq(s, 1, 1)) : SubSeq(s, 1, 1)[i] = <<p>>[i]
      BY <2>3, <3>1
    <3> QED
      BY <2>1, <3>1, <3>2, SeqEqual
  <2>5. /\ SubSeq(s, 2, Len(s)) \in Seq(Packet) /\ Len(SubSeq(s, 2, Len(s))) = Len(q)
        /\ \A i \in 1..Len(q) : SubSeq(s, 2, Len(s))[i] = s[i + 1]
    BY <2>1, <2>2
  <2>6. \A i \in 1..Len(SubSeq(s, 2, Len(s))) : SubSeq(s, 2, Len(s))[i] = q[i]
    BY <2>3, <2>5
  <2>7. SubSeq(s, 2, Len(s)) = q
    BY <2>5, <2>6, SeqEqual
  <2> QED
    BY <2>2, <2>4, <2>7
<1> HIDE DEF s
<1>2. Append(Sends(out), p) = Sends(out) \o <<p>>
  BY AppendIsConcat
<1>3. Path!Release(c, 1)
  <2>1. SubSeq(Holding[c], 1, 1) = <<p>> /\ SubSeq(Holding[c], 1 + 1, Len(Holding[c])) = q
    BY <1>1 DEF s
  <2>2. Sends(out)' = Sends(out) \o SubSeq(Holding[c], 1, 1)
    BY <1>2, <2>1
  <2>3. Holding' = [Holding EXCEPT ![c] = SubSeq(Holding[c], 1 + 1, Len(Holding[c]))]
    BY <2>1
  <2> QED
    BY <2>2, <2>3, Zenon DEF Path!Release
<1>4. 1 \in 1..Len(Holding[c])
  BY <1>1 DEF s
<1> QED
  BY <1>3, <1>4 DEF Path!Next

LEMMA ReleasesAll ==
  ASSUME NEW c \in Conns, Holding[c] \in Seq(Packet), Holding[c] # <<>>,
         AtHand' = AtHand, Sends(out)' = Sends(out) \o Holding[c],
         Holding' = [Holding EXCEPT ![c] = <<>>]
  PROVE  Path!Next
<1> DEFINE s == Holding[c]
<1>1. /\ Len(s) \in 1..Len(s) /\ SubSeq(s, 1, Len(s)) = s /\ SubSeq(s, Len(s) + 1, Len(s)) = <<>>
  <2> HIDE DEF s
  <2>1. s \in Seq(Packet) /\ s # <<>>
    BY DEF s
  <2>2. Len(s) \in Nat \ {0}
    BY <2>1, EmptySeq
  <2> QED
    BY <2>1, <2>2, SubSeqFull, SubSeqEmpty
<1>2. Path!Release(c, Len(s))
  BY <1>1 DEF Path!Release
<1> QED
  BY <1>1, <1>2 DEF Path!Next

\* What the mapping makes of a step on one datagram.

\* What the mapping makes of a step on one packet. The entry may not exist: then
\* nothing is held.
Kept == IF Tracked THEN T.delayed ELSE <<>>
KeptNext == IF Tracked THEN N.delayed ELSE <<>>

LEMMA WorksMapped ==
  ASSUME FlowInv, Works
  PROVE  /\ cur.conn \in Conns /\ cur \in Packet /\ Kept \in Seq(Packet) /\ KeptNext \in Seq(Packet)
         /\ out \in Seq(Out) /\ Sends(out) \in Seq(Packet) /\ cur' = cur
         /\ ~replay => /\ Holding[cur.conn] = Kept /\ Holding' = [Holding EXCEPT ![cur.conn] = KeptNext]
                       /\ AtHand = (IF Answering THEN <<>> ELSE <<cur>>)
                       /\ AtHand' = IF pc' \in {"replay", "done"} \/ Answering' THEN <<>> ELSE <<cur>>
         /\ replay => /\ Holding[cur.conn] = <<cur>> \o Kept /\ AtHand = <<>> /\ AtHand' = <<>>
                      /\ Holding' = IF pc' = "replay" THEN [Holding EXCEPT ![cur.conn] = KeptNext] ELSE Holding
<1> DEFINE c == cur.conn
<1>1. /\ Stays /\ pc \in Steps \ {"idle", "replay", "done"} /\ StepShape /\ EngineTypes /\ PlaceInv
      /\ replay \in BOOLEAN /\ out \in Seq(Out)
  BY StepShaped DEF FlowInv, PathInv, EngineTypes
<1>2. c \in Conns /\ cur \in Packet /\ (Tracked => IsEntry(c, T)) /\ (replay => Tracked)
  BY <1>1 DEF EngineTypes, PlaceInv, Tracked, T
<1>3. Only(table') /\ (Tracked => IsEntry(c, N)) /\ (replay => N.delayed = T.delayed)
  <2>1. Only(table') /\ (Tracked => IsEntry(c, N))
    BY WorksShape
  <2>2. replay => N.delayed = T.delayed
    BY <1>1, <1>2 DEF StepShape, Leaves, Enters, Relists, Reads, Looks, GivesUp, GoesOn, ClosesAndGoesOn, HoldsIt,
                      Quiet, Shut, N, Real, PlaceInv, ListSteps
  <2> QED
    BY <2>1, <2>2
<1>4. Kept \in Seq(Packet) /\ KeptNext \in Seq(Packet)
  <2>1. Segments(c) \subseteq Packet
    BY DEF Segments
  <2>2. \A q \in Seq(Segments(c)) : q \in Seq(Packet)
    BY <2>1, SeqMonotonic
  <2> QED
    BY <1>2, <1>3, <2>2 DEF IsEntry, Kept, KeptNext
<1>5. cur' = cur /\ replay' = replay
  BY <1>1 DEF Stays
<1>6. (~replay => pc' # "idle") /\ (replay => pc' \notin {"idle", "done"})
  <2>1. (Relists => pc' # "idle") /\ (replay => ~Relists)
    BY <1>1 DEF Relists, PlaceInv, ListSteps
  <2> QED
    BY <1>1, <2>1 DEF StepShape, Leaves, Enters, Reads, Looks, GivesUp, ClosesAndGoesOn, HoldsIt, After, Real
<1>7. (Tracked => table'[c] = N) /\ DOMAIN table' = DOMAIN table /\ \A d \in DOMAIN table : d # c => table'[d] = table[d]
  BY <1>3 DEF Only, N
<1>8. ASSUME ~replay
      PROVE  /\ Holding[c] = Kept /\ Holding' = [Holding EXCEPT ![c] = KeptNext]
             /\ AtHand = (IF Answering THEN <<>> ELSE <<cur>>)
             /\ AtHand' = IF pc' \in {"replay", "done"} \/ Answering' THEN <<>> ELSE <<cur>>
  <2>1. AtHand = (IF Answering THEN <<>> ELSE <<cur>>)
    BY <1>1, <1>8 DEF AtHand
  <2>2. AtHand' = IF pc' \in {"replay", "done"} \/ Answering' THEN <<>> ELSE <<cur>>
    BY <1>5, <1>6, <1>8 DEF AtHand
  <2>3. Holding = [d \in Conns |-> IF d \notin DOMAIN table THEN <<>> ELSE table[d].delayed]
    BY <1>8 DEF Holding, InReplay
  <2>4. Holding' = [d \in Conns |-> IF d \notin DOMAIN table' THEN <<>> ELSE table'[d].delayed]
    BY <1>5, <1>8 DEF Holding, InReplay
  <2>5. Holding[c] = Kept
    BY <1>2, <2>3 DEF Kept, T, Tracked
  <2>6. Holding' = [Holding EXCEPT ![c] = KeptNext]
    BY <1>2, <1>7, <2>3, <2>4 DEF KeptNext, Tracked
  <2> QED
    BY <2>1, <2>2, <2>5, <2>6
<1>9. ASSUME replay
      PROVE  /\ Holding[c] = <<cur>> \o Kept /\ AtHand = <<>> /\ AtHand' = <<>>
             /\ Holding' = IF pc' = "replay" THEN [Holding EXCEPT ![c] = KeptNext] ELSE Holding
  <2>1. AtHand = <<>> /\ AtHand' = <<>>
    BY <1>5, <1>9 DEF AtHand
  <2>2. Tracked /\ Kept = table[c].delayed /\ KeptNext = table'[c].delayed
    BY <1>2, <1>9 DEF Kept, KeptNext, T, N
  <2>3. Holding = [d \in Conns |-> IF d \notin DOMAIN table THEN <<>>
                                  ELSE IF d = c THEN <<cur>> \o table[d].delayed ELSE table[d].delayed]
    BY <1>1, <1>9 DEF Holding, InReplay
  <2>4. CASE pc' = "replay"
    <3>1. Holding' = [d \in Conns |-> IF d \notin DOMAIN table' THEN <<>> ELSE table'[d].delayed]
      BY <2>4 DEF Holding, InReplay
    <3> QED
      BY <1>2, <1>7, <2>1, <2>2, <2>3, <2>4, <3>1 DEF Tracked
  <2>5. CASE pc' # "replay"
    <3>1. Holding' = [d \in Conns |-> IF d \notin DOMAIN table' THEN <<>>
                                     ELSE IF d = c THEN <<cur>> \o table'[d].delayed ELSE table'[d].delayed]
      BY <1>5, <1>6, <1>9, <2>5 DEF Holding, InReplay
    <3>2. table'[c].delayed = table[c].delayed
      BY <1>3, <1>7, <1>9, <2>2 DEF T
    <3> QED
      BY <1>2, <1>7, <2>1, <2>2, <2>3, <2>5, <3>1, <3>2 DEF Tracked
  <2> QED
    BY <2>4, <2>5
<1> QED
  BY <1>1, <1>2, <1>4, <1>5, <1>8, <1>9, SendsFacts

LEMMA WorksImplements ==
  ASSUME FlowInv, Works PROVE [Path!Next]_(Path!pathVars)
<1> DEFINE c == cur.conn
           S0 == Sends(out)
<1>1. StepShape /\ PlaceInv /\ replay \in BOOLEAN
  BY StepShaped DEF FlowInv, PathInv, EngineTypes
<1>2. /\ c \in Conns /\ cur \in Packet /\ Kept \in Seq(Packet) /\ KeptNext \in Seq(Packet)
      /\ out \in Seq(Out) /\ S0 \in Seq(Packet) /\ cur' = cur /\ Sends(out)' = Sends(out')
  BY WorksMapped DEF Sends
<1>3. ~replay => /\ Holding[c] = Kept /\ Holding' = [Holding EXCEPT ![c] = KeptNext]
                 /\ AtHand = (IF Answering THEN <<>> ELSE <<cur>>)
                 /\ AtHand' = IF pc' \in {"replay", "done"} \/ Answering' THEN <<>> ELSE <<cur>>
  BY WorksMapped
<1>4. replay => /\ Holding[c] = <<cur>> \o Kept /\ AtHand = <<>> /\ AtHand' = <<>>
                /\ Holding' = IF pc' = "replay" THEN [Holding EXCEPT ![c] = KeptNext] ELSE Holding
  BY WorksMapped
<1>5. \A how \in {"orig", "split"} : [p |-> cur, how |-> how] \in Out
  BY <1>2 DEF Out
<1>6. ASSUME NEW q \in Seq(Out), NEW how \in {"orig", "split"}
      PROVE  Sends(Append(q, [p |-> cur, how |-> how])) = Append(Sends(q), cur)
  BY <1>5, SendsFacts
<1>7. Holding = [Holding EXCEPT ![c] = Holding[c]]
  BY DEF Holding
<1>8. Quiet(table') => KeptNext = Kept
  BY DEF Quiet, Kept, KeptNext, N
<1>9. ~replay => Held = Kept
  BY DEF Held, Kept
<1>10. ASSUME Holding' = Holding, AtHand' = AtHand, out' = out PROVE UNCHANGED Path!pathVars
  BY <1>2, <1>10 DEF Path!pathVars
<1>11. ASSUME out' = out \o AllOrig(Kept), KeptNext = <<>>, ~replay, AtHand' = AtHand PROVE [Path!Next]_(Path!pathVars)
  <2>1. Sends(out)' = S0 \o Kept
    BY <1>2, <1>11, SendsFacts
  <2>2. Holding[c] = Kept /\ Holding' = [Holding EXCEPT ![c] = <<>>]
    BY <1>3, <1>11
  <2>3. CASE Kept = <<>>
    <3>1. Sends(out)' = S0
      BY <1>2, <2>1, <2>3, ConcatEmptySeq
    <3>2. Holding' = Holding
      BY <1>7, <2>2, <2>3
    <3> QED
      BY <1>11, <3>1, <3>2 DEF Path!pathVars
  <2>4. CASE Kept # <<>>
    BY <1>2, <1>11, <2>1, <2>2, <2>4, ReleasesAll
  <2> QED
    BY <2>3, <2>4
<1>12. CASE Leaves
  <2>1. /\ ~replay /\ ~Answering /\ (pc' = "done" \/ Answering') /\ Quiet(table')
        /\ out' = Append(out, [p |-> cur, how |-> "orig"])
        /\ Kept = <<>> \/ cur.dir = "reply" \/ cur.len = 0
    BY <1>12 DEF Leaves, SendsAsIs, AsOrig, Answering, Kept
  <2>2. Sends(out)' = Append(S0, cur) /\ Holding' = Holding /\ Holding[c] = Kept /\ AtHand = <<cur>> /\ AtHand' = <<>>
    BY <1>2, <1>3, <1>6, <1>7, <1>8, <2>1
  <2>3. CASE Kept = <<>>
    <3>1. S0 \o Holding[c] = S0 /\ Holding' = [Holding EXCEPT ![c] = <<>>]
      BY <1>2, <1>7, <2>2, <2>3, ConcatEmptySeq
    <3> QED
      BY <2>2, <3>1, Departs
  <2>4. CASE Kept # <<>>
    BY <2>1, <2>2, <2>4, Overtakes
  <2> QED
    BY <2>3, <2>4
<1>13. CASE Enters
  <2>1. /\ ~replay /\ ~Answering /\ ~Answering' /\ pc' \notin {"replay", "done"} /\ Quiet(table') /\ out' = out
    BY <1>13 DEF Enters, GoesOn, Answering
  <2> QED
    BY <1>3, <1>7, <1>8, <1>10, <2>1
<1>14. CASE Relists
  <2>1. /\ ~replay /\ table' = table /\ out' = out /\ KeptNext = Kept
    BY <1>1, <1>14 DEF Relists, PlaceInv, ListSteps, Kept, KeptNext, T, N
  <2>2. Answering <=> Answering' \/ pc' = "done"
    BY <1>1, <1>14 DEF Relists, PlaceInv, ListSteps, Answering
  <2>3. pc' # "replay"
    BY <1>1, <1>14 DEF Relists, PlaceInv, ListSteps
  <2> QED
    BY <1>3, <1>7, <1>10, <2>1, <2>2, <2>3
<1>15. CASE Reads
  <2>1. ~replay /\ ~Answering /\ ~Answering' /\ pc' \notin {"replay", "done"}
    BY <1>15 DEF Reads, Answering
  <2>2. AtHand' = AtHand
    BY <1>3, <2>1
  <2>3. CASE JoinsIt \/ GoesOn
    <3>1. KeptNext = Kept /\ out' = out
      BY <1>8, <2>3 DEF JoinsIt, GoesOn, Kept, KeptNext
    <3> QED
      BY <1>3, <1>7, <1>10, <2>1, <2>2, <3>1
  <2>4. CASE ClosesAndGoesOn
    <3>1. KeptNext = <<>> /\ out' = out \o AllOrig(Kept)
      BY <1>9, <2>1, <2>4 DEF ClosesAndGoesOn, Shut, KeptNext, N
    <3> QED
      BY <1>11, <2>1, <2>2, <3>1
  <2> QED
    BY <1>15, <2>3, <2>4 DEF Reads
<1>16. CASE Looks
  <2>1. /\ ~Answering /\ ~Answering' /\ pc' \notin {"replay", "done"} /\ Quiet(table') /\ out' = out
    BY <1>16 DEF Looks, GoesOn, Answering
  <2>2. Holding' = Holding /\ AtHand' = AtHand
    BY <1>1, <1>3, <1>4, <1>7, <1>8, <2>1
  <2> QED
    BY <1>10, <2>1, <2>2
<1>17. CASE GivesUp /\ pc \in {"gate", "classify", "discover", "check", "act"}
  <2>1. PICK how \in {"orig", "split"} : out' = Append(out \o AllOrig(Held), [p |-> cur, how |-> how])
    BY <1>17 DEF GivesUp
  <2>2. CASE replay
    <3>1. out \o AllOrig(Held) = out
      <4>1. AllOrig(Held) = <<>>
        BY <2>2 DEF AllOrig, Held
      <4> QED
        BY <1>2, <4>1, ConcatEmptySeq
    <3>2. Sends(out)' = Append(S0, cur) /\ KeptNext = Kept /\ pc' = "replay"
      BY <1>2, <1>6, <1>17, <2>1, <2>2, <3>1 DEF GivesUp, Shut, N, After, Kept, KeptNext
    <3> QED
      BY <1>2, <1>4, <2>2, <3>2, ReleasesOne
  <2>3. CASE ~replay
    <3>1. out \o AllOrig(Kept) \in Seq(Out) /\ Sends(out \o AllOrig(Kept)) = S0 \o Kept
      BY <1>2, SendsFacts
    <3>2. KeptNext = <<>> /\ pc' = "done" /\ ~Answering
      BY <1>17, <2>3 DEF GivesUp, Shut, N, After, KeptNext, Answering
    <3>3. Sends(out)' = Append(S0 \o Kept, cur)
      BY <1>2, <1>6, <1>9, <2>1, <2>3, <3>1
    <3> QED
      BY <1>3, <2>3, <3>2, <3>3, Departs
  <2> QED
    BY <1>1, <2>2, <2>3
<1>18. CASE ClosesAndGoesOn /\ pc = "classify" /\ pc' = "discover"
  <2>1. ~Answering /\ ~Answering'
    BY <1>18 DEF Answering
  <2>2. CASE replay
    <3>1. out \o AllOrig(Held) = out
      <4>1. AllOrig(Held) = <<>>
        BY <2>2 DEF AllOrig, Held
      <4> QED
        BY <1>2, <4>1, ConcatEmptySeq
    <3>2. out' = out /\ Holding' = Holding /\ AtHand' = AtHand
      BY <1>4, <1>18, <2>2, <3>1 DEF ClosesAndGoesOn
    <3> QED
      BY <1>10, <3>2
  <2>3. CASE ~replay
    <3>1. KeptNext = <<>> /\ out' = out \o AllOrig(Kept) /\ AtHand' = AtHand
      BY <1>3, <1>9, <1>18, <2>1, <2>3 DEF ClosesAndGoesOn, Shut, KeptNext, N
    <3> QED
      BY <1>11, <2>3, <3>1
  <2> QED
    BY <1>1, <2>2, <2>3
<1>19. CASE HoldsIt /\ pc = "classify"
  <2>1. ~replay /\ ~Answering /\ out' = out /\ KeptNext = Append(Kept, cur) /\ pc' \in {"replay", "done"}
    BY <1>19 DEF HoldsIt, Real, Answering, Kept, KeptNext
  <2> QED
    BY <1>2, <1>3, <2>1, IsHeld
<1> QED
  BY <1>1, <1>12, <1>13, <1>14, <1>15, <1>16, <1>17, <1>18, <1>19 DEF StepShape

LEMMA CaptureImplements ==
  ASSUME FlowInv, NEW p, p \in Packet, p.conn \in Conns, Capture(p) PROVE Path!Next
<1> DEFINE P == Purged(table, lastPurge, now)
           f == Fed(P, p, now)
<1>1. EngineTypes /\ PlaceInv
  BY DEF FlowInv, PathInv
<1>2. pc = "idle" /\ cur' = p /\ replay' = FALSE /\ out' = <<>> /\ table' = f /\ pc' = "find"
  BY DEF Capture
<1>3. /\ DOMAIN P \subseteq DOMAIN table /\ DOMAIN P \subseteq DOMAIN f
      /\ \A c \in DOMAIN P : Keeps(table[c], f[c]) \/ Blank(f[c])
      /\ \A c \in DOMAIN f \ DOMAIN P : Blank(f[c])
  BY <1>1, FedFacts
<1> HIDE DEF P, f
<1> DEFINE forgotten == {c \in Conns : c \notin DOMAIN f \/ f[c].delayed = <<>>}
<1>4. Holding = [d \in Conns |-> IF d \notin DOMAIN table THEN <<>> ELSE table[d].delayed]
  BY <1>2 DEF Holding, InReplay
<1>5. Holding' = [d \in Conns |-> IF d \notin DOMAIN f THEN <<>> ELSE f[d].delayed]
  BY <1>2 DEF Holding, InReplay
<1>6. Holding' = [d \in Conns |-> IF d \in forgotten THEN <<>> ELSE Holding[d]]
  <2>1. ASSUME NEW d \in Conns
        PROVE  (IF d \notin DOMAIN f THEN <<>> ELSE f[d].delayed) = IF d \in forgotten THEN <<>> ELSE Holding[d]
    <3>1. CASE d \in forgotten
      BY <3>1
    <3>2. CASE d \notin forgotten
      <4>1. d \in DOMAIN f /\ f[d].delayed # <<>>
        BY <3>2
      <4>2. d \in DOMAIN table /\ f[d].delayed = table[d].delayed
        BY <1>3, <4>1 DEF Keeps, Blank
      <4> QED
        BY <1>4, <3>2, <4>1, <4>2
    <3> QED
      BY <3>1, <3>2
  <2> QED
    BY <1>5, <2>1
<1>7. AtHand = <<>> /\ AtHand' = <<p>>
  BY <1>2 DEF AtHand, Answering
<1>8. Sends(out)' = <<>>
  BY <1>2, SendsFacts DEF Sends
<1>9. Len(AtHand') = 1 /\ AtHand'[1] \in Packet
  BY <1>7
<1>10. Path!Arrive(forgotten)
  <2> HIDE DEF forgotten
  <2> QED
    BY <1>6, <1>7, <1>8, <1>9 DEF Path!Arrive
<1> QED
  BY <1>10 DEF Path!Next

LEMMA NextHeldImplements ==
  ASSUME FlowInv, NextHeld PROVE [Path!Next]_(Path!pathVars)
<1> DEFINE c == cur.conn
           p == Head(T.delayed)
           q == Tail(T.delayed)
<1>1. EngineTypes /\ PlaceInv
  BY DEF FlowInv, PathInv
<1>2. /\ pc = "replay" /\ T.delayed # <<>> /\ cur' = p /\ replay' = TRUE
      /\ table' = [table EXCEPT ![c].delayed = Tail(@)]
      /\ \/ out' = Append(out, AsOrig(p)) /\ pc' = "replay"
         \/ pc' = "classify" /\ out' = out
  BY DEF NextHeld
<1>3. /\ c \in DOMAIN table /\ c \in Conns /\ T.delayed \in Seq(Segments(c)) /\ out \in Seq(Out)
      /\ "delayed" \in DOMAIN table[c]
  <2>1. c \in DOMAIN table /\ c \in Conns /\ out \in Seq(Out)
    BY <1>1, <1>2 DEF EngineTypes, PlaceInv, Tracked
  <2>2. Fields \subseteq DOMAIN table[c] /\ table[c].delayed \in Seq(Segments(c))
    BY <1>1, <2>1 DEF EngineTypes, IsEntry
  <2>3. "delayed" \in Fields
    BY DEF Fields
  <2> QED
    BY <2>1, <2>2, <2>3 DEF T
<1>4. p \in Packet /\ p.conn = c /\ q \in Seq(Packet) /\ T.delayed = <<p>> \o q
  <2>1. Segments(c) \subseteq Packet
    BY DEF Segments
  <2>2. T.delayed \in Seq(Packet)
    BY <1>3, <2>1, SeqMonotonic
  <2>3. p \in Segments(c)
    BY <1>2, <1>3
  <2> QED
    BY <1>2, <2>2, <2>3, HeadTailProperties, HeadTailFacts DEF Segments
<1>5. DOMAIN table' = DOMAIN table /\ table'[c].delayed = q /\ \A d \in DOMAIN table : d # c => table'[d] = table[d]
  BY <1>2, <1>3 DEF T
<1> HIDE DEF p, q
<1>6. Holding = [d \in Conns |-> IF d \notin DOMAIN table THEN <<>> ELSE table[d].delayed]
  BY <1>2 DEF Holding, InReplay
<1>7. Holding[c] = <<p>> \o q
  BY <1>3, <1>4, <1>6 DEF T
<1>8. AtHand = <<>> /\ AtHand' = <<>>
  BY <1>2 DEF AtHand
<1>9. Sends(out) \in Seq(Packet) /\ Sends(out)' = Sends(out')
  BY <1>3, SendsFacts DEF Sends
<1>10. CASE out' = Append(out, AsOrig(p)) /\ pc' = "replay"
  <2>1. Holding' = [d \in Conns |-> IF d \notin DOMAIN table' THEN <<>> ELSE table'[d].delayed]
    BY <1>10 DEF Holding, InReplay
  <2>2. Holding' = [Holding EXCEPT ![c] = q]
    BY <1>3, <1>5, <1>6, <2>1
  <2>3. AsOrig(p) \in Out /\ AsOrig(p).p = p
    BY <1>4 DEF AsOrig, Out
  <2>4. Sends(out)' = Append(Sends(out), p)
    BY <1>3, <1>9, <1>10, <2>3, SendsFacts
  <2> QED
    BY <1>3, <1>4, <1>7, <1>8, <1>9, <2>2, <2>4, ReleasesOne
<1>11. CASE pc' = "classify" /\ out' = out
  <2>1. Holding' = [d \in Conns |-> IF d \notin DOMAIN table' THEN <<>>
                                   ELSE IF d = c THEN <<p>> \o table'[d].delayed ELSE table'[d].delayed]
    BY <1>2, <1>4, <1>11 DEF Holding, InReplay
  <2>2. Holding' = Holding
    BY <1>3, <1>4, <1>5, <1>6, <2>1 DEF T
  <2> QED
    BY <1>8, <1>9, <1>11, <2>2 DEF Path!pathVars
<1> QED
  BY <1>2, <1>10, <1>11

LEMMA ReplayOverImplements ==
  ASSUME FlowInv, ReplayOver PROVE UNCHANGED Path!pathVars
<1> DEFINE c == cur.conn
           u == Cancelled(T)
<1>1. /\ pc = "replay" /\ T.delayed = <<>> /\ cur' = cur /\ replay' = FALSE /\ pc' = "done" /\ out' = out
      /\ table' = [table EXCEPT ![c] = u]
  BY DEF ReplayOver, T
<1>2. c \in DOMAIN table /\ IsEntry(c, T)
  BY <1>1 DEF FlowInv, PathInv, EngineTypes, PlaceInv, Tracked, T
<1>3. u.delayed = <<>>
  BY <1>2, CancelledEntry
<1> HIDE DEF u
<1>4. DOMAIN table' = DOMAIN table /\ \A d \in DOMAIN table : table'[d].delayed = table[d].delayed
  BY <1>1, <1>2, <1>3 DEF T
<1>5. Holding' = Holding
  BY <1>1, <1>4 DEF Holding, InReplay
<1>6. AtHand' = AtHand /\ Sends(out)' = Sends(out)
  BY <1>1 DEF AtHand, Sends
<1> QED
  BY <1>5, <1>6 DEF Path!pathVars

LEMMA FinishImplements ==
  ASSUME Finish PROVE Path!Next
<1>1. pc = "done" /\ pc' = "idle" /\ out' = <<>> /\ table' = table /\ replay' = replay
  BY DEF Finish
<1>2. Holding' = Holding
  BY <1>1 DEF Holding, InReplay
<1>3. AtHand = <<>> /\ AtHand' = <<>>
  BY <1>1 DEF AtHand
<1>4. Sends(out)' = <<>>
  BY <1>1, SendsFacts DEF Sends
<1> QED
  BY <1>2, <1>3, <1>4 DEF Path!Next, Path!Flush

\* Every step of the engine does what PacketPath allows: each captured packet
\* leaves once or is held, and the held ones leave in order and before later
\* payload of their connection.
THEOREM PacketsAreKept == Spec => KeepsPackets
<1>1. Init => Path!Init
  <2>1. ASSUME Init PROVE Path!Init
    <3>1. DOMAIN table = {} /\ pc = "idle" /\ out = <<>>
      BY <2>1 DEF Init, InitEngine
    <3>2. Holding = [c \in Conns |-> <<>>]
      BY <3>1 DEF Holding
    <3> QED
      BY <3>1, <3>2, SendsFacts DEF Path!Init, AtHand
  <2> QED
    BY <2>1
<1>2. FlowInv /\ FlowInv' /\ [Next]_vars => [Path!Next]_(Path!pathVars)
  <2> SUFFICES ASSUME FlowInv, FlowInv', [Next]_vars PROVE [Path!Next]_(Path!pathVars)
    OBVIOUS
  <2>1. ASSUME NEW p, Capture(p) PROVE Path!Next
    <3>1. cur' = p /\ pc' = "find"
      BY <2>1 DEF Capture
    <3>2. p \in Packet /\ p.conn \in Conns
      BY <3>1 DEF FlowInv, PathInv, EngineTypes
    <3> QED
      BY <2>1, <3>2, CaptureImplements
  <2>2. ASSUME UNCHANGED <<table, pc, cur, replay, back, out>> PROVE UNCHANGED Path!pathVars
    BY <2>2 DEF Path!pathVars, Holding, InReplay, AtHand, Answering, Sends
  <2>3. CASE \E c \in Conns : Syn(c) \/ SendNew(c) \/ Retransmit(c) \/ PureAck(c) \/ Abort(c)
                              \/ SynAck(c) \/ Ack(c) \/ Data(c)
    BY <2>1, <2>3 DEF Syn, SendNew, Retransmit, PureAck, Abort, SynAck, Ack, Data
  <2>4. CASE \E c \in Conns, kind \in Blocks : Block(c, kind)
    BY <2>1, <2>4 DEF Block
  <2>5. CASE Engine
    <3>1. Works \/ NextHeld \/ ReplayOver
      BY <2>5 DEF Engine, Quietly, Works
    <3> QED
      BY <3>1, WorksImplements, NextHeldImplements, ReplayOverImplements
  <2>6. CASE Transmit \/ Lose
    BY <2>6, FinishImplements DEF Transmit, Lose
  <2>7. CASE Tick
    BY <2>2, <2>7 DEF Tick, engine
  <2>8. CASE \E f \in DOMAIN Contents : \E content \in Contents[f] : Write(f, content)
    BY <2>2, <2>8 DEF Write, engine
  <2>9. CASE \E f \in Lockable : Lock(f) \/ Unlock(f)
    BY <2>2, <2>9 DEF Lock, Unlock, engine
  <2>10. CASE UNCHANGED vars
    BY <2>2, <2>10 DEF vars, engine
  <2> QED
    BY <2>3, <2>4, <2>5, <2>6, <2>7, <2>8, <2>9, <2>10 DEF Next
<1> QED
  BY FlowKept, <1>1, <1>2, PTL DEF Spec, KeepsPackets, Path!Spec
-----------------------------------------------------------------------------
\* The lists in memory and their files. Some results need that the lists are left
\* alone in one way or another: that no list of hosts becomes unreadable (Legible),
\* and that the lists the engine fills are not edited by anybody else (Alone).
Legible == \A i \in DOMAIN Profiles : (NamesIn(Profiles[i].incl) \cup NamesIn(Profiles[i].excl)) \cap Lockable = {}
Alone == AutoLists \cap (Lockable \cup DOMAIN Contents) = {}

ReadInv == \A f \in Files \ Lockable : disk[f].readable = TRUE
LearnInv ==
  Legible /\ pc = "append" => ~InCollection(mem, DP.incl, back.host) /\ ~Excluded(mem, DP.excl, back.host)

\* What a step of the engine does to the lists and their files.
LEMMA WorkOnLists ==
  ASSUME Works
  PROVE  \/ mem' = mem /\ ~AppendHost
         \/ ~AppendHost /\ \E t, h, l7 : mem' = DpFind(mem, disk, t, h, l7).mem
         \/ ~AppendHost /\ mem' = Recheck(mem, disk, DP)
         \/ AppendHost
         \/ SignList /\ ~AppendHost
<1>1. CASE FindProfile
  BY <1>1 DEF FindProfile, UseCached, Search, Searched, AppendHost
<1>2. CASE Discover
  BY <1>2 DEF Discover, Rediscover, RediscoverAs, NothingNew, AppendHost
<1>3. CASE RecheckFailed \/ CheckHost
  BY <1>3 DEF RecheckFailed, CheckHost, AppendHost
<1>4. CASE SignList
  BY <1>4 DEF SignList, AppendHost
<1>5. CASE Limits \/ Inbound \/ Gate \/ Payload \/ Classify \/ Act
  BY <1>5 DEF Limits, Inbound, Gate, Payload, Classify, Act, AppendHost
<1> QED
  BY <1>1, <1>2, <1>3, <1>4, <1>5 DEF Works

LEMMA ReadInit == Init => ReadInv
  BY DEF Init, InitLists, ReadInv, MakeAutolistsNonEmpty

LEMMA ReadNext == ASSUME FlowInv, ReadInv, [Next]_vars PROVE ReadInv'
<1>1. FileTypes
  BY DEF FlowInv, ListInv, ListTypes
<1>2. CASE disk' = disk
  BY <1>2 DEF ReadInv
<1>3. CASE AppendHost
  <2>1. PICK a : a = DP.auto
    OBVIOUS
  <2>2. disk' = disk \/ disk' = Appended(a)
    BY <1>3, <2>1 DEF AppendHost
  <2>3. \A f \in Files : disk'[f].readable = disk[f].readable
    BY <1>1, <2>2 DEF Appended, FileTypes
  <2> QED
    BY <2>3 DEF ReadInv
<1>4. CASE \E f \in DOMAIN Contents : \E content \in Contents[f] : Write(f, content)
  <2>1. \A f \in Files : disk'[f].readable = disk[f].readable
    BY <1>1, <1>4 DEF Write, FileTypes
  <2> QED
    BY <2>1 DEF ReadInv
<1>5. CASE \E f \in Lockable : Lock(f) \/ Unlock(f)
  <2>1. PICK f \in Lockable : Lock(f) \/ Unlock(f)
    BY <1>5
  <2>2. \A g \in Files : g # f => disk'[g] = disk[g]
    BY <1>1, <2>1 DEF Lock, Unlock, FileTypes
  <2> QED
    BY <2>1, <2>2 DEF ReadInv
<1> QED
  BY <1>2, <1>3, <1>4, <1>5, NextKinds DEF Rests, Edited, Captures, Worked, Replays, Finishes

LEMMA LearnNext == ASSUME FlowInv, ReadInv, LearnInv, [Next]_vars PROVE LearnInv'
<1>1. FileTypes /\ DpTypes /\ PlaceInv
  BY DEF FlowInv, PathInv, ListInv, ListTypes
<1> SUFFICES ASSUME Legible, pc' = "append"
             PROVE  (~InCollection(mem, DP.incl, back.host) /\ ~Excluded(mem, DP.excl, back.host))'
  BY DEF LearnInv, Legible, NamesIn
<1>2. CASE RecheckFailed
  <2>1. pc = "recheck" /\ back' = back /\ dp' = dp /\ mem' = Recheck(mem, disk, DP)
        /\ ToBeAdded(mem, disk, DP, back.host)
    BY <1>1, <1>2 DEF RecheckFailed, PlaceInv, ListSteps
  <2>2. dp \in DOMAIN Profiles
    BY <1>1, <2>1, ProfileCount DEF DpTypes
  <2>3. /\ \A f \in NamesIn(DP.incl) : disk[f].readable
        /\ \A f \in NamesIn(DP.excl) : disk[f].readable
    BY <2>2, ListsRegistered DEF Legible, ReadInv, DP
  <2>4. HostlistsReloadOk(mem, disk, DP.incl, DP.excl)
    BY <2>3 DEF HostlistsReloadOk, ReloadOk, Failing, LoadOk, NamesIn
  <2>5. Unknown(mem', DP, back.host)
    BY <2>1, <2>4 DEF ToBeAdded
  <2>6. ~Excluded(mem', DP.excl, back.host) /\ ~InCollection(mem', DP.incl, back.host)
    BY <2>5 DEF Unknown, HostlistCheck
  <2> QED
    BY <2>1, <2>6 DEF DP, InCollection, Excluded
<1>3. CASE ~RecheckFailed
  <2>1. UNCHANGED <<pc, mem, dp, back>>
    <3>1. CASE Rests \/ Edited
      BY <3>1 DEF Rests, Edited
    <3>2. CASE Captures \/ Finishes \/ Replays
      BY <3>2 DEF Captures, Finishes, Replays, Capture, Finish, NextHeld, ReplayOver
    <3>3. CASE Worked
      BY <1>1, <1>3, <3>3 DEF Worked, Works, FindProfile, Limits, Inbound, AppendHost, SignList, Gate, Payload, Classify,
         Discover, CheckHost, Act, SendOrig, CancelAndSendOrig, After, Answered, Unremarkable, CountFail, PlaceInv,
         ListSteps, ClassifyHttp, ClassifyTls, HoldHello, HelloTooLarge, HelloAtHand, ClassifyOther,
         Rediscover, RediscoverAs, NothingNew
    <3> QED
      BY <3>1, <3>2, <3>3, NextKinds
  <2> QED
    BY <1>3, <2>1 DEF LearnInv, DP, InCollection, Excluded
<1> QED
  BY <1>2, <1>3

\* A host joins an automatic list only when no list of the profile has it, as long
\* as these lists can be read (auto_hostlist_failed: a list that cannot be read
\* again lets the host pass for unknown).
THEOREM OnlyNewLearned == ASSUME Legible PROVE Spec => LearnedIsNew
<1>1. Init => ReadInv /\ LearnInv
  BY ReadInit DEF Init, InitEngine, LearnInv
<1>2. FlowInv /\ ReadInv /\ LearnInv /\ [Next]_vars => ReadInv' /\ LearnInv'
  BY ReadNext, LearnNext
<1>3. LearnInv /\ [Next]_vars => [AppendHost => ~InCollection(mem, DP.incl, back.host) /\ ~ExcludesHost(DP, back.host)]_vars
  BY DEF LearnInv, AppendHost, ExcludesHost
<1> QED
  BY FlowKept, <1>1, <1>2, <1>3, PTL DEF Spec, LearnedIsNew

LEMMA HonestInit == Init => (Alone => Honest(mem, disk))
<1> SUFFICES ASSUME Init, Alone PROVE Honest(mem, disk)
  OBVIOUS
<1> DEFINE m == [f \in Files |-> FirstList(f)]
<1>1. disk = [f \in Files |-> FirstFile(f)] /\ mem = MakeAutolistsNonEmpty(m, AutoLists)
  BY DEF Init, InitLists, FirstFile, FirstList
<1>2. ASSUME NEW f \in Files PROVE Sound(f, FirstFile(f)) /\ Truthful(f, FirstList(f), FirstFile(f))
  <2>1. Impossible \notin DOMAIN Initial[f]
    BY FlowAssumption
  <2>2. {k \in DOMAIN Initial[f] : k # Impossible} = DOMAIN Initial[f]
    BY <2>1
  <2>3. Agrees(FirstList(f), FirstFile(f))
    BY <2>2 DEF Agrees, FirstList, FirstFile
  <2>4. f \notin Inline => FirstList(f).sig[1] = 0 /\ FirstFile(f).mtime = 0
    BY DEF FirstList, FirstFile, Stat
  <2>5. FirstList(f) = [sig |-> FirstList(f).sig, pool |-> FirstList(f).pool]
    BY DEF FirstList
  <2>6. Sound(f, FirstFile(f))
    BY <2>1 DEF Sound, FirstFile
  <2> QED
    BY <2>3, <2>4, <2>5, <2>6 DEF Truthful
<1>3. Honest(m, disk)
  BY <1>1, <1>2 DEF Honest
<1> HIDE DEF m
<1> QED
  BY <1>1, <1>3, HonestAutolists

\* Another program's edit: the list has an older signature from then on.
LEMMA HonestEdited ==
  ASSUME FlowInv, Alone, Honest(mem, disk), Edited PROVE Honest(mem', disk')
<1>1. FileTypes /\ mem' = mem
  BY DEF FlowInv, ListInv, ListTypes, Edited
<1>2. ASSUME NEW f \in DOMAIN Contents, NEW content \in Contents[f], Write(f, content)
      PROVE  \A g \in Files : Sound(g, disk'[g]) /\ Truthful(g, mem[g], disk'[g])
  <2>1. SUFFICES ASSUME NEW g \in Files PROVE Sound(g, disk'[g]) /\ Truthful(g, mem[g], disk'[g])
    OBVIOUS
  <2>2. Sound(g, disk[g]) /\ Truthful(g, mem[g], disk[g])
    BY DEF Honest
  <2>3. CASE g # f
    <3>1. disk'[g] = disk[g]
      BY <1>1, <1>2, <2>3 DEF Write, FileTypes
    <3> QED
      BY <2>2, <3>1
  <2>4. CASE g = f
    <3> DEFINE file == disk[g]
               new == disk'[g]
    <3>1. /\ new.content = content /\ new.mtime = now /\ new.there = file.there
          /\ file.mtime < now /\ g \notin Inline
      BY <1>1, <1>2, <2>4 DEF Write, FileTypes
    <3>2. Impossible \notin DOMAIN content /\ g \notin AutoLists
      BY <2>4, FlowAssumption DEF Alone
    <3>3. file.mtime \in Nat /\ now \in Nat /\ file.there = TRUE
      BY <1>1, <2>2 DEF Sound, FileTypes
    <3>4. mem[g].sig[1] \in 0..file.mtime
      BY <2>2, <3>1, <3>2 DEF Truthful
    <3> HIDE DEF file, new
    <3>5. mem[g].sig[1] \in 0..now /\ mem[g].sig[1] # now
      BY <3>1, <3>3, <3>4
    <3>6. mem[g].sig # Stat(new)
      BY <3>1, <3>5 DEF Stat
    <3>7. Sound(g, new)
      BY <3>1, <3>2, <3>3 DEF Sound
    <3>8. Truthful(g, mem[g], new)
      BY <2>2, <3>1, <3>2, <3>5, <3>6 DEF Truthful
    <3> QED
      BY <3>7, <3>8 DEF new
  <2> QED
    BY <2>3, <2>4
<1>3. ASSUME NEW f \in Lockable, Lock(f) \/ Unlock(f)
      PROVE  \A g \in Files : Sound(g, disk'[g]) /\ Truthful(g, mem[g], disk'[g])
  <2>1. SUFFICES ASSUME NEW g \in Files PROVE Sound(g, disk'[g]) /\ Truthful(g, mem[g], disk'[g])
    OBVIOUS
  <2>2. Sound(g, disk[g]) /\ Truthful(g, mem[g], disk[g])
    BY DEF Honest
  <2>3. CASE g # f
    <3>1. disk'[g] = disk[g]
      BY <1>1, <1>3, <2>3 DEF Lock, Unlock, FileTypes
    <3> QED
      BY <2>2, <3>1
  <2>4. CASE g = f
    <3> DEFINE file == disk[g]
               new == disk'[g]
    <3>1. new.content = file.content /\ new.mtime = file.mtime /\ new.there = file.there
      BY <1>1, <1>3, <2>4 DEF Lock, Unlock, FileTypes
    <3>2. g \notin AutoLists
      BY <2>4 DEF Alone
    <3> HIDE DEF new
    <3>3. Stat(new) = Stat(file) /\ (Agrees(mem[g], new) <=> Agrees(mem[g], file))
      BY <3>1 DEF Stat, Agrees
    <3>4. Sound(g, new) /\ Truthful(g, mem[g], new)
      BY <2>2, <3>1, <3>2, <3>3 DEF Sound, Truthful
    <3> QED
      BY <3>4 DEF new
  <2> QED
    BY <2>3, <2>4
<1>4. DOMAIN mem' = Files /\ \A g \in Files : Sound(g, disk'[g]) /\ Truthful(g, mem[g], disk'[g])
  BY <1>1, <1>2, <1>3 DEF Edited, Honest
<1> QED
  BY <1>1, <1>4 DEF Honest

\* The engine adds a host to memory and file alike, and signs what it has written.
LEMMA HonestAppended ==
  ASSUME FlowInv, Honest(mem, disk), AppendHost PROVE Honest(mem', disk')
<1>1. FileTypes /\ back.host # Impossible
  BY ProfilesAssumption DEF FlowInv, ListInv, ListTypes, NameTypes, IsHost, NoHost, Impossible
<1>a. PICK a : a = DP.auto
  OBVIOUS
<1>2. a \in Files => a \in AutoLists
  <2>1. dp \in DOMAIN Profiles
    BY ProfileCount DEF FlowInv, ListInv, ListTypes, DpTypes, AppendHost
  <2> QED
    BY <1>a, <2>1, ProfilesAssumption DEF DP, AutoLists
<1>3. /\ mem' = [mem EXCEPT ![a].pool = PoolAdd(@, back.host, FALSE)]
      /\ \/ disk[a].readable /\ disk' = Appended(a)
         \/ ~disk[a].readable /\ disk' = disk
  BY <1>a DEF AppendHost
<1>4. DOMAIN mem = Files /\ DOMAIN disk = Files
  BY <1>1 DEF FileTypes, Honest
<1>5. ASSUME NEW g \in Files PROVE Sound(g, disk'[g]) /\ Truthful(g, mem'[g], disk'[g])
  <2>2. Sound(g, disk[g]) /\ Truthful(g, mem[g], disk[g])
    BY DEF Honest
  <2>3. CASE g # a
    <3>1. disk'[g] = disk[g] /\ mem'[g] = mem[g]
      BY <1>3, <1>4, <2>3 DEF Appended
    <3> QED
      BY <2>2, <3>1
  <2>4. CASE g = a
    <3>1. g \in AutoLists /\ disk' = Appended(a)
      BY <1>2, <1>3, <2>2, <2>4 DEF Sound
    <3> DEFINE new == disk'[g]
               e == mem[g]
               p == PoolAdd(e.pool, back.host, FALSE)
               u == [e EXCEPT !.pool = p]
    <3>2. /\ new.content = PoolAdd(disk[g].content, back.host, FALSE) /\ new.mtime = now
          /\ new.there = TRUE /\ new.readable = disk[g].readable
      BY <1>1, <1>4, <2>4, <3>1 DEF Appended, FileTypes
    <3>3. mem'[g] = u
      BY <1>3, <1>4, <2>4
    <3>4. DOMAIN p = DOMAIN e.pool \cup {back.host} /\ DOMAIN new.content = DOMAIN disk[g].content \cup {back.host}
      BY <3>2 DEF PoolAdd
    <3>5. Agrees(e, disk[g])
      BY <2>2, <3>1 DEF Truthful
    <3> HIDE DEF new, p
    <3>6. e = [sig |-> e.sig, pool |-> e.pool]
      BY <2>2 DEF Truthful
    <3>7. u.pool = p /\ u.sig = e.sig /\ u = [sig |-> u.sig, pool |-> u.pool]
      BY <3>6
    <3> HIDE DEF u
    <3>8. Agrees(u, new)
      BY <1>1, <3>4, <3>5, <3>7 DEF Agrees
    <3>9. Truthful(g, u, new)
      BY <3>1, <3>7, <3>8 DEF Truthful
    <3>10. Sound(g, new)
      BY <1>1, <2>2, <3>2, <3>4 DEF Sound, FileTypes
    <3> QED
      BY <3>3, <3>9, <3>10 DEF new
  <2> QED
    BY <2>3, <2>4
<1>6. DOMAIN mem' = Files
  BY <1>3, <1>4
<1> QED
  BY <1>5, <1>6 DEF Honest

LEMMA HonestSigned ==
  ASSUME FlowInv, Honest(mem, disk), SignList PROVE Honest(mem', disk)
<1>a. PICK a : a = DP.auto
  OBVIOUS
<1>1. a \in Files => a \in AutoLists
  <2>1. dp \in DOMAIN Profiles
    BY ProfileCount DEF FlowInv, ListInv, ListTypes, DpTypes, SignList
  <2> QED
    BY <1>a, <2>1, ProfilesAssumption DEF DP, AutoLists
<1>b. PICK v : mem' = [mem EXCEPT ![a].sig = v]
  BY <1>a DEF SignList
<1>2. ASSUME NEW g \in Files PROVE Truthful(g, mem'[g], disk[g])
  <2>1. Truthful(g, mem[g], disk[g])
    BY DEF Honest
  <2>2. CASE g # a
    <3>1. mem'[g] = mem[g]
      BY <1>b, <2>2 DEF Honest
    <3> QED
      BY <2>1, <3>1
  <2>3. CASE g = a
    <3> DEFINE e == mem[g]
               u == [e EXCEPT !.sig = v]
    <3>1. mem'[g] = u
      BY <1>b, <2>3 DEF Honest
    <3>2. e = [sig |-> e.sig, pool |-> e.pool]
      BY <2>1 DEF Truthful
    <3>3. u.pool = e.pool /\ u = [sig |-> u.sig, pool |-> u.pool]
      BY <3>2
    <3> HIDE DEF u
    <3>4. Truthful(g, u, disk[g])
      BY <1>1, <2>1, <2>3, <3>3 DEF Truthful, Agrees
    <3> QED
      BY <3>1, <3>4
  <2> QED
    BY <2>2, <2>3
<1>3. DOMAIN mem' = Files
  BY <1>b DEF Honest
<1> QED
  BY <1>2, <1>3 DEF Honest

LEMMA HonestNext ==
  ASSUME FlowInv, Alone => Honest(mem, disk), [Next]_vars PROVE Alone => Honest(mem', disk')
<1> SUFFICES ASSUME Alone PROVE Honest(mem', disk')
  OBVIOUS
<1>1. Honest(mem, disk)
  OBVIOUS
<1>2. CASE mem' = mem /\ disk' = disk
  BY <1>1, <1>2
<1>3. CASE Worked
  <2>1. CASE AppendHost
    BY <1>1, <2>1, HonestAppended
  <2>2. CASE ~AppendHost
    <3>1. disk' = disk
      BY <1>3, <2>2 DEF Worked
    <3>2. ASSUME NEW t, NEW h, NEW l7, mem' = DpFind(mem, disk, t, h, l7).mem PROVE Honest(mem', disk)
      BY <1>1, <3>2, FindHonest
    <3>3. ASSUME mem' = Recheck(mem, disk, DP) PROVE Honest(mem', disk)
      BY <1>1, <3>3, HonestHostlists DEF Recheck
    <3>4. ASSUME SignList PROVE Honest(mem', disk)
      BY <1>1, <3>4, HonestSigned
    <3>5. mem' = mem \/ Honest(mem', disk)
      BY <1>3, <2>2, <3>2, <3>3, <3>4, WorkOnLists DEF Worked
    <3> QED
      BY <1>1, <3>1, <3>5
  <2> QED
    BY <2>1, <2>2
<1> QED
  BY <1>1, <1>2, <1>3, HonestEdited, NextKinds
     DEF Rests, Captures, Replays, Finishes, Capture, NextHeld, ReplayOver, Finish

\* A list that has the signature of its file has its entries, and one that the
\* engine fills always has them, as long as nobody else writes or locks the files
\* that it fills (LoadHostList, and the new signature after an append).
THEOREM SignaturesTell == ASSUME Alone PROVE Spec => []SignatureMeansContent
<1>1. Init => Honest(mem, disk)
  BY HonestInit
<1>2. FlowInv /\ Honest(mem, disk) /\ [Next]_vars => Honest(mem, disk)'
  BY HonestNext DEF Honest, Sound, Truthful, Agrees, AutoLists, Stat
<1>3. Honest(mem, disk) => SignatureMeansContent
  BY DEF Honest, Truthful, Agrees, SignatureMeansContent
<1> QED
  BY FlowKept, <1>1, <1>2, <1>3, PTL DEF Spec

-----------------------------------------------------------------------------
\* The profile that acts. It is the one of the connection (DpPlace); once the name
\* is known it is the choice for it (NameInv), and a profile that excludes the name
\* does not reach the desync (ActInv). The packets of a replayed request see the
\* name together, or none of them does (ReplayInv), so that a packet cut earlier
\* in the replay was cut by the profile in force at its end (SplitInv).
Clear(i, h) == i # 0 /\ ~Excluded(FirstMem, Profiles[i].excl, h)
LocTypes == {"l7", "have", "at", "len", "check"} \subseteq DOMAIN loc
DpPlace == (pc \notin {"idle", "find", "replay", "done"} \/ replay) /\ Tracked => T.dp = dp
ReplayHas == S.l7 \in {"tls", "http"} /\ T.reasm.at = 1 /\ T.reasm.have > 0 /\ S.sni > 0 /\ T.reasm.have >= S.sni
ReplayInv ==
  replay =>
    /\ pc = "classify" => loc.at = T.reasm.at /\ loc.len = T.reasm.have
    /\ pc \in {"discover", "check", "act"} => (loc.have = TRUE <=> ReplayHas)
    /\ pc = "replay" /\ loc.have = TRUE => ReplayHas
NameInv ==
  pc \in {"check", "act"} /\ loc.have = TRUE =>
    /\ Tracked => T.hostFound = TRUE
    /\ Calm => IsChoice(dp, S.to, S.host, L7Now)
    /\ loc.check.done = TRUE => DP.auto = NoFile
ActInv == pc = "act" /\ loc.have = TRUE /\ Calm => Clear(dp, S.host)
HasCut(q) == \E i \in DOMAIN q : q[i].how = "split"
SplitInv ==
  HasCut(out) =>
    /\ replay \/ pc = "done"
    /\ replay /\ ReplayHas /\ Calm => T.hostFound = TRUE /\ Clear(T.dp, S.host)
    /\ ~replay /\ loc.have = TRUE /\ Calm => Clear(dp, S.host)
ChoiceInv == LocTypes /\ DpPlace /\ ReplayInv /\ NameInv /\ ActInv /\ SplitInv

LEMMA Rigid ==
  /\ \A i, t, h, l7 : IsChoice(i, t, h, l7)' <=> IsChoice(i, t, h, l7)
  /\ \A i, h : Clear(i, h)' <=> Clear(i, h)
  BY DEF IsChoice, Fits, Hopeless, HostlistsEmpty, MatchesL3L4, MatchesL7, MatchesLists, FirstMem, FirstList, FirstFile,
         AutoLists, Clear, Excluded, InCollection, CollectionEmpty, HostlistCheck, IpsetCheck

\* What a step of the engine leaves of the entry.
LEMMA WorksEntry ==
  ASSUME FlowInv, Works
  PROVE  /\ cur' = cur /\ replay' = replay /\ Here /\ (Tracked' <=> Tracked) /\ T' = N
         /\ pc \in Steps \ {"idle", "replay", "done"} /\ pc' # "idle"
         /\ Tracked => IsEntry(cur.conn, N) /\ Recalls(T, N)
         /\ replay => Tracked /\ N.reasm = T.reasm /\ pc \in {"classify", "discover", "check", "act"}
<1>1. Stays /\ pc \in Steps \ {"idle", "replay", "done"} /\ StepShape /\ Here /\ PlaceInv
  BY StepShaped DEF Here, FlowInv, PathInv
<1>2. Only(table') /\ (Tracked => IsEntry(cur.conn, N) /\ Recalls(T, N))
  BY WorksShape
<1>3. (Tracked' <=> Tracked) /\ T' = N
  BY <1>1, <1>2 DEF Tracked, T, N, Stays, Only
<1>4. replay => Tracked /\ pc \in {"classify", "discover", "check", "act"}
  BY <1>1 DEF PlaceInv
<1>5. replay => N.reasm = T.reasm
  BY <1>1, <1>4 DEF StepShape, Leaves, Enters, Relists, Reads, Looks, GivesUp, GoesOn, ClosesAndGoesOn, HoldsIt, Real,
                    ListSteps, Quiet, Shut, N
<1>6. pc' # "idle"
  BY <1>1 DEF StepShape, Leaves, Enters, Relists, Reads, Looks, GivesUp, HoldsIt, After, PlaceInv, ListSteps
<1> QED
  BY <1>1, <1>2, <1>3, <1>4, <1>5, <1>6 DEF Stays

LEMMA LocNext == ASSUME FlowInv, LocTypes, [Next]_vars PROVE LocTypes'
<1>1. loc' = loc => LocTypes'
  BY DEF LocTypes
<1>2. CASE Worked
  <2>1. CASE Payload
    BY <2>1 DEF Payload, LocTypes, NoLoc
  <2>2. CASE Classify
    BY <2>2 DEF Classify, ClassifyHttp, ClassifyTls, HoldHello, HelloTooLarge, HelloAtHand, ClassifyOther, LocTypes
  <2>3. CASE Discover
    BY <2>3 DEF Discover, Rediscover, RediscoverAs, NothingNew, LocTypes
  <2>4. CASE ~(Payload \/ Classify \/ Discover)
    BY <1>1, <1>2, <2>4 DEF Worked, Works, FindProfile, Limits, Inbound, RecheckFailed, AppendHost, SignList, Gate, CheckHost, Act
  <2> QED
    BY <2>1, <2>2, <2>3, <2>4
<1>3. CASE Captures \/ Finishes \/ NextHeld
  BY <1>3 DEF Captures, Finishes, Capture, Finish, NextHeld, LocTypes, NoLoc
<1> QED
  BY <1>1, <1>2, <1>3, NextKinds DEF Rests, Edited, Replays, ReplayOver

\* Only a search changes the profile of a connection.
LEMMA ClassifyDp == ASSUME FlowInv, Classify PROVE SameDp /\ dp' = dp
<1>1. Here /\ Quiet(table) /\ dp' = dp /\ (Tracked => IsEntry(cur.conn, T))
  <2>1. Here
    BY DEF Classify, Here, FlowInv, PathInv
  <2> QED
    BY <2>1, QuietTable DEF Classify, Quiet, T
<1> SUFFICES ASSUME Tracked PROVE N.dp = T.dp
  BY <1>1 DEF SameDp
<1>2. ASSUME NEW u, NEW w, w = [table EXCEPT ![cur.conn] = u], IsEntry(cur.conn, u), u.dp = T.dp,
             u.state = T.state, u.reasm = T.reasm, u.delayed = T.delayed, Recalls(T, u),
             table' = w \/ table' = CancelIn(w)
      PROVE  N.dp = T.dp
  <2>1. Quiet(w) /\ w[cur.conn] = u
    BY <1>2, EnteredFacts
  <2> QED
    BY <1>2, <2>1, CancelInFacts DEF N
<1>3. table' = table \/ table' = CancelIn(table) => N.dp = T.dp
  BY <1>1, CancelInFacts DEF N, T
<1>4. CASE ClassifyHttp /\ Real
  <2> DEFINE a == Cancelled(T)
             t == WithL7(a, "http")
             u == IF DP.noForced THEN t ELSE ForcedWsizeCut(t, DP)
             v == IF HasHost THEN HttpRequestSeen(u) ELSE u
  <2>1. table' = [table EXCEPT ![cur.conn] = v]
    BY <1>4 DEF ClassifyHttp
  <2>2. IsEntry(cur.conn, a) /\ a.dp = T.dp
    BY <1>1, CancelledEntry
  <2> HIDE DEF a
  <2>3. IsEntry(cur.conn, t) /\ t.dp = T.dp
    BY <2>2, RequestEntry DEF Like
  <2> HIDE DEF t
  <2>4. IsEntry(cur.conn, u) /\ u.dp = T.dp
    <3>1. IsEntry(cur.conn, ForcedWsizeCut(t, DP)) /\ Like(t, ForcedWsizeCut(t, DP))
      BY <2>3, WsizeEntry
    <3> QED
      BY <2>3, <3>1 DEF Like
  <2> HIDE DEF u
  <2>5. v.dp = T.dp
    <3>1. Like(u, HttpRequestSeen(u))
      BY <2>4, RequestEntry
    <3> QED
      BY <2>4, <3>1 DEF Like
  <2> HIDE DEF v
  <2> QED
    BY <2>1, <2>5 DEF N, Tracked
<1>5. CASE HoldHello
  <2> DEFINE t == HelloSeen(T)
             q == Append(T.delayed, cur)
             u == [t EXCEPT !.delayed = q]
  <2>1. t.dp = T.dp /\ IsEntry(cur.conn, t) /\ t.delayed = T.delayed
    BY <1>1, HelloEntry
  <2>2. table' = [table EXCEPT ![cur.conn] = [t EXCEPT !.delayed = Append(@, cur)]]
    BY <1>5 DEF HoldHello
  <2> HIDE DEF t
  <2>3. table' = [table EXCEPT ![cur.conn] = u]
    BY <2>1, <2>2
  <2>4. u.dp = t.dp
    BY <2>1 DEF IsEntry, Fields
  <2> HIDE DEF u
  <2> QED
    BY <2>1, <2>3, <2>4 DEF N, Tracked
<1>6. CASE HelloTooLarge
  <2> DEFINE u == WithL7(T, "tls")
             w == [table EXCEPT ![cur.conn] = u]
  <2>1. table' = CancelIn(w)
    BY <1>6 DEF HelloTooLarge, CancelAndSendOrig, T
  <2>2. IsEntry(cur.conn, u) /\ Like(T, u)
    BY <1>1, RequestEntry
  <2> HIDE DEF u
  <2> QED
    BY <1>2, <2>1, <2>2 DEF Like
<1>7. CASE HelloAtHand
  <2> DEFINE u == HelloSeen(T)
             w == [table EXCEPT ![cur.conn] = u]
  <2>1. /\ Real => ~Starts(T)
        /\ table' \in {w, CancelIn(w), table, CancelIn(table)}
        /\ ~Real => table' \in {table, CancelIn(table)}
    BY <1>7 DEF HelloAtHand, CancelAndSendOrig, T
  <2>2. Real => /\ IsEntry(cur.conn, u) /\ u.state = T.state /\ u.reasm = T.reasm /\ u.delayed = T.delayed
                /\ Recalls(T, u) /\ u.dp = T.dp
    BY <1>1, <2>1, HelloEntry
  <2> HIDE DEF u
  <2> QED
    BY <1>2, <1>3, <2>1, <2>2
<1> QED
  BY <1>3, <1>4, <1>5, <1>6, <1>7 DEF Classify, ClassifyTls, ClassifyOther, ClassifyHttp

LEMMA KeepsDp ==
  ASSUME FlowInv, Works, ~FindProfile, ~(Discover /\ Rediscover) PROVE SameDp /\ dp' = dp
<1>1. Here /\ (pc = "payload" => ~replay) /\ Quiet(table)
  BY WorksEntry, QuietTable
<1>2. ASSUME CancelIn(table) = table' \/ table' = table PROVE SameDp
  BY <1>1, <1>2, CancelInFacts DEF SameDp, N, T
<1>3. CASE Limits \/ Inbound
  BY <1>1, <1>3, LimitsFacts, InboundFacts DEF Limits, Inbound
<1>4. CASE RecheckFailed \/ AppendHost \/ SignList \/ Gate \/ Act
  BY <1>2, <1>4 DEF RecheckFailed, AppendHost, SignList, Gate, Act, CancelAndSendOrig
<1>5. CASE Payload
  BY <1>1, <1>5, PayloadFacts DEF Payload
<1>6. CASE Classify
  BY <1>6, ClassifyDp
<1>7. CASE Discover
  <2> DEFINE u == RequestPassed(T)
  <2>1. dp' = dp /\ table' = IF Real THEN [table EXCEPT ![cur.conn] = u] ELSE table
    BY <1>7 DEF Discover, NothingNew, Passed, T
  <2>2. Tracked => u.dp = T.dp
    BY <1>1, RequestEntry DEF Quiet, Like, T
  <2> HIDE DEF u
  <2> QED
    BY <2>1, <2>2 DEF SameDp, N, T, Tracked, Real
<1>8. CASE CheckHost
  <2> DEFINE m == IF loc.check.done THEN mem ELSE Recheck(mem, disk, DP)
             u == StopRetrans(T, DP)
             v == Watch(T, m)
             b == IF Tracked THEN [table EXCEPT ![cur.conn] = v] ELSE table
  <2>1. /\ dp' = dp
        /\ \/ table' = table
           \/ table' = [table EXCEPT ![cur.conn] = u] /\ Tracked
           \/ table' = CancelIn(b)
    BY <1>8 DEF CheckHost, CancelAndSendOrig, T
  <2>2. Tracked => IsEntry(cur.conn, u) /\ Like(T, u)
    BY <1>1, StopEntry DEF Quiet, T
  <2> HIDE DEF m
  <2>3. Tracked => IsEntry(cur.conn, v) /\ Like(T, v)
    BY <1>1 DEF Quiet, IsEntry, Fields, ToldBy, Like, Recalls, Watch, T
  <2> HIDE DEF u, v
  <2>4. Quiet(b) /\ (Tracked => b[cur.conn] = v)
    BY <1>1, <2>3, EnteredFacts DEF Like
  <2> HIDE DEF b
  <2>5. SameDp
    BY <2>1, <2>2, <2>3, <2>4, CancelInFacts DEF SameDp, N, T, Tracked, Like
  <2> QED
    BY <2>1, <2>5
<1> QED
  BY <1>3, <1>4, <1>5, <1>6, <1>7, <1>8 DEF Works

LEMMA DpPlaceNext == ASSUME FlowInv, DpPlace, [Next]_vars PROVE DpPlace'
<1>1. PlaceInv /\ EngineTypes
  BY DEF FlowInv, PathInv
<1>2. CASE Rests \/ Edited
  BY <1>2 DEF Rests, Edited, DpPlace, Tracked, T
<1>3. CASE Captures \/ Finishes
  BY <1>1, <1>3 DEF Captures, Finishes, Capture, Finish, DpPlace, PlaceInv
<1>4. CASE ReplayOver
  BY <1>4 DEF ReplayOver, DpPlace
<1>5. CASE NextHeld
  <2> DEFINE c == cur.conn
             q == Tail(T.delayed)
             u == [T EXCEPT !.delayed = q]
  <2>1. T.delayed # <<>> /\ c \in DOMAIN table /\ c \in Conns /\ IsEntry(c, T)
    BY <1>1, <1>5 DEF NextHeld, PlaceInv, Tracked, EngineTypes, T
  <2>2. cur'.conn = c
    BY <1>5, <2>1 DEF NextHeld, IsEntry, Segments
  <2>3. table' = [table EXCEPT ![c] = u] /\ dp' = T.dp
    BY <1>5 DEF NextHeld, T
  <2>4. u.dp = T.dp
    BY <2>1 DEF IsEntry, Fields
  <2> HIDE DEF u
  <2>5. T' = u
    BY <2>1, <2>2, <2>3 DEF T
  <2> QED
    BY <2>3, <2>4, <2>5 DEF DpPlace
<1>6. CASE Worked
  <2>1. /\ cur' = cur /\ replay' = replay /\ Here /\ (Tracked' <=> Tracked) /\ T' = N
        /\ pc \in Steps \ {"idle", "replay", "done"} /\ pc' # "idle" /\ (replay => pc # "find")
    BY <1>6, WorksEntry DEF Worked
  <2>2. CASE FindProfile
    <3>1. CASE UseCached
      BY <2>1, <3>1 DEF UseCached, N, T, DpPlace
    <3>2. CASE Search
      <4>1. PICK found : Searched(found)
        BY <3>2 DEF Search
      <4>2. Tracked => N.dp = dp'
        <5> DEFINE h == KnownHost
        <5>1. SUFFICES ASSUME Tracked PROVE N.dp = dp'
          OBVIOUS
        <5>2. dp' = found.dp /\ table' = [table EXCEPT ![cur.conn].dp = found.dp,
                                                       ![cur.conn].dpSearched = TRUE,
                                                       ![cur.conn].host = h]
          BY <4>1, <5>1 DEF Searched
        <5>3. "dp" \in DOMAIN table[cur.conn] /\ cur.conn \in DOMAIN table
          BY <1>1, <5>1 DEF EngineTypes, Tracked, IsEntry, Fields
        <5> HIDE DEF h
        <5> QED
          BY <5>2, <5>3 DEF N
      <4> QED
        BY <2>1, <4>2 DEF DpPlace
    <3> QED
      BY <2>2, <3>1, <3>2 DEF FindProfile
  <2>3. CASE Discover /\ Rediscover
    <3>1. N.dp = dp' \/ ~Tracked
      <4> DEFINE u == Rediscovered(Choice)
                 w == [table EXCEPT ![cur.conn] = u]
      <4>1. SUFFICES ASSUME Tracked PROVE N.dp = dp'
        OBVIOUS
      <4>2. dp' = Choice.dp /\ (table' = w \/ table' = CancelIn(w))
        BY <2>3, <4>1 DEF Rediscover, RediscoverAs, Choice, CancelAndSendOrig
      <4>3. IsEntry(cur.conn, T)
        BY <1>1, <4>1 DEF EngineTypes, Tracked, T
      <4>4. /\ IsEntry(cur.conn, u) /\ u.state = T.state /\ u.reasm = T.reasm /\ u.delayed = T.delayed
            /\ Recalls(T, u) /\ u.dp = Choice.dp
        BY <2>1, <2>3, <4>1, <4>3, RediscoveredEntry DEF Discover, Rediscover
      <4> HIDE DEF u
      <4>5. Quiet(w) /\ w[cur.conn] = u
        BY <4>1, <4>4, EnteredFacts
      <4> HIDE DEF w
      <4>6. CancelIn(w)[cur.conn].dp = u.dp
        BY <4>1, <4>5, CancelInFacts
      <4> QED
        BY <4>2, <4>4, <4>5, <4>6 DEF N
    <3> QED
      BY <2>1, <3>1 DEF DpPlace
  <2>4. CASE ~FindProfile /\ ~(Discover /\ Rediscover)
    <3>1. SameDp /\ dp' = dp /\ pc # "find"
      BY <1>6, <2>4, KeepsDp DEF Worked, Works, Limits, Inbound, RecheckFailed, AppendHost, SignList, Gate, Payload,
                                 Classify, Discover, CheckHost, Act
    <3> QED
      BY <2>1, <3>1 DEF DpPlace, SameDp
  <2> QED
    BY <2>2, <2>3, <2>4
<1> QED
  BY <1>2, <1>3, <1>4, <1>5, <1>6, NextKinds DEF Replays

\* The request seen in a replay is the same for each of its packets.
LEMMA ReplayNext == ASSUME FlowInv, LocTypes, ReplayInv, [Next]_vars PROVE ReplayInv'
<1>1. PlaceInv /\ EngineTypes /\ FoundInv
  BY DEF FlowInv, PathInv, ListInv
<1>2. CASE Rests \/ Edited
  BY <1>2 DEF Rests, Edited, ReplayInv, ReplayHas, T, S
<1>3. CASE Captures \/ Finishes \/ ReplayOver
  BY <1>1, <1>3 DEF Captures, Finishes, Capture, Finish, ReplayOver, ReplayInv, PlaceInv
<1>4. CASE NextHeld
  <2> DEFINE c == cur.conn
             q == Tail(T.delayed)
             u == [T EXCEPT !.delayed = q]
  <2>1. T.delayed # <<>> /\ c \in DOMAIN table /\ c \in Conns /\ IsEntry(c, T)
    BY <1>1, <1>4 DEF NextHeld, PlaceInv, Tracked, EngineTypes, T
  <2>2. cur'.conn = c
    BY <1>4, <2>1 DEF NextHeld, IsEntry, Segments
  <2>3. table' = [table EXCEPT ![c] = u]
    BY <1>4 DEF NextHeld, T
  <2>4. u.reasm = T.reasm
    BY <2>1 DEF IsEntry, Fields
  <2> HIDE DEF u
  <2>5. T' = u
    BY <2>1, <2>2, <2>3 DEF T
  <2>6. /\ loc'.at = T.reasm.at /\ loc'.len = T.reasm.have /\ ~(loc'.have = TRUE)
        /\ pc' \in {"classify", "replay"}
    BY <1>4 DEF NextHeld, NoLoc
  <2> QED
    BY <2>4, <2>5, <2>6 DEF ReplayInv
<1>5. CASE Worked
  <2> SUFFICES ASSUME replay PROVE ReplayInv'
    BY <1>5, WorksEntry DEF Worked, ReplayInv
  <2>1. /\ cur' = cur /\ T' = N /\ Tracked /\ N.reasm = T.reasm /\ stream' = stream
        /\ pc \in {"classify", "discover", "check", "act"}
    BY <1>5, WorksEntry DEF Worked
  <2>2. ReplayHas' <=> ReplayHas
    BY <2>1 DEF ReplayHas, S
  <2>3. CASE Classify
    <3>1. loc.at = T.reasm.at /\ loc.len = T.reasm.have /\ ~(loc.have = TRUE) /\ ~Real
      BY <1>1, <2>3 DEF Classify, ReplayInv, FoundInv, Real, Steps
    <3>2. CASE ClassifyHttp
      <4>1. pc' = "discover" \/ pc' = "replay"
        BY <3>2 DEF ClassifyHttp, After
      <4>2. loc'.have = TRUE <=> HasHost
        BY <3>2 DEF ClassifyHttp, LocTypes
      <4>3. ReplayHas <=> HasHost
        BY <3>1, <3>2 DEF ReplayHas, HasHost, ClassifyHttp, IsHttp
      <4> QED
        BY <2>2, <4>1, <4>2, <4>3 DEF ReplayInv
    <3>3. CASE ClassifyTls
      <4>1. IsTLSClientHello /\ HelloAtHand
        BY <3>1, <3>3 DEF ClassifyTls, HoldHello, HelloTooLarge
      <4>2. CASE NoHostSkipped
        <5>1. loc' = loc /\ pc' = "replay"
          BY <4>1, <4>2 DEF HelloAtHand, CancelAndSendOrig, After
        <5> QED
          BY <3>1, <5>1 DEF ReplayInv
      <4>3. CASE ~NoHostSkipped
        <5>1. pc' = "discover" /\ (loc'.have = TRUE <=> HasHost)
          BY <4>1, <4>3 DEF HelloAtHand, LocTypes
        <5>2. ReplayHas <=> HasHost
          BY <3>1, <4>1 DEF ReplayHas, HasHost, IsTLSClientHello
        <5> QED
          BY <2>2, <5>1, <5>2 DEF ReplayInv
      <4> QED
        BY <4>2, <4>3
    <3>4. CASE ClassifyOther
      <4>1. pc' = "discover" /\ loc' = loc
        BY <3>4 DEF ClassifyOther
      <4>2. ~ReplayHas
        BY <3>1, <3>4 DEF ReplayHas, ClassifyOther, IsHttp, IsTLSClientHello
      <4> QED
        BY <2>2, <3>1, <4>1, <4>2 DEF ReplayInv
    <3> QED
      BY <2>3, <3>2, <3>3, <3>4 DEF Classify
  <2>4. CASE Discover \/ CheckHost \/ Act
    <3>1. (loc'.have = TRUE <=> loc.have = TRUE) /\ pc' \in {"check", "act", "replay"}
      BY <2>4 DEF Discover, Rediscover, RediscoverAs, NothingNew, CheckHost, Act, CancelAndSendOrig, After, LocTypes
    <3>2. pc \in {"discover", "check", "act"}
      BY <2>4 DEF Discover, CheckHost, Act
    <3> QED
      BY <2>2, <3>1, <3>2 DEF ReplayInv
  <2> QED
    BY <1>5, <2>1, <2>3, <2>4 DEF Worked, Works, FindProfile, Limits, Inbound, RecheckFailed, AppendHost, SignList, Gate, Payload
<1> QED
  BY <1>2, <1>3, <1>4, <1>5, NextKinds DEF Replays

\* Who comes to the lists with a name has the profile that was chosen by it.
LEMMA DiscoversName ==
  ASSUME FlowInv, LocTypes, DpPlace, Discover, pc' = "check", loc'.have = TRUE, Calm' => Calm, stream' = stream
  PROVE  NameInv'
<1>0. loc.have = TRUE
  BY DEF Discover, Rediscover, RediscoverAs, NothingNew, LocTypes
<1>1. /\ cur' = cur /\ (Tracked' <=> Tracked) /\ T' = N /\ Here /\ pc = "discover" /\ cur.dir = "orig"
      /\ Tracked => IsEntry(cur.conn, N) /\ Recalls(T, N) /\ IsEntry(cur.conn, T)
  <2>1. FoundInv /\ EngineTypes
    BY DEF FlowInv, PathInv, ListInv
  <2> QED
    BY <1>0, <2>1, WorksEntry DEF Works, Discover, FoundInv, EngineTypes, Tracked, T
<1>2. loc.have = TRUE /\ loc'.l7 = loc.l7 /\ S' = S /\ Target(cur) = S.to
  BY <1>1 DEF Discover, Rediscover, RediscoverAs, NothingNew, LocTypes, S, Target
<1>3. CASE Rediscover
  <2> DEFINE u == Rediscovered(Choice)
  <2>1. /\ dp' = Choice.dp /\ loc' = [loc EXCEPT !.check = CheckDone(Choice.mem, Choice.dp, HostNow)]
        /\ Tracked => table' = [table EXCEPT ![cur.conn] = u]
    BY <1>1, <1>3 DEF Rediscover, RediscoverAs, Choice, CancelAndSendOrig, After
  <2>2. Tracked => u.dp = Choice.dp /\ u.hostFound = TRUE
    BY <1>1, <1>2, <1>3, RediscoveredEntry DEF Rediscover
  <2> HIDE DEF u
  <2>3. Tracked => N.dp = dp' /\ N.hostFound = TRUE
    BY <2>1, <2>2 DEF N, Tracked
  <2>4. loc'.check.done = TRUE => Profiles[dp'].auto = NoFile
    <3>a. PICK k : k = CheckDone(Choice.mem, Choice.dp, HostNow)
      OBVIOUS
    <3>1. k.done = TRUE => Profiles[Choice.dp].auto = NoFile
      BY <3>a, CheckDoneFacts
    <3>2. loc'.check = k /\ dp' = Choice.dp
      BY <2>1, <3>a DEF LocTypes
    <3> QED
      BY <3>1, <3>2, Zenon
  <2>5. CASE Tracked
    <3>1. Calm => IsChoice(dp', S.to, S.host, N.l7)
      BY <1>1, <2>3, <2>5 DEF IsEntry, ToldBy, Told, S
    <3>2. L7Now' = N.l7
      BY <1>1, <2>5 DEF L7Now
    <3> QED
      BY <1>1, <1>2, <2>3, <2>4, <2>5, <3>1, <3>2, Rigid DEF NameInv, DP
  <2>6. CASE ~Tracked
    <3>1. HostNow = S.host /\ L7Now = loc.l7 /\ L7Now' = loc.l7
      BY <1>1, <1>2, <2>6 DEF HostNow, L7Now
    <3>2. Calm => IsChoice(dp', S.to, S.host, loc.l7)
      BY <1>1, <1>2, <2>1, <3>1, ChoiceFacts
    <3> QED
      BY <1>1, <1>2, <2>4, <2>6, <3>1, <3>2, Rigid DEF NameInv, DP
  <2> QED
    BY <2>5, <2>6
<1>4. CASE NothingNew
  <2>1. Tracked /\ T.hostFound = TRUE /\ dp' = dp /\ loc'.check = T.check /\ T.dp = dp
    BY <1>1, <1>2, <1>4 DEF NothingNew, FindsHost, LocTypes, DpPlace
  <2>2. /\ Calm => IsChoice(dp, S.to, S.host, T.l7)
        /\ T.l7 # "unknown" /\ (T.check.done = TRUE => Profiles[dp].auto = NoFile)
    BY <1>1, <2>1 DEF IsEntry, ToldBy, Told, S
  <2>3. N.hostFound = TRUE /\ N.l7 = T.l7 /\ L7Now' = N.l7
    BY <1>1, <2>1, <2>2 DEF Recalls, L7Now
  <2> QED
    BY <1>1, <1>2, <2>1, <2>2, <2>3, Rigid DEF NameInv, DP
<1> QED
  BY <1>3, <1>4 DEF Discover

LEMMA NameNext == ASSUME FlowInv, LocTypes, DpPlace, NameInv, [Next]_vars PROVE NameInv'
<1>1. PlaceInv /\ EngineTypes /\ FoundInv /\ (Calm' => Calm)
  BY CalmBefore DEF FlowInv, PathInv, ListInv, ListTypes
<1>2. CASE Rests \/ Edited
  <2>1. /\ T' = T /\ S' = S /\ (Tracked' <=> Tracked) /\ L7Now' = L7Now /\ DP' = DP
        /\ UNCHANGED <<pc, loc, dp>>
    BY <1>2 DEF Rests, Edited, T, S, Tracked, L7Now, DP
  <2> QED
    BY <1>1, <2>1, Rigid DEF NameInv
<1>3. CASE Captures \/ Finishes \/ Replays
  BY <1>3 DEF Captures, Finishes, Capture, Finish, Replays, NextHeld, ReplayOver, NameInv
<1>4. CASE Worked
  <2>1. /\ cur' = cur /\ (Tracked' <=> Tracked) /\ T' = N /\ stream' = stream
        /\ Tracked => Recalls(T, N) /\ IsEntry(cur.conn, T)
    BY <1>1, <1>4, WorksEntry DEF Worked, EngineTypes, Tracked, T
  <2>2. CASE Discover
    <3>1. pc' # "act"
      BY <2>2 DEF Discover, Rediscover, RediscoverAs, NothingNew, CancelAndSendOrig, After
    <3> QED
      BY <1>1, <2>1, <2>2, <3>1, DiscoversName DEF NameInv
  <2>3. CASE CheckHost
    <3>1. pc = "check" /\ loc' = loc /\ dp' = dp /\ pc' # "check" /\ S' = S
      BY <2>1, <2>3 DEF CheckHost, CancelAndSendOrig, After, S
    <3>2. SUFFICES ASSUME loc.have = TRUE PROVE NameInv'
      BY <3>1 DEF NameInv
    <3>3. Tracked => N.hostFound = TRUE /\ N.l7 = T.l7
      BY <2>1, <3>1, <3>2 DEF NameInv, Recalls, IsEntry, ToldBy, Told
    <3>4. L7Now' = L7Now
      BY <2>1, <3>1, <3>3 DEF L7Now
    <3> QED
      BY <1>1, <2>1, <3>1, <3>2, <3>3, <3>4, Rigid DEF NameInv, DP
  <2>4. CASE ~Discover /\ ~CheckHost
    <3>1. pc' \notin {"check", "act"}
      BY <1>1, <1>4, <2>4 DEF Worked, Works, FindProfile, Limits, Inbound, RecheckFailed, AppendHost, SignList, Gate, Payload, Classify,
         Act, SendOrig, CancelAndSendOrig, After, Answered, Unremarkable, CountFail, PlaceInv,
         ListSteps, ClassifyHttp, ClassifyTls, HoldHello, HelloTooLarge, HelloAtHand, ClassifyOther
    <3> QED
      BY <3>1 DEF NameInv
  <2> QED
    BY <2>2, <2>3, <2>4
<1> QED
  BY <1>2, <1>3, <1>4, NextKinds

\* Only the desync cuts: a sequence of packets has a cut one when a part of it has.
LEMMA CutFacts ==
  /\ \A p \in Seq(Out), q \in Seq(Out) : HasCut(p \o q) => HasCut(p) \/ HasCut(q)
  /\ \A q \in Seq(Out), e \in Out : HasCut(Append(q, e)) => HasCut(q) \/ e.how = "split"
  /\ \A q : ~HasCut(AllOrig(q))
  /\ ~HasCut(<<>>) /\ <<>> \in Seq(Out)
<1>1. ASSUME NEW p \in Seq(Out), NEW q \in Seq(Out), HasCut(p \o q) PROVE HasCut(p) \/ HasCut(q)
  <2>1. PICK i \in DOMAIN (p \o q) : (p \o q)[i].how = "split"
    BY <1>1 DEF HasCut
  <2>2. i \in 1..(Len(p) + Len(q)) /\ (p \o q)[i] = IF i <= Len(p) THEN p[i] ELSE q[i - Len(p)]
    BY <2>1
  <2>3. CASE i <= Len(p)
    <3>1. i \in DOMAIN p /\ p[i].how = "split"
      BY <2>1, <2>2, <2>3
    <3> QED
      BY <3>1 DEF HasCut
  <2>4. CASE ~(i <= Len(p))
    <3>1. (i - Len(p)) \in DOMAIN q /\ q[i - Len(p)].how = "split"
      BY <2>1, <2>2, <2>4
    <3> QED
      BY <3>1 DEF HasCut
  <2> QED
    BY <2>3, <2>4
<1>2. ASSUME NEW q \in Seq(Out), NEW e \in Out, HasCut(Append(q, e)) PROVE HasCut(q) \/ e.how = "split"
  <2>1. PICK i \in DOMAIN Append(q, e) : Append(q, e)[i].how = "split"
    BY <1>2 DEF HasCut
  <2>2. i \in 1..(Len(q) + 1) /\ Append(q, e)[i] = IF i <= Len(q) THEN q[i] ELSE e
    BY <2>1
  <2>3. i <= Len(q) => i \in DOMAIN q
    BY <2>2
  <2> QED
    BY <2>1, <2>2, <2>3 DEF HasCut
<1>3. \A q : ~HasCut(AllOrig(q))
  BY DEF HasCut, AllOrig, AsOrig
<1>4. ~HasCut(<<>>) /\ <<>> \in Seq(Out)
  BY DEF HasCut
<1> QED
  BY <1>1, <1>2, <1>3, <1>4

LEMMA WorksCut == ASSUME FlowInv, Works, ~Act, HasCut(out') PROVE HasCut(out)
<1>1. /\ Here /\ out \in Seq(Out) /\ cur \in Packet /\ (pc = "payload" => ~replay)
      /\ AllOrig(Held) \in Seq(Out)
  BY WorksEntry, HeldTyped DEF Here, EngineTypes
<1>2. AsOrig(cur) \in Out /\ AsOrig(cur).how = "orig"
  BY <1>1 DEF AsOrig, Out
<1> DEFINE u == out \o AllOrig(Held)
           a == AsOrig(cur)
<1>3. u \in Seq(Out) /\ (HasCut(u) => HasCut(out))
  <2> DEFINE q == AllOrig(Held)
  <2>1. q \in Seq(Out) /\ ~HasCut(q)
    BY <1>1, CutFacts
  <2> HIDE DEF q
  <2>2. out \o q \in Seq(Out) /\ (HasCut(out \o q) => HasCut(out))
    BY <1>1, <2>1, CutFacts
  <2> QED
    BY <2>2 DEF q
<1> HIDE DEF u, a
<1>4. (HasCut(Append(out, a)) => HasCut(out)) /\ (HasCut(Append(u, a)) => HasCut(out))
  <2>1. a \in Out /\ a.how # "split"
    BY <1>2 DEF a
  <2> QED
    BY <1>1, <1>3, <2>1, CutFacts
<1>5. HasCut(u \o <<a>>) => HasCut(out)
  <2>1. <<a>> \in Seq(Out) /\ ~HasCut(<<a>>)
    BY <1>2 DEF HasCut, a
  <2> QED
    BY <1>3, <2>1, CutFacts
<1>6. HasCut(u \o <<>>) => HasCut(out)
  BY <1>3, CutFacts
<1>7. CASE out' = out \/ out' = Append(out, a) \/ out' = Append(u, a)
  BY <1>4, <1>7
<1>8. CASE FindProfile \/ Limits \/ Inbound \/ RecheckFailed \/ AppendHost \/ SignList \/ Gate
  BY <1>7, <1>8 DEF FindProfile, Limits, Inbound, RecheckFailed, AppendHost, SignList, Gate, SendOrig, CancelAndSendOrig, u, a
<1>9. CASE Payload
  <2>1. out' = out \o Freed /\ (Freed = <<>> \/ Freed = AllOrig(Held))
    BY <1>1, <1>9 DEF Payload, Freed, Breaks, Held
  <2>2. CASE Freed = <<>>
    BY <1>1, <2>1, <2>2, CutFacts
  <2>3. CASE Freed = AllOrig(Held)
    BY <1>3, <2>1, <2>3 DEF u
  <2> QED
    BY <2>1, <2>2, <2>3
<1>10. CASE Classify
  <2>1. CASE ClassifyHttp
    <3>1. out' = u \o <<>> \/ out' = u \o <<a>>
      BY <2>1 DEF ClassifyHttp, u, a
    <3> QED
      BY <1>5, <1>6, <3>1
  <2>2. CASE ClassifyTls \/ ClassifyOther
    BY <1>7, <2>2 DEF ClassifyTls, HoldHello, HelloTooLarge, HelloAtHand, ClassifyOther, CancelAndSendOrig, u, a
  <2> QED
    BY <1>10, <2>1, <2>2 DEF Classify
<1>11. CASE Discover \/ CheckHost
  BY <1>7, <1>11 DEF Discover, Rediscover, RediscoverAs, NothingNew, CheckHost, CancelAndSendOrig, u, a
<1> QED
  BY <1>8, <1>9, <1>10, <1>11 DEF Works

\* A profile that reaches the desync with a name does not exclude it: by lists
\* without entries, by the search that chose it, or by the check that was just made.
LEMMA EmptyAdmits ==
  ASSUME NEW m, NEW coll, NEW h, CollectionEmpty(m, coll) PROVE ~InCollection(m, coll, h)
  BY DEF CollectionEmpty, InCollection, SearchHostList, EmptyPool

LEMMA CheckAdmits ==
  ASSUME FlowInv, NameInv, CheckHost, pc' = "act", loc.have = TRUE, Calm PROVE Clear(dp, S.host)
<1>1. Settled(mem, disk) /\ Tidy /\ DpTypes /\ pc = "check"
  BY DEF FlowInv, ListInv, ListTypes, MemInv, Calm, CheckHost
<1>2. dp \in DOMAIN Profiles /\ dp # 0 /\ DP = Profiles[dp]
  BY <1>1, ProfileCount DEF DpTypes, DP
<1> DEFINE h == S.host
           m == Recheck(mem, disk, DP)
<1>3. Settled(m, disk)
  BY <1>1, SettledHostlists DEF Recheck
<1>4. \A n : Settled(n, disk) /\ ~Excluded(n, DP.excl, h) => Clear(dp, h)
  <2>1. SUFFICES ASSUME NEW n, Settled(n, disk), ~Excluded(n, DP.excl, h) PROVE Clear(dp, h)
    OBVIOUS
  <2> HIDE DEF h
  <2>2. Excluded(n, Profiles[dp].excl, h) <=> Excluded(FirstMem, Profiles[dp].excl, h)
    BY <1>1, <1>2, <2>1, SettledMatches
  <2> QED
    BY <1>2, <2>1, <2>2 DEF Clear
<1>5. \/ HostlistsEmpty(mem, DP)
      \/ loc.check.done = TRUE
      \/ Listed(m)
  <2>1. \/ ~ListsRule
        \/ IF loc.check.done THEN loc.check.result ELSE Listed(m)
        \/ pc' = After
    BY DEF CheckHost, CancelAndSendOrig
  <2> HIDE DEF m
  <2> QED
    BY <2>1 DEF ListsRule, After
<1> HIDE DEF m
<1>6. CASE HostlistsEmpty(mem, DP)
  BY <1>1, <1>4, <1>6, EmptyAdmits DEF HostlistsEmpty, Excluded
<1>7. CASE loc.check.done = TRUE
  <2>1. IsChoice(dp, S.to, h, L7Now) /\ DP.auto = NoFile
    BY <1>1, <1>7 DEF NameInv
  <2>2. MatchesLists(FirstMem, DP, h)
    BY <1>2, <2>1 DEF IsChoice, Fits
  <2>3. HostlistsEmpty(FirstMem, DP) \/ HostlistCheck(FirstMem, DP.incl, DP.excl, h)
    BY <2>1, <2>2 DEF MatchesLists
  <2>4. ~Excluded(FirstMem, DP.excl, h)
    BY <2>3, EmptyAdmits DEF HostlistsEmpty, HostlistCheck, Excluded
  <2> QED
    BY <1>2, <2>4 DEF Clear
<1>8. CASE Listed(m)
  BY <1>3, <1>4, <1>8 DEF Listed, HostlistCheck
<1> QED
  BY <1>5, <1>6, <1>7, <1>8

LEMMA ActNext == ASSUME FlowInv, NameInv, ActInv, [Next]_vars PROVE ActInv'
<1>1. PlaceInv /\ EngineTypes /\ (Calm' => Calm)
  BY CalmBefore DEF FlowInv, PathInv, ListInv, ListTypes
<1>2. CASE Rests \/ Edited
  <2>1. S' = S /\ UNCHANGED <<pc, loc, dp>>
    BY <1>2 DEF Rests, Edited, S
  <2> QED
    BY <1>1, <2>1, Rigid DEF ActInv
<1>3. CASE Captures \/ Finishes \/ Replays
  BY <1>3 DEF Captures, Finishes, Capture, Finish, Replays, NextHeld, ReplayOver, ActInv
<1>4. CASE Worked
  <2>1. CASE CheckHost
    <3>1. loc' = loc /\ dp' = dp /\ S' = S
      BY <1>4, <2>1 DEF Worked, CheckHost, S
    <3> QED
      BY <1>1, <2>1, <3>1, CheckAdmits, Rigid DEF ActInv
  <2>2. CASE ~CheckHost
    <3>1. pc' # "act"
      BY <1>1, <1>4, <2>2 DEF Worked, Works, FindProfile, Limits, Inbound, RecheckFailed, AppendHost, SignList, Gate, Payload,
         Classify, Discover, Act, SendOrig, CancelAndSendOrig, After, Answered, Unremarkable, CountFail, PlaceInv,
         ListSteps, ClassifyHttp, ClassifyTls, HoldHello, HelloTooLarge, HelloAtHand, ClassifyOther,
         Rediscover, RediscoverAs, NothingNew
    <3> QED
      BY <3>1 DEF ActInv
  <2> QED
    BY <2>1, <2>2
<1> QED
  BY <1>2, <1>3, <1>4, NextKinds

\* A packet that was cut was cut by a profile that does not exclude the name, also
\* when the request is played again packet by packet.
LEMMA SplitNext ==
  ASSUME FlowInv, DpPlace, ReplayInv, NameInv, ActInv, SplitInv, [Next]_vars PROVE SplitInv'
<1>1. PlaceInv /\ EngineTypes /\ DpTypes /\ (Calm' => Calm)
  BY CalmBefore DEF FlowInv, PathInv, ListInv, ListTypes
<1>2. CASE Rests \/ Edited
  <2>1. S' = S /\ T' = T /\ UNCHANGED <<pc, loc, dp, replay, out>>
    BY <1>2 DEF Rests, Edited, S, T
  <2> QED
    BY <1>1, <2>1, Rigid DEF SplitInv, HasCut, ReplayHas
<1>3. CASE Captures \/ Finishes
  <2>1. out' = <<>>
    BY <1>3 DEF Captures, Finishes, Capture, Finish
  <2> QED
    BY <2>1, CutFacts DEF SplitInv, HasCut
<1>4. CASE NextHeld /\ stream' = stream
  <2> DEFINE c == cur.conn
             q == Tail(T.delayed)
             u == [T EXCEPT !.delayed = q]
  <2>1. /\ T.delayed # <<>> /\ c \in DOMAIN table /\ c \in Conns /\ IsEntry(c, T) /\ out \in Seq(Out)
        /\ T.delayed \in Seq(Segments(c))
    BY <1>1, <1>4 DEF NextHeld, PlaceInv, Tracked, EngineTypes, T, IsEntry
  <2>a. PICK x \in Segments(c) : x = Head(T.delayed)
    BY <2>1
  <2>2. cur'.conn = c /\ S' = S
    BY <1>4, <2>a DEF NextHeld, Segments, S
  <2>3. table' = [table EXCEPT ![c] = u]
    BY <1>4 DEF NextHeld, T
  <2>4. u.reasm = T.reasm /\ u.dp = T.dp /\ u.hostFound = T.hostFound
    BY <2>1 DEF IsEntry, Fields
  <2> HIDE DEF u
  <2>5. T' = u
    BY <2>1, <2>2, <2>3 DEF T
  <2>6. HasCut(out)' => HasCut(out)
    <3>1. out' = out \/ out' = Append(out, AsOrig(x))
      BY <1>4, <2>a DEF NextHeld
    <3>2. AsOrig(x) \in Out /\ AsOrig(x).how # "split"
      BY DEF AsOrig, Out, Segments
    <3>3. HasCut(out') => HasCut(out)
      BY <2>1, <3>1, <3>2, CutFacts
    <3> QED
      BY <3>3 DEF HasCut
  <2>7. replay' = TRUE /\ pc = "replay" /\ (ReplayHas' <=> ReplayHas)
    BY <1>4, <2>2, <2>4, <2>5 DEF NextHeld, ReplayHas
  <2> QED
    BY <1>1, <2>2, <2>4, <2>5, <2>6, <2>7, Rigid DEF SplitInv
<1>5. CASE ReplayOver /\ stream' = stream
  <2>1. /\ pc = "replay" /\ Tracked /\ replay' = FALSE /\ pc' = "done" /\ S' = S
        /\ UNCHANGED <<loc, dp, out>>
    BY <1>1, <1>5 DEF ReplayOver, PlaceInv, S
  <2>2. HasCut(out)' => HasCut(out)
    BY <2>1 DEF HasCut
  <2>3. HasCut(out) => replay
    BY <2>1 DEF SplitInv
  <2>4. replay /\ loc.have = TRUE => ReplayHas /\ T.dp = dp
    BY <2>1 DEF ReplayInv, DpPlace
  <2> QED
    BY <1>1, <2>1, <2>2, <2>3, <2>4, Rigid DEF SplitInv
<1>6. CASE Worked
  <2>1. /\ cur' = cur /\ replay' = replay /\ T' = N /\ S' = S /\ pc # "done" /\ pc # "replay"
        /\ Tracked => Recalls(T, N)
        /\ replay => Tracked /\ N.reasm = T.reasm /\ pc \in {"classify", "discover", "check", "act"}
    BY <1>6, WorksEntry DEF Worked, S
  <2>2. replay => (ReplayHas' <=> ReplayHas)
    BY <2>1 DEF ReplayHas
  <2>3. CASE ~Act
    <3>1. HasCut(out)' => HasCut(out)
      BY <1>6, <2>3, WorksCut DEF Worked, HasCut
    <3>2. HasCut(out) => replay
      BY <2>1 DEF SplitInv
    <3>3. replay /\ T.hostFound = TRUE => N.hostFound = TRUE /\ N.dp = T.dp
      BY <2>1 DEF Recalls
    <3> QED
      BY <1>1, <2>1, <2>2, <3>1, <3>2, <3>3, Rigid DEF SplitInv
  <2>4. CASE Act
    <3>1. pc = "act" /\ loc' = loc /\ dp' = dp /\ pc' = After
      BY <2>4 DEF Act
    <3>2. CASE ~replay
      <4>1. pc' = "done"
        BY <3>1, <3>2 DEF After
      <4>2. loc.have = TRUE /\ Calm => Clear(dp, S.host)
        BY <3>1 DEF ActInv
      <4> QED
        BY <1>1, <2>1, <3>1, <3>2, <4>1, <4>2, Rigid DEF SplitInv
    <3>3. CASE replay
      <4>1. ReplayHas => loc.have = TRUE /\ T.hostFound = TRUE
        BY <2>1, <3>1, <3>3 DEF ReplayInv, NameInv
      <4>2. ReplayHas /\ Calm => Clear(dp, S.host) /\ T.dp = dp
        BY <2>1, <3>1, <3>3, <4>1 DEF ActInv, DpPlace
      <4>3. T.hostFound = TRUE => N.hostFound = TRUE /\ N.dp = T.dp
        BY <2>1, <3>3 DEF Recalls
      <4> QED
        BY <1>1, <2>1, <2>2, <3>3, <4>1, <4>2, <4>3, Rigid DEF SplitInv
    <3> QED
      BY <3>2, <3>3
  <2> QED
    BY <2>3, <2>4
<1> QED
  BY <1>2, <1>3, <1>4, <1>5, <1>6, NextKinds DEF Replays

LEMMA ChoiceInit == Init => ChoiceInv
  BY CutFacts DEF Init, InitEngine, ChoiceInv, LocTypes, NoLoc, DpPlace, ReplayInv, NameInv, ActInv, SplitInv

LEMMA ChoiceNext == FlowInv /\ ChoiceInv /\ [Next]_vars => ChoiceInv'
  BY LocNext, DpPlaceNext, ReplayNext, NameNext, ActNext, SplitNext DEF ChoiceInv

LEMMA ChoiceKept == Spec => []ChoiceInv
  BY FlowKept, ChoiceInit, ChoiceNext, PTL DEF Spec

\* As long as nobody edits the lists, a request of a known host is cut only by a
\* profile that does not exclude the host, whatever profile and whatever cached
\* name the connection had before (ipcache_get_hostname, dp_find and the list check
\* of the handler).
THEOREM ExcludedNotSplit == ASSUME Tidy PROVE Spec => []ExcludedNeverSplit
<1>1. FlowInv /\ ChoiceInv => ExcludedNeverSplit
  <2>1. SUFFICES ASSUME FlowInv, ChoiceInv, pc = "done", edits = 0, loc.have = TRUE, HasCut(out)
                 PROVE  ~ExcludesHost(DP, S.host)
    BY DEF ExcludedNeverSplit, HasCut
  <2>2. Settled(mem, disk) /\ DpTypes /\ ~replay /\ Calm
    BY <2>1 DEF FlowInv, PathInv, PlaceInv, ListInv, ListTypes, MemInv, Calm
  <2>3. Clear(dp, S.host)
    BY <2>1, <2>2 DEF ChoiceInv, SplitInv
  <2>4. dp \in DOMAIN Profiles
    BY <2>2, <2>3, ProfileCount DEF DpTypes, Clear
  <2>5. \A h : Excluded(mem, Profiles[dp].excl, h) <=> Excluded(FirstMem, Profiles[dp].excl, h)
    BY <2>2, <2>4, SettledMatches
  <2> QED
    BY <2>3, <2>5 DEF Clear, ExcludesHost, DP
<1> QED
  BY FlowKept, ChoiceKept, <1>1, PTL

\* As long as nobody edits the lists, the profile that acts on a request is the one
\* the search finds with the real name and protocol, although the connection was
\* given one before they were known (the second dp_find of the handler, and what
\* it remembers in the entry).
THEOREM ChosenByName == ASSUME Tidy PROVE Spec => []ProfileFitsHost
<1>1. FlowInv /\ ChoiceInv => ProfileFitsHost
  <2>1. SUFFICES ASSUME FlowInv, ChoiceInv, pc = "act", edits = 0, Tracked, loc.have = TRUE
                 PROVE  dp = DpFind(mem, disk, Target(cur), S.host, T.l7).dp
    BY DEF ProfileFitsHost
  <2>2. Settled(mem, disk) /\ dp \in 0..Len(Profiles) /\ Target(cur) = S.to /\ Calm
    BY <2>1 DEF FlowInv, ListInv, ListTypes, DpTypes, MemInv, Calm, FoundInv, Target, S
  <2>3. IsChoice(dp, S.to, S.host, T.l7)
    BY <2>1, <2>2 DEF ChoiceInv, NameInv, L7Now
  <2> DEFINE i == DpFind(mem, disk, Target(cur), S.host, T.l7).dp
  <2>4. i \in 0..Len(Profiles) /\ IsChoice(i, S.to, S.host, T.l7)
    BY <2>2, FindTyped, FindSettled
  <2> HIDE DEF i
  <2>5. dp = i
    BY <2>2, <2>3, <2>4, OneChoice
  <2> QED
    BY <2>5 DEF i
<1> QED
  BY FlowKept, ChoiceKept, <1>1, PTL
=============================================================================
