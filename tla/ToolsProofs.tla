----------------------------- MODULE ToolsProofs ----------------------------
(***************************************************************************)
(* What is proved of the parts of the engine beside the packet path: the   *)
(* capture loop of winws, the changes of the fake hellos, the start of the *)
(* listening proxy and the threads of mdig.                                *)
(***************************************************************************)
EXTENDS CaptureLoop, TlsFakes, ProxyListen, NameLookups, SequenceTheorems, FiniteSetTheorems, TLAPS

-----------------------------------------------------------------------------
(***************************************************************************)
(* winws takes packets only where its network filters allow it, for all    *)
(* names, any number of seconds and any number of packets.                 *)
(***************************************************************************)
LoopSpec == LoopInit /\ [][LoopNext]_loop

\* What the loop knows about the networks depends on the place it is at and on
\* whether it was seen in this second: when it has just seen a network, that
\* one was there now; a second that has just begun may leave it one or two
\* seconds behind.
Fresh ==
  /\ lpc \in {"open", "pending"} => (polled => clock <= lastHere) /\ clock <= lastHere + 1
  /\ lpc = "receive" => (polled => clock <= lastHere + 1) /\ clock <= lastHere + 2
LoopInv ==
  /\ clock \in Int /\ tick \in Int /\ lastHere \in Int /\ took.at \in Int
  /\ tick <= clock /\ lastHere <= clock
  /\ Match => lastHere = clock
  /\ took.at <= lastHere + 1
  /\ handle => lpc \in {"receive", "pending"}
  /\ Fresh
  /\ lpc \in {"open", "receive", "pending"} /\ tick = clock => lastHere = clock

\* The loop starts before it has asked for any network.
LEMMA LoopInitial == LoopInit => LoopInv
<1>1. LoopInit /\ Match => LoopInv
  BY DEF LoopInit, LoopInv, Fresh
<1>2. LoopInit /\ ~Match => LoopInv
  BY DEF LoopInit, LoopInv, Fresh
<1> QED
  BY <1>1, <1>2

\* What a filter admits depends on the filters and the world only.
LEMMA SameMatch ==
  ASSUME SameFilters, UNCHANGED <<wlan, nets, answers>> PROVE Match' = Match
BY DEF SameFilters, Match, WlanFilterMatch, NlmFilterMatch

\* When the rate limited question is answered with yes, the network is there.
LEMMA Asked ==
  ASSUME LoopInv, lpc \in {"receive", "pending"}, RateLimited(TRUE) PROVE lastHere = clock
BY DEF LoopInv, RateLimited, AskedNet

\* Every step of the loop, of the clock and of the networks keeps the invariant.
LEMMA LoopStep == ASSUME LoopInv, [LoopNext]_loop PROVE LoopInv'
<1> USE DEF LoopInv, Fresh
<1>1. CASE CheckNetwork
  BY <1>1, SameMatch DEF CheckNetwork, SameFilters, SameWorld, Ended
<1>2. ASSUME NEW ok \in BOOLEAN, Open(ok) PROVE LoopInv'
  BY <1>2, SameMatch DEF Open, SameFilters, SameWorld, Ended
<1>3. CASE Receive
  <2>1. CASE quit
    BY <1>3, <2>1, SameMatch DEF Receive, SameFilters, SameWorld, Ended
  <2>2. CASE ~quit /\ RateLimited(TRUE)
    <3>1. lastHere = clock
      BY <1>3, <2>2, Asked DEF Receive
    <3> QED
      BY <1>3, <2>2, <3>1, SameMatch DEF Receive, RateLimited, SameFilters, SameWorld
  <2>3. CASE ~quit /\ RateLimited(FALSE)
    BY <1>3, <2>3, SameMatch DEF Receive, RateLimited, SameFilters, SameWorld
  <2> QED
    BY <1>3, <2>1, <2>2, <2>3 DEF Receive
<1>4. CASE TooLarge
  <2>1. CASE lpc = "receive"
    <3>1. lastHere = clock
      BY <1>4, <2>1, Asked DEF TooLarge, AskedAgain
    <3> QED
      BY <1>4, <2>1, <3>1, SameMatch DEF TooLarge, AskedAgain, RateLimited, SameFilters, SameWorld
  <2>2. CASE lpc = "pending"
    BY <1>4, <2>2, SameMatch DEF TooLarge, AskedAgain, SameFilters, SameWorld
  <2> QED
    BY <1>4, <2>1, <2>2 DEF TooLarge
<1>5. CASE ReceiveFails
  BY <1>5, SameMatch DEF ReceiveFails, AskedAgain, RateLimited, SameFilters, SameWorld, Ended
<1>6. CASE Woken
  BY <1>6, SameMatch DEF Woken, SameFilters, SameWorld
<1>7. CASE Poll
  <2>1. CASE quit
    BY <1>7, <2>1, SameMatch DEF Poll, SameFilters, SameWorld, Ended
  <2>2. CASE ~quit /\ RateLimited(TRUE)
    <3>1. lastHere = clock
      BY <1>7, <2>2, Asked DEF Poll
    <3> QED
      BY <1>7, <2>2, <3>1, SameMatch DEF Poll, RateLimited, SameFilters, SameWorld
  <2>3. CASE ~quit /\ RateLimited(FALSE)
    BY <1>7, <2>3, SameMatch DEF Poll, RateLimited, SameFilters, SameWorld
  <2> QED
    BY <1>7, <2>1, <2>2, <2>3 DEF Poll
<1>8. CASE Second
  <2>1. Match' = Match
    BY <1>8, SameMatch DEF Second
  <2>2. lpc' \in {"open", "pending", "receive"} => ~polled'
    BY <1>8 DEF Second
  <2> QED
    BY <1>8, <2>1, <2>2 DEF Second, SameFilters
<1>9. CASE Arrives
  BY <1>9, SameMatch DEF Arrives, SameFilters, SameWorld
<1>10. CASE Quit
  BY <1>10, SameMatch DEF Quit, SameFilters
<1>11. ASSUME NEW w \in SUBSET Ssids, NEW n \in SUBSET Nets, NEW a \in BOOLEAN, Networks(w, n, a)
       PROVE LoopInv'
  <2>1. Match' = Here(w, n, a)
    BY <1>11 DEF Networks, SameFilters, Match, WlanFilterMatch, NlmFilterMatch, Here
  <2> QED
    BY <1>11, <2>1 DEF Networks, SameFilters
<1>12. CASE UNCHANGED loop
  BY <1>12 DEF loop, Match, WlanFilterMatch, NlmFilterMatch
<1> QED
  BY <1>1, <1>2, <1>3, <1>4, <1>5, <1>6, <1>7, <1>8, <1>9, <1>10, <1>11, <1>12 DEF LoopNext

\* A packet is taken at most one second after the last in which a network of
\* the filters was there, and the driver is not held open longer
\* (logical_net_filter_match_rate_limited).
THEOREM TakesOnlyOnNetwork == LoopSpec => []OnlyOnNetwork
<1>1. LoopInv => OnlyOnNetwork
  BY DEF LoopInv, Fresh, OnlyOnNetwork
<1> QED
  BY LoopInitial, LoopStep, <1>1, PTL DEF LoopSpec

-----------------------------------------------------------------------------
(***************************************************************************)
(* The changes of --dpi-desync-fake-tls-mod always have the room they need, *)
(* and the lengths written in a hello follow its size, for every hello.    *)
(***************************************************************************)
\* A hello as parse_tlsmod_list and load_file leave it: a record with at least
\* these fields.
Fields == {"size", "ofs", "buf", "hello", "exts", "sni", "pad", "rec", "hs", "ext", "mods", "name"}
IsHello(b) == /\ b = [x \in DOMAIN b |-> b[x]] /\ Fields \subseteq DOMAIN b
              /\ LoadedHello(b)

\* Lengths that agree with the size as those of b do.
LengthsFollow(b, r) ==
  /\ r.rec - b.rec = r.size - b.size
  /\ r.hs - b.hs = r.size - b.size
  /\ r.ext - b.ext = r.size - b.size

\* Putting bytes in, or taking them out, moves all lengths alike.
LEMMA GrownFields ==
  ASSUME NEW b, IsHello(b), NEW n \in Int
  PROVE  LET r == Grown(b, n)
         IN /\ r.size = b.size + n /\ r.rec = b.rec + n /\ r.hs = b.hs + n /\ r.ext = b.ext + n
            /\ r.buf = b.buf /\ r.pad = b.pad /\ r.mods = b.mods /\ r.sni = b.sni
            /\ r = [x \in DOMAIN b |-> r[x]] /\ DOMAIN r = DOMAIN b
  BY DEF Grown, IsHello, Fields, LoadedHello
\* A new server name adds at most what the name field can hold.
LEMMA NameFields ==
  ASSUME NEW b, IsHello(b)
  PROVE  LET r == NewName(b)
         IN /\ LengthsFollow(b, r)
            /\ r.size \in Int /\ r.size <= b.size + SniBuffer - 1
            /\ {r.rec, r.hs, r.ext} \subseteq Int
            /\ r.buf = b.buf /\ r.pad = b.pad /\ r.mods = b.mods
            /\ r = [x \in DOMAIN b |-> r[x]] /\ DOMAIN r = DOMAIN b
  <1> DEFINE g == Grown(b, b.name - b.sni)
             r == NewName(b)
  <1>1. b.name - b.sni \in Int /\ b.name - b.sni <= SniBuffer - 1
    BY BufferAssumption DEF IsHello, LoadedHello
  <1>2. CASE "sni" \in b.mods
    <2>1. r = [g EXCEPT !.sni = b.name]
      BY <1>2 DEF NewName
    <2>2. /\ g.size = b.size + (b.name - b.sni) /\ g.rec = b.rec + (b.name - b.sni)
          /\ g.hs = b.hs + (b.name - b.sni) /\ g.ext = b.ext + (b.name - b.sni)
          /\ g.buf = b.buf /\ g.pad = b.pad /\ g.mods = b.mods
          /\ g = [x \in DOMAIN b |-> g[x]] /\ DOMAIN g = DOMAIN b
      BY <1>1, GrownFields
    <2> HIDE DEF g, r
    <2>3. /\ r.size = g.size /\ r.rec = g.rec /\ r.hs = g.hs /\ r.ext = g.ext
          /\ r.buf = g.buf /\ r.pad = g.pad /\ r.mods = g.mods
          /\ DOMAIN r = DOMAIN b /\ r = [x \in DOMAIN b |-> r[x]]
      BY <2>1, <2>2 DEF IsHello, Fields
    <2>4. {b.size, b.rec, b.hs, b.ext} \subseteq Int
      BY DEF IsHello, LoadedHello
    <2> DEFINE n == b.name - b.sni
    <2>5. /\ r.size = b.size + n /\ r.rec = b.rec + n /\ r.hs = b.hs + n /\ r.ext = b.ext + n
      BY <2>2, <2>3
    <2>6. n \in Int /\ n <= SniBuffer - 1 /\ SniBuffer \in Int
      BY <1>1, BufferAssumption
    <2> HIDE DEF n
    <2>7. LengthsFollow(b, r)
      BY <2>4, <2>5, <2>6 DEF LengthsFollow
    <2> QED
      BY <2>2, <2>3, <2>4, <2>5, <2>6, <2>7 DEF r
  <1>3. CASE "sni" \notin b.mods
    BY <1>3, BufferAssumption DEF NewName, LengthsFollow, IsHello, LoadedHello
  <1> QED
    BY <1>2, <1>3

\* The room a loaded hello is given is enough for the name and the padding
\* together: onetime_tls_mod_blob never has to refuse for want of room, and
\* what it writes stays within the buffer.
THEOREM RoomIsEnough ==
  ASSUME NEW b, IsHello(b)
  PROVE  RoomForName(b) /\ RoomForPad(NewName(b)) /\ BlobMod(b).size <= b.buf
  <1> DEFINE c == NewName(b)
  <1>1. /\ c.size \in Int /\ c.size <= b.size + SniBuffer - 1 /\ c.buf = b.buf
        /\ {c.rec, c.hs, c.ext} \subseteq Int
        /\ c = [x \in DOMAIN b |-> c[x]] /\ DOMAIN c = DOMAIN b
    BY NameFields
  <1>2. RoomForName(b)
    BY BufferAssumption DEF RoomForName, IsHello, LoadedHello, TlsReserve
  <1>3. RoomForPad(c)
    BY <1>1, BufferAssumption DEF RoomForPad, IsHello, LoadedHello, TlsReserve
  <1> HIDE DEF c
  <1>4. Padded(c).size \in {c.size, c.size + 4}
    BY <1>1 DEF Padded, Grown, IsHello, Fields
  <1> QED
    BY <1>1, <1>2, <1>3, <1>4, BufferAssumption
    DEF BlobMod, IsHello, LoadedHello, TlsReserve, c

\* Whatever is put in or taken out, the lengths of the record, the handshake
\* and the extensions move with the size (onetime_tls_mod_blob).
THEOREM LengthsStayTrue ==
  ASSUME NEW b, IsHello(b) PROVE LengthsFollow(b, BlobMod(b))
  <1> DEFINE c == NewName(b)
  <1>1. /\ LengthsFollow(b, c) /\ c.size \in Int /\ {c.rec, c.hs, c.ext} \subseteq Int
        /\ c = [x \in DOMAIN b |-> c[x]] /\ DOMAIN c = DOMAIN b
    BY NameFields
  <1> HIDE DEF c
  <1>2. LengthsFollow(c, Padded(c))
    BY <1>1 DEF Padded, Grown, LengthsFollow, IsHello, Fields
  <1>3. {Padded(c).size, Padded(c).rec, Padded(c).hs, Padded(c).ext} \subseteq Int
    BY <1>1 DEF Padded, Grown, IsHello, Fields
  <1>4. {b.size, b.rec, b.hs, b.ext} \subseteq Int
    BY DEF IsHello, LoadedHello
  <1>5. BlobMod(b) = Padded(c)
    BY DEF BlobMod, c
  <1> QED
    BY <1>1, <1>2, <1>3, <1>4, <1>5 DEF LengthsFollow

-----------------------------------------------------------------------------
(***************************************************************************)
(* tpws listens where it was asked to and waits no longer than it was      *)
(* allowed to, for any binds, interfaces and addresses, whatever comes and *)
(* goes while it waits.                                                    *)
(***************************************************************************)
ListenSpec == ListenInit /\ [][ListenNext]_listen

-----------------------------------------------------------------------------
(***************************************************************************)
(* find_listen_addr chooses what suits the bind.                           *)
(***************************************************************************)
\* The first of a few things that is there.
LEMMA FirstOf ==
  ASSUME NEW S, S \subseteq 1..3, S # {} PROVE Min(S) \in S /\ \A i \in S : Min(S) <= i
<1>1. \E x \in S : \A y \in S : x <= y
  <2>1. CASE 1 \in S
    BY <2>1
  <2>2. CASE 1 \notin S /\ 2 \in S
    BY <2>2
  <2>3. CASE 1 \notin S /\ 2 \notin S
    <3>1. \A y \in S : y = 3
      BY <2>3
    <3>2. 3 \in S
      BY <3>1
    <3> QED
      BY <3>1, <3>2
  <2> QED
    BY <2>1, <2>2, <2>3
<1> QED
  BY <1>1 DEF Min

\* The answer of the passes: of the first one with an address.
LEMMA PassOf ==
  ASSUME NEW b \in Binds, NEW ll \in {"unwanted", "no", "prefer", "force"},
         present \subseteq Addresses,
         NEW a \in FindListenAddr(b, ll), a.kind # "v4"
  PROVE  LET c == [b EXCEPT !.ll = ll]
         IN /\ a \in V6(c)
            /\ \E i \in DOMAIN Passes(ll) :
                 /\ a.kind \in Passes(ll)[i]
                 /\ \A j \in DOMAIN Passes(ll) : j < i => \A x \in V6(c) : x.kind \notin Passes(ll)[j]
<1> DEFINE c == [b EXCEPT !.ll = ll]
           pass(i) == {x \in V6(c) : x.kind \in Passes(ll)[i]}
           some == {i \in DOMAIN Passes(ll) : pass(i) # {}}
<1>1. a \notin V4(c)
  BY DEF V4
<1>2. some # {} /\ a \in pass(Min(some))
  BY <1>1 DEF FindListenAddr
<1>3. some \subseteq 1..3
  BY DEF Passes
<1>4. Min(some) \in some /\ \A i \in some : Min(some) <= i
  BY <1>2, <1>3, FirstOf
<1>5. \A j \in DOMAIN Passes(ll) : j < Min(some) => pass(j) = {}
  BY <1>3, <1>4
<1> QED
  BY <1>2, <1>4, <1>5

\* For the first seconds a preference is a demand.
LEMMA DemandOf ==
  ASSUME NEW b \in Binds, NEW s \in Nat
  PROVE  LET ll == Bindll(b, s)
         IN /\ ll \in {"unwanted", "no", "prefer", "force"}
            /\ b.ll \in {"no", "force"} => ll = b.ll
            /\ b.ll = "prefer" => ll = "force" \/ (ll = "prefer" /\ s >= b.ipll)
            /\ b.ll = "unwanted" => ll = "no" \/ (ll = "unwanted" /\ s >= b.ipll)
            /\ ll = "prefer" => b.ll = "prefer"
            /\ ll = "unwanted" => b.ll = "unwanted"
BY DEF Bindll, Binds

\* The address chosen is of the interface and the family asked for, and of the
\* best kind that the bind accepts at this second.
LEMMA FoundSuits ==
  ASSUME NEW b \in Binds, b.addr = "none", b.iface # "none" \/ b.ll # "unwanted",
         present \subseteq Addresses, NEW s \in Nat, NEW a \in FindListenAddr(b, Bindll(b, s)), NEW n
  PROVE  Suits(b, [addr |-> a, left |-> n, sec |-> s, seen |-> present])
<1> DEFINE ll == Bindll(b, s)
           c == [b EXCEPT !.ll = ll]
           e == [addr |-> a, left |-> n, sec |-> s, seen |-> present]
<1>0. ll \in {"unwanted", "no", "prefer", "force"}
  BY DemandOf
<1>1. c.iface = b.iface /\ c.v6 = b.v6 /\ c.ll = ll
  BY DEF Binds
<1>2. e.addr = a /\ e.sec = s /\ e.seen = present
  OBVIOUS
<1>3. a \in present /\ a \in Addresses
  BY DEF FindListenAddr, V4, V6
<1> HIDE DEF ll, c, e
<1>4. CASE a.kind = "v4"
  <2>1. a \notin V6(c)
    BY <1>4 DEF V6
  <2>2. a \in V4(c)
    BY <2>1 DEF FindListenAddr, c, ll
  <2>3. a.iface = b.iface /\ ~b.v6 /\ a.iface \in Ifaces
    BY <2>2, <1>1, <1>3 DEF V4, Addresses
  <2>4. b.iface # "none"
    BY <2>3, ListenAssumption
  <2> QED
    BY <1>2, <1>3, <1>4, <2>3, <2>4 DEF Suits, e
<1>5. CASE a.kind # "v4"
  <2>1. /\ a \in V6(c)
        /\ \E i \in DOMAIN Passes(ll) :
             /\ a.kind \in Passes(ll)[i]
             /\ \A j \in DOMAIN Passes(ll) : j < i => \A x \in V6(c) : x.kind \notin Passes(ll)[j]
    BY <1>0, <1>5, PassOf DEF c, ll
  <2>2. /\ b.iface # "none" => b.v6 /\ a.iface = b.iface
        /\ V6(c) = Rivals(b, e)
    BY <1>1, <1>2, <2>1 DEF V6, Rivals
  <2>3. /\ ll = "force" => a.kind = "ll"
        /\ ll = "no" => a.kind # "ll" /\ (a.kind = "global" => \A x \in V6(c) : x.kind # "private")
    BY <2>1, <1>5 DEF Passes
  <2>4. /\ ll = "prefer" =>
             /\ a.kind # "ll" => \A x \in V6(c) : x.kind # "ll"
             /\ a.kind = "global" => \A x \in V6(c) : x.kind # "private"
    BY <2>1, <1>3, <1>5 DEF Passes, Kinds
  <2>5. /\ ll = "unwanted" =>
             /\ a.kind = "ll" => \A x \in V6(c) : x.kind \notin {"private", "global"}
             /\ a.kind = "global" => \A x \in V6(c) : x.kind # "private"
    BY <2>1, <1>3, <1>5 DEF Passes, Kinds
  <2>6. a.kind = "global" => "private" \notin {x.kind : x \in Rivals(b, e)}
    BY <1>0, <2>2, <2>3, <2>4, <2>5
  <2>7. b.ll = "force" => a.kind = "ll"
    BY <2>3, DemandOf DEF ll
  <2>8. b.ll = "no" => a.kind # "ll"
    BY <2>3, DemandOf DEF ll
  <2>9. b.ll = "prefer" /\ a.kind # "ll" =>
          e.sec >= b.ipll /\ "ll" \notin {x.kind : x \in Rivals(b, e)}
    BY <1>2, <2>2, <2>3, <2>4, DemandOf DEF ll
  <2>10. b.ll = "unwanted" /\ a.kind = "ll" =>
           e.sec >= b.ipll /\ {x.kind : x \in Rivals(b, e)} \cap {"private", "global"} = {}
    BY <1>2, <2>2, <2>3, <2>5, DemandOf DEF ll
  <2>11. ~(b.iface = "none" /\ b.ll = "unwanted") /\ b.addr = "none"
    OBVIOUS
  <2> QED
    BY <1>2, <1>3, <1>5, <2>2, <2>6, <2>7, <2>8, <2>9, <2>10, <2>11 DEF Suits, e
<1> QED
  BY <1>4, <1>5 DEF e
-----------------------------------------------------------------------------
(***************************************************************************)
(* The inductive invariant: the seconds waited so far for the bind at hand *)
(* and those it may still wait fit in its limits, and every bind prepared  *)
(* suits its request.                                                      *)
(***************************************************************************)
Entries == [addr : Addresses \cup {Anywhere} \cup [iface : {"given"}, kind : STRING],
            left : Nat, sec : Nat, seen : SUBSET Addresses]
Places == {"prepare", "ifup", "index", "search"}
Limit(i) == request[i].ifup + request[i].ip

ListenTypes ==
  /\ request \in Seq(Binds) /\ request # <<>>
  /\ at \in 1..Len(request) /\ sec \in Nat
  /\ present \subseteq Addresses
  /\ waited \in [1..Len(request) -> Nat]
  /\ list \in Seq(Entries)
  /\ Len(list) <= Len(request)

WaitInv ==
  /\ stage \in Places => Len(list) = at - 1
  /\ stage = "bind" => Len(list) = Len(request)
  /\ stage \in Places => \A i \in (at + 1)..Len(request) : waited[i] = 0
  /\ stage = "prepare" => waited[at] = 0 /\ sec = 0
  /\ stage = "ifup" => waited[at] = sec /\ sec < request[at].ifup
  /\ stage = "index" => waited[at] <= request[at].ifup /\ sec = 0
  /\ stage = "search" =>
       /\ waited[at] <= request[at].ifup + sec /\ sec <= request[at].ip
       /\ request[at].addr = "none"
       /\ request[at].iface # "none" \/ request[at].ll # "unwanted"
  /\ \A i \in 1..Len(list) : waited[i] + list[i].left <= Limit(i)
  /\ \A i \in 1..Len(request) : waited[i] <= Limit(i)

SuitInv == \A i \in 1..Len(list) : Suits(request[i], list[i])

ListenInv == ListenTypes /\ WaitInv /\ SuitInv

\* Before the first bind nothing was waited for.
LEMMA ListenInitial == ListenInit => ListenInv
<1> SUFFICES ASSUME ListenInit PROVE ListenInv
  OBVIOUS
<1>1. request \in Seq(Binds) /\ request # <<>> /\ Len(request) \in Nat \ {0}
  BY ListenAssumption DEF ListenInit
<1>2. present \subseteq Addresses
  BY DEF ListenInit
<1>3. \A i \in 1..Len(request) : request[i].ifup \in Nat /\ request[i].ip \in Nat
  <2>1. \A i \in 1..Len(request) : request[i] \in Binds
    BY <1>1
  <2> QED
    BY <2>1 DEF Binds
<1>4. /\ waited = [i \in 1..Len(request) |-> 0] /\ list = <<>> /\ Len(list) = 0
      /\ stage = "prepare" /\ at = 1 /\ sec = 0 /\ 1 \in 1..Len(request)
  BY <1>1 DEF ListenInit
<1>5. ListenTypes
  <2>1. waited \in [1..Len(request) -> Nat]
    BY <1>4
  <2>2. list \in Seq(Entries)
    BY <1>4
  <2> QED
    BY <1>1, <1>2, <1>4, <2>1, <2>2 DEF ListenTypes
<1>6. WaitInv
  BY <1>1, <1>3, <1>4 DEF WaitInv, Limit, Places
<1> QED
  BY <1>4, <1>5, <1>6 DEF ListenInv, SuitInv

\* The limits of the bind at hand are numbers.
LEMMA BindTyped ==
  ASSUME ListenTypes
  PROVE  /\ Bind \in Binds /\ Bind.ifup \in Nat /\ Bind.ip \in Nat /\ Bind.ipll \in Nat
         /\ \A i \in 1..Len(request) : request[i].ifup \in Nat /\ request[i].ip \in Nat
<1>1. \A i \in 1..Len(request) : request[i] \in Binds
  BY DEF ListenTypes
<1>2. \A b \in Binds : b.ifup \in Nat /\ b.ip \in Nat /\ b.ipll \in Nat
  BY DEF Binds
<1>3. at \in 1..Len(request)
  BY DEF ListenTypes
<1> QED
  BY <1>1, <1>2, <1>3 DEF Bind
\* What is known of the binds and of the addresses prepared carries over.
LEMMA PreparedKept ==
  ASSUME ListenTypes, Options
  PROVE  \A i \in 1..Len(request) : request'[i] = request[i] /\ Limit(i)' = Limit(i)
BY DEF Options, Limit

\* A choice ends the preparation of a bind.
LEMMA ChosenStep ==
  ASSUME ListenInv, stage \in {"index", "search"}, Options, World, UNCHANGED waited,
         NEW a \in Addresses \cup {Anywhere} \cup [iface : {"given"}, kind : STRING],
         NEW n \in Nat, Chosen(a, n), waited[at] + n <= Limit(at),
         Suits(Bind, [addr |-> a, left |-> n, sec |-> sec, seen |-> present])
  PROVE  ListenInv'
<1> DEFINE e == [addr |-> a, left |-> n, sec |-> sec, seen |-> present]
<1>1. ListenTypes /\ WaitInv /\ SuitInv
  BY DEF ListenInv
<1>2. e \in Entries /\ list \in Seq(Entries) /\ list' = Append(list, e)
  BY <1>1 DEF ListenTypes, Chosen, Entries
<1>3. /\ Len(list) = at - 1 /\ at \in 1..Len(request) /\ Len(request) \in Nat
      /\ request' = request /\ waited' = waited
  BY <1>1 DEF WaitInv, ListenTypes, Places, Options
<1>4. e.left = n
  OBVIOUS
<1> HIDE DEF e
<1>5. /\ list' \in Seq(Entries) /\ Len(list') = at
      /\ \A i \in 1..(at - 1) : list'[i] = list[i]
      /\ list'[at] = e
  BY <1>2, <1>3
<1>6. \/ at < Len(request) /\ at' = at + 1 /\ stage' = "prepare"
      \/ at = Len(request) /\ stage' = "done" /\ at' = at
      \/ at = Len(request) /\ stage' = "bind" /\ at' = 1
  BY <1>3 DEF Chosen
<1>7. ListenTypes'
  BY <1>1, <1>3, <1>5, <1>6 DEF ListenTypes, World, Chosen
<1>8. \A i \in 1..Len(list') : waited'[i] + list'[i].left <= Limit(i)'
  <2>1. \A i \in 1..Len(list') : Limit(i)' = Limit(i)
    BY <1>1, <1>3, <1>5, PreparedKept
  <2>2. \A i \in 1..(at - 1) : waited[i] + list[i].left <= Limit(i)
    BY <1>1, <1>3 DEF WaitInv
  <2>3. \A i \in 1..at : i = at \/ i \in 1..(at - 1)
    BY <1>3
  <2> QED
    BY <1>3, <1>4, <1>5, <2>1, <2>2, <2>3
<1>9. \A i \in 1..Len(list') : Suits(request'[i], list'[i])
  <2>1. \A i \in 1..at : i = at \/ i \in 1..(at - 1)
    BY <1>3
  <2>2. \A i \in 1..(at - 1) : Suits(request[i], list[i])
    BY <1>1, <1>3 DEF SuitInv
  <2> QED
    BY <1>3, <1>5, <2>1, <2>2 DEF Bind, e
<1>10. WaitInv'
  <2>1. \A i \in 1..Len(request') : waited'[i] <= Limit(i)'
    BY <1>1, <1>3, PreparedKept DEF WaitInv
  <2>2. \A i \in (at + 1)..Len(request) : waited[i] = 0
    BY <1>1 DEF WaitInv, Places
  <2>3. stage' \in Places => at' = at + 1 /\ at' \in (at + 1)..Len(request) /\ stage' = "prepare"
    BY <1>3, <1>6 DEF Places
  <2>4. stage' \in Places => Len(list') = at' - 1
    BY <1>3, <1>5, <2>3
  <2>5. stage' \in Places => \A i \in (at' + 1)..Len(request') : waited'[i] = 0
    BY <1>3, <2>2, <2>3
  <2>6. stage' = "prepare" => waited'[at'] = 0 /\ sec' = 0
    BY <1>3, <2>2, <2>3 DEF Chosen, Places
  <2>7. stage' = "bind" => Len(list') = Len(request')
    BY <1>3, <1>5, <1>6
  <2>8. stage' \notin {"ifup", "index", "search"}
    BY <1>6
  <2> QED
    BY <1>8, <2>1, <2>4, <2>5, <2>6, <2>7, <2>8 DEF WaitInv
<1> QED
  BY <1>7, <1>9, <1>10 DEF ListenInv, SuitInv
\* A step that keeps what is prepared keeps its part of the invariant.
LEMMA SuitsKept ==
  ASSUME ListenInv, Options, Len(list') = Len(list),
         \A i \in 1..Len(list) : \A b \in Binds :
           Suits(b, list'[i]) <=> Suits(b, list[i])
  PROVE  SuitInv'
<1>1. \A i \in 1..Len(list) : i \in 1..Len(request) /\ request[i] \in Binds
  BY DEF ListenInv, ListenTypes
<1> QED
  BY <1>1 DEF ListenInv, SuitInv, Options

\* A second more of waiting.
LEMMA SleepStep ==
  ASSUME ListenTypes, Options, Sleep
  PROVE  /\ waited' \in [1..Len(request') -> Nat] /\ waited'[at] = waited[at] + 1
         /\ \A i \in 1..Len(request) : i # at => waited'[i] = waited[i]
BY DEF ListenTypes, Options, Sleep

\* Taking up the next bind (is_interface_online of main) keeps the invariant.
LEMMA PrepareStep == ASSUME ListenInv, Prepare PROVE ListenInv'
<1>1. ListenTypes /\ WaitInv /\ Options /\ World /\ UNCHANGED <<list, waited, at, sec>>
  BY DEF ListenInv, Prepare, Stay
<1>2. ListenTypes'
  BY <1>1 DEF ListenTypes, Options, World
<1>3. /\ stage = "prepare"
      /\ \/ stage' = "ifup" /\ request[at].ifup > 0
         \/ stage' = "index"
  BY DEF Prepare, Bind
<1>4. WaitInv'
  <2>1. \A i \in 1..Len(request) : request[i].ifup \in Nat /\ request[i].ip \in Nat
    BY <1>1, BindTyped
  <2>2. waited[at] = 0 /\ sec = 0 /\ request[at].ifup \in Nat /\ Len(list) = at - 1
    BY <1>1, <1>3, <2>1 DEF WaitInv, Places, ListenTypes
  <2>3. stage' = "index" => waited[at] <= request[at].ifup
    BY <2>2
  <2>4. stage' = "ifup" => waited[at] = sec /\ sec < request[at].ifup
    BY <1>3, <2>2
  <2> QED
    BY <1>1, <1>3, <2>2, <2>3, <2>4 DEF WaitInv, Places, Options, Limit
<1>5. SuitInv'
  BY <1>1, SuitsKept
<1> QED
  BY <1>2, <1>4, <1>5 DEF ListenInv

\* A second of waiting for the interface, or its end, keeps the invariant.
LEMMA WaitIfupStep == ASSUME ListenInv, WaitIfup PROVE ListenInv'
<1>1. /\ ListenTypes /\ WaitInv /\ Options /\ World /\ Sleep /\ UNCHANGED list
      /\ stage = "ifup" /\ Bind = request[at]
  BY DEF ListenInv, WaitIfup, Bind
<1>2. /\ waited' \in [1..Len(request') -> Nat] /\ waited'[at] = waited[at] + 1
      /\ \A i \in 1..Len(request) : i # at => waited'[i] = waited[i]
  BY <1>1, SleepStep
<1>3. /\ at' = at
      /\ \/ stage' = "failed" /\ sec' = sec
         \/ stage' = "index" /\ sec' = 0
         \/ stage' = "ifup" /\ sec' = sec + 1 /\ sec + 1 < request[at].ifup
  BY <1>1, BindTyped DEF WaitIfup, Fail, ListenTypes
<1>4. ListenTypes'
  BY <1>1, <1>2, <1>3 DEF ListenTypes, Options, World
<1>5. \A i \in 1..Len(request) : request[i].ifup \in Nat /\ request[i].ip \in Nat
  BY <1>1, BindTyped
<1>6. /\ waited[at] = sec /\ sec < request[at].ifup /\ at \in 1..Len(request)
      /\ Len(list) = at - 1 /\ sec \in Nat /\ Len(request) \in Nat
  BY <1>1 DEF WaitInv, Places, ListenTypes
<1>7. waited'[at] <= request[at].ifup /\ waited'[at] <= Limit(at)
  BY <1>2, <1>5, <1>6 DEF Limit
<1>8. \A i \in 1..Len(request) : waited'[i] <= Limit(i)
  BY <1>1, <1>2, <1>7 DEF WaitInv
<1>9. \A i \in 1..Len(list) : i # at /\ i \in 1..Len(request)
  BY <1>6
<1>10. /\ \A i \in 1..Len(list) : waited'[i] + list[i].left <= Limit(i)
       /\ \A i \in (at + 1)..Len(request) : waited'[i] = 0
  BY <1>1, <1>2, <1>6, <1>9 DEF WaitInv, Places
<1>11. WaitInv'
  BY <1>1, <1>2, <1>3, <1>6, <1>7, <1>8, <1>10 DEF WaitInv, Places, Options, Limit
<1>12. SuitInv'
  BY <1>1, SuitsKept
<1> QED
  BY <1>4, <1>11, <1>12 DEF ListenInv

\* What is decided once the interface is there keeps the invariant.
LEMMA IndexStep == ASSUME ListenInv, Index PROVE ListenInv'
<1>1. /\ ListenTypes /\ WaitInv /\ Options /\ World /\ stage = "index" /\ sec = 0
      /\ Bind = request[at] /\ Bind \in Binds /\ Bind.ip \in Nat /\ Bind.ifup \in Nat
      /\ waited[at] <= Bind.ifup /\ waited[at] + Bind.ip <= Limit(at)
  <2>1. ListenTypes /\ WaitInv /\ Options /\ World /\ stage = "index" /\ Bind = request[at]
    BY DEF ListenInv, Index, Bind
  <2>2. sec = 0 /\ waited[at] <= Bind.ifup /\ waited[at] \in Nat
    BY <2>1 DEF WaitInv, ListenTypes
  <2> QED
    BY <2>1, <2>2, BindTyped DEF Limit
<1>2. CASE Fail /\ Stay
  <2>1. ListenTypes'
    BY <1>1, <1>2 DEF ListenTypes, Options, World, Fail, Stay
  <2>2. WaitInv'
    BY <1>1, <1>2 DEF WaitInv, Places, Options, Limit, Fail, Stay
  <2> QED
    BY <1>1, <1>2, <2>1, <2>2, SuitsKept DEF ListenInv, Stay
<1>3. CASE Bind.addr # "none" /\ Chosen([iface |-> "given", kind |-> Bind.addr], Bind.ip)
           /\ UNCHANGED waited
  <2> DEFINE a == [iface |-> "given", kind |-> Bind.addr]
             e == [addr |-> a, left |-> Bind.ip, sec |-> sec, seen |-> present]
  <2>1. Bind.addr \in STRING
    BY <1>1 DEF Binds
  <2>2. a \in [iface : {"given"}, kind : STRING]
    BY <2>1
  <2>3. Suits(Bind, e)
    BY <1>3 DEF Suits
  <2> HIDE DEF a, e
  <2> QED
    BY <1>1, <1>3, <2>2, <2>3, ChosenStep DEF a, e
<1>4. CASE Bind.addr = "none" /\ Bind.iface = "none" /\ Bind.ll = "unwanted"
           /\ Chosen(Anywhere, Bind.ip) /\ UNCHANGED waited
  <2>1. Suits(Bind, [addr |-> Anywhere, left |-> Bind.ip, sec |-> sec, seen |-> present])
    BY <1>4 DEF Suits
  <2> QED
    BY <1>1, <1>4, <2>1, ChosenStep
<1>5. CASE Bind.addr = "none" /\ (Bind.iface # "none" \/ Bind.ll # "unwanted")
           /\ stage' = "search" /\ Stay /\ UNCHANGED <<at, sec>>
  <2>1. ListenTypes'
    BY <1>1, <1>5 DEF ListenTypes, Options, World, Stay
  <2>2. WaitInv'
    BY <1>1, <1>5 DEF WaitInv, Places, Options, Limit, Stay
  <2> QED
    BY <1>1, <1>5, <2>1, <2>2, SuitsKept DEF ListenInv, Stay
<1>6. Bind.ll \in {"unwanted", "no", "prefer", "force"}
  BY <1>1 DEF Binds
<1> QED
  BY <1>2, <1>3, <1>4, <1>5, <1>6 DEF Index

\* One search for an address, or the second waited after it, keeps the invariant.
LEMMA SearchStep ==
  ASSUME ListenInv, NEW found \in BOOLEAN, SearchAddress(found) PROVE ListenInv'
<1>1. /\ ListenTypes /\ WaitInv /\ Options /\ World /\ stage = "search" /\ Bind = request[at]
      /\ at \in 1..Len(request) /\ present \subseteq Addresses /\ sec \in Nat
  BY DEF ListenInv, SearchAddress, Bind, ListenTypes
<1>2. /\ waited[at] <= Bind.ifup + sec /\ sec <= Bind.ip /\ waited[at] \in Nat
      /\ Bind.addr = "none" /\ (Bind.iface # "none" \/ Bind.ll # "unwanted")
      /\ Bind.ifup \in Nat /\ Bind.ip \in Nat /\ Bind \in Binds
      /\ Len(list) = at - 1 /\ \A i \in (at + 1)..Len(request) : waited[i] = 0
  BY <1>1, BindTyped DEF WaitInv, ListenTypes, Places
<1>3. ASSUME NEW a \in FindListenAddr(Bind, Bindll(Bind, sec)), Chosen(a, Bind.ip - sec),
             UNCHANGED waited
      PROVE  ListenInv'
  <2>1. a \in Addresses
    BY <1>1 DEF FindListenAddr, V4, V6
  <2>2. Suits(Bind, [addr |-> a, left |-> Bind.ip - sec, sec |-> sec, seen |-> present])
    BY <1>1, <1>2, FoundSuits
  <2>3. Bind.ip - sec \in Nat
    BY <1>1, <1>2
  <2>4. Limit(at) = Bind.ifup + Bind.ip
    BY <1>1 DEF Limit
  <2>5. waited[at] + (Bind.ip - sec) <= Limit(at)
    <3>1. sec \in Nat /\ Bind.ifup \in Nat /\ Bind.ip \in Nat /\ waited[at] \in Nat
          /\ waited[at] <= Bind.ifup + sec
      BY <1>1, <1>2
    <3> QED
      BY <2>4, <3>1
  <2>6. PICK n : n = Bind.ip - sec
    OBVIOUS
  <2>7. /\ n \in Nat /\ Chosen(a, n) /\ waited[at] + n <= Limit(at)
        /\ Suits(Bind, [addr |-> a, left |-> n, sec |-> sec, seen |-> present])
    BY <1>3, <2>2, <2>3, <2>5, <2>6
  <2> QED
    BY <1>1, <1>3, <2>1, <2>7, ChosenStep
<1>4. CASE Fail /\ Stay
  <2>1. ListenTypes'
    BY <1>1, <1>4 DEF ListenTypes, Options, World, Fail, Stay
  <2>2. WaitInv'
    BY <1>1, <1>4 DEF WaitInv, Places, Options, Limit, Fail, Stay
  <2> QED
    BY <1>1, <1>4, <2>1, <2>2, SuitsKept DEF ListenInv, Stay
<1>5. CASE sec < Bind.ip /\ Sleep /\ sec' = sec + 1 /\ UNCHANGED <<stage, at, list>>
  <2>1. /\ waited' \in [1..Len(request') -> Nat] /\ waited'[at] = waited[at] + 1
        /\ \A i \in 1..Len(request) : i # at => waited'[i] = waited[i]
    BY <1>1, <1>5, SleepStep
  <2>2. ListenTypes'
    BY <1>1, <1>5, <2>1 DEF ListenTypes, Options, World
  <2>3. waited'[at] <= Bind.ifup + sec' /\ sec' <= Bind.ip /\ waited'[at] <= Limit(at)
    <3>1. Limit(at) = Bind.ifup + Bind.ip
      BY <1>1 DEF Limit
    <3>2. sec' = sec + 1 /\ sec < Bind.ip /\ waited'[at] = waited[at] + 1
      BY <1>5, <2>1
    <3> QED
      BY <1>1, <1>2, <3>1, <3>2
  <2>4. \A i \in 1..Len(request) : waited'[i] <= Limit(i)
    BY <1>1, <2>1, <2>3 DEF WaitInv
  <2>5. \A i \in 1..Len(list) : i # at /\ i \in 1..Len(request)
    BY <1>1, <1>2 DEF ListenTypes
  <2>6. /\ \A i \in 1..Len(list) : waited'[i] + list[i].left <= Limit(i)
        /\ \A i \in (at + 1)..Len(request) : waited'[i] = 0
    <3>1. \A i \in 1..Len(list) : waited'[i] = waited[i]
      BY <2>1, <2>5
    <3>2. \A i \in (at + 1)..Len(request) : waited'[i] = waited[i]
      BY <1>1, <2>1
    <3> QED
      BY <1>1, <1>2, <3>1, <3>2 DEF WaitInv
  <2>7. WaitInv'
    BY <1>1, <1>2, <1>5, <2>3, <2>4, <2>6 DEF WaitInv, Places, Options, Limit
  <2> QED
    BY <1>1, <1>5, <2>2, <2>7, SuitsKept DEF ListenInv
<1> QED
  BY <1>1, <1>2, <1>3, <1>4, <1>5 DEF SearchAddress

\* Binding to what was found, or a second waited to bind, keeps the invariant.
LEMMA BindStep ==
  ASSUME ListenInv, NEW outcome, BindTo(outcome) PROVE ListenInv'
<1>1. ListenTypes /\ WaitInv /\ Options /\ World /\ stage = "bind"
  BY DEF ListenInv, BindTo
<1>2. /\ Len(list) = Len(request) /\ at \in 1..Len(request) /\ Len(request) \in Nat
      /\ \A i \in 1..Len(list) : list[i] \in Entries /\ list[i].left \in Nat
  <2>1. /\ Len(list) = Len(request) /\ at \in 1..Len(request) /\ Len(request) \in Nat
        /\ list \in Seq(Entries)
    BY <1>1 DEF WaitInv, ListenTypes
  <2>2. \A i \in 1..Len(list) : list[i] \in Entries
    BY <2>1
  <2>3. \A x \in Entries : x.left \in Nat
    BY DEF Entries
  <2> QED
    BY <2>1, <2>2, <2>3
<1>3. CASE /\ Stay /\ UNCHANGED sec
           /\ \/ at < Len(request) /\ at' = at + 1 /\ UNCHANGED stage
              \/ stage' = "listening" /\ UNCHANGED at
  <2>1. ListenTypes'
    BY <1>1, <1>2, <1>3 DEF ListenTypes, Options, World, Stay
  <2>2. WaitInv'
    BY <1>1, <1>3 DEF WaitInv, Places, Options, Limit, Stay
  <2> QED
    BY <1>1, <1>3, <2>1, <2>2, SuitsKept DEF ListenInv, Stay
<1>4. CASE Fail /\ Stay
  <2>1. ListenTypes'
    BY <1>1, <1>4 DEF ListenTypes, Options, World, Fail, Stay
  <2>2. WaitInv'
    BY <1>1, <1>4 DEF WaitInv, Places, Options, Limit, Fail, Stay
  <2> QED
    BY <1>1, <1>4, <2>1, <2>2, SuitsKept DEF ListenInv, Stay
<1>5. CASE list[at].left # 0 /\ list' = [list EXCEPT ![at].left = @ - 1] /\ Sleep
           /\ UNCHANGED <<stage, at, sec>>
  <2>1. /\ waited' \in [1..Len(request') -> Nat] /\ waited'[at] = waited[at] + 1
        /\ \A i \in 1..Len(request) : i # at => waited'[i] = waited[i]
    BY <1>1, <1>5, SleepStep
  <2>2. list \in Seq(Entries) /\ list[at] \in Entries
    BY <1>1, <1>2 DEF ListenTypes
  <2>3. /\ [list[at] EXCEPT !.left = @ - 1] \in Entries
        /\ [list[at] EXCEPT !.left = @ - 1].left = list[at].left - 1
        /\ \A b : Suits(b, [list[at] EXCEPT !.left = @ - 1]) <=> Suits(b, list[at])
    <3>1. list[at].left - 1 \in Nat
      BY <1>2, <1>5, <2>2
    <3>2. LET r == [list[at] EXCEPT !.left = @ - 1]
          IN r.addr = list[at].addr /\ r.sec = list[at].sec /\ r.seen = list[at].seen
      BY <2>2
    <3>3. /\ [list[at] EXCEPT !.left = @ - 1] \in Entries
          /\ [list[at] EXCEPT !.left = @ - 1].left = list[at].left - 1
      BY <2>2, <3>1 DEF Entries
    <3>4. ASSUME NEW x, NEW y, x.addr = y.addr, x.sec = y.sec, x.seen = y.seen, NEW b
          PROVE  Suits(b, x) <=> Suits(b, y)
      BY <3>4 DEF Suits, Rivals
    <3> QED
      BY <3>2, <3>3, <3>4
  <2> DEFINE e == [list[at] EXCEPT !.left = @ - 1]
  <2>4. /\ list' = [list EXCEPT ![at] = e] /\ e \in Entries /\ e.left = list[at].left - 1
        /\ \A b : Suits(b, e) <=> Suits(b, list[at])
    BY <1>5, <2>3
  <2> HIDE DEF e
  <2>5. /\ list' \in Seq(Entries) /\ Len(list') = Len(list) /\ list'[at] = e
        /\ \A i \in 1..Len(list) : i # at => list'[i] = list[i]
    BY <1>2, <2>2, <2>4
  <2>6. ListenTypes'
    BY <1>1, <1>5, <2>1, <2>5 DEF ListenTypes, Options, World
  <2>7. \A i \in 1..Len(list) : waited'[i] + list'[i].left <= Limit(i)
    <3>1. \A i \in 1..Len(list) : waited[i] + list[i].left <= Limit(i)
      BY <1>1 DEF WaitInv
    <3>2. waited \in [1..Len(request) -> Nat]
      BY <1>1 DEF ListenTypes
    <3>3. waited'[at] + list'[at].left = waited[at] + list[at].left
      <4>1. waited[at] \in Nat /\ list[at].left \in Nat
        BY <1>2, <3>2
      <4> QED
        BY <2>1, <2>4, <2>5, <4>1
    <3> QED
      BY <1>2, <2>1, <2>5, <3>1, <3>3
  <2>8. \A i \in 1..Len(request) : waited'[i] <= Limit(i)
    <3>1. \A i \in 1..Len(request) : Limit(i) \in Nat
      BY <1>1, BindTyped DEF Limit
    <3>2. \A i \in 1..Len(list) : list'[i].left \in Nat
      BY <1>2, <2>5, <2>2, <2>4 DEF Entries
    <3>3. \A i \in 1..Len(request) : waited'[i] \in Nat
      BY <1>1, <2>1 DEF Options
    <3> TAKE i \in 1..Len(request)
    <3>4. /\ waited'[i] + list'[i].left <= Limit(i)
          /\ Limit(i) \in Nat /\ list'[i].left \in Nat /\ waited'[i] \in Nat
      BY <1>2, <2>7, <3>1, <3>2, <3>3
    <3> QED
      BY <3>4
  <2>9. WaitInv'
    BY <1>1, <1>2, <1>5, <2>5, <2>7, <2>8 DEF WaitInv, Places, Options, Limit
  <2> QED
    BY <1>1, <2>4, <2>5, <2>6, <2>9, SuitsKept DEF ListenInv
<1> QED
  BY <1>3, <1>4, <1>5 DEF BindTo

\* Interfaces and addresses that come and go keep the invariant.
LEMMA MovesStep ==
  ASSUME ListenInv, NEW i \in Ifaces, NEW to, NEW p \in SUBSET Addresses, Moves(i, to, p)
  PROVE  ListenInv'
<1>1. /\ ListenTypes /\ WaitInv /\ Options /\ UNCHANGED <<stage, at, sec, list, waited>>
      /\ present' \in {present, p}
  BY DEF ListenInv, Moves
<1>2. ListenTypes'
  BY <1>1 DEF ListenTypes, Options
<1>3. WaitInv'
  BY <1>1 DEF WaitInv, Places, Options, Limit
<1> QED
  BY <1>1, <1>2, <1>3, SuitsKept DEF ListenInv

\* Every step of main and of the system keeps the invariant.
LEMMA ListenStep == ASSUME ListenInv, [ListenNext]_listen PROVE ListenInv'
<1>1. ASSUME NEW i \in Ifaces, NEW to \in {"absent", "down", "up"}, NEW a \in Addresses,
             Moves(i, to, IF a \in present THEN present \ {a} ELSE present \cup {a})
      PROVE  ListenInv'
  <2>1. present \subseteq Addresses
    BY DEF ListenInv, ListenTypes
  <2> QED
    BY <1>1, <2>1, MovesStep
<1>2. CASE UNCHANGED listen
  BY <1>2 DEF listen, ListenInv, ListenTypes, WaitInv, SuitInv, Places, Limit
<1> QED
  BY <1>1, <1>2, PrepareStep, WaitIfupStep, IndexStep, SearchStep, BindStep DEF ListenNext

\* tpws listens where it was asked to, and waits for no bind longer than its
\* two limits together (main and find_listen_addr of tpws.c).
THEOREM ListensWhereAsked == ListenSpec => []ListensAsAsked
<1>1. ListenInv => ListensAsAsked
  <2> SUFFICES ASSUME ListenInv PROVE ListensAsAsked
    OBVIOUS
  <2>1. DOMAIN list = 1..Len(list) /\ DOMAIN request = 1..Len(request)
    BY DEF ListenInv, ListenTypes
  <2> QED
    BY <2>1 DEF ListenInv, WaitInv, SuitInv, ListensAsAsked, Limit
<1> QED
  BY ListenInitial, ListenStep, <1>1, PTL DEF ListenSpec
-----------------------------------------------------------------------------
(***************************************************************************)
(* mdig answers every line it was given, for any input, any number of      *)
(* threads and however many of them could be created.                      *)
(***************************************************************************)
LookupsSpec == LookupsInit /\ [][LookupsNext]_lookups

Steps == {"none", "read", "reading", "line", "lookup", "print", "log", "stat", "report", "ended"}
Workers == [pc : Steps, line : Nat, tries : Nat, left : Nat, ok : BOOLEAN]
HasLine(r) == r.pc \in {"line", "lookup", "print", "log", "stat"}
Answered(r) == r.pc \in {"print", "log", "stat"}

\* The input, and the lines taken from it: always the first ones.
ReadSet(a) == {i \in DOMAIN a : a[i] # "none"}
Answers == {"none", "read", "ok", "again", "fail"}
InputTyped ==
  /\ input \in Seq(Lines) /\ fed \in 0..Len(input) /\ eof \in BOOLEAN /\ (eof => fed = Len(input))
  /\ answersTo \in [1..Len(input) -> Answers]
  /\ thread \in [Threads -> Workers]
FirstRead(n) == n \in 0..fed /\ ReadSet(answersTo) = 1..n
FirstsRead == \E n \in Nat : FirstRead(n)

\* What a thread knows of its line is true, and no line is in two hands.
Kind(i) == input[i].kind
Knows(r) ==
  /\ HasLine(r) => r.line \in ReadSet(answersTo)
  /\ r.pc \in {"line", "lookup"} => r.ok = FALSE /\ answersTo[r.line] # "ok"
  /\ r.pc = "lookup" => Kind(r.line) = "domain"
  /\ Answered(r) => (r.ok = TRUE <=> Ok(r.line))
  /\ r.pc = "print" => r.ok = TRUE /\ r.left > 0
  /\ r.pc = "log" => Kind(r.line) # "blank" /\ (r.ok = TRUE => r.line \in ToSet(printed))
  /\ r.pc = "ended" => eof /\ ReadSet(answersTo) = 1..Len(input)
Shares(r, q) == HasLine(r) /\ HasLine(q) /\ r.line = q.line
Hands == /\ \A t \in Threads : Knows(thread[t])
         /\ \A t, u \in Threads : Shares(thread[t], thread[u]) => t = u

\* Lines nobody has in hand have been counted; those that are not blank are
\* logged before they are counted.
Counted(th, a) == {i \in ReadSet(a) : \A t \in Threads : HasLine(th[t]) => th[t].line # i}
Logged(th, a) ==
  {i \in ReadSet(a) : Kind(i) # "blank" /\ \A t \in Threads : HasLine(th[t]) /\ th[t].line = i => th[t].pc = "stat"}
Distinct(s) == s \in Seq(Nat) /\ IsInjective(s)
Books ==
  /\ Distinct(logged.ok) /\ Distinct(logged.fail) /\ printed \in Seq(Nat)
  /\ logged = [ok |-> logged.ok, fail |-> logged.fail]
  /\ ToSet(logged.ok) = {i \in Logged(thread, answersTo) : Ok(i)}
  /\ ToSet(logged.fail) = {i \in Logged(thread, answersTo) : ~Ok(i)}
  /\ ToSet(logged.ok) \subseteq ToSet(printed)
  /\ \A i \in ToSet(printed) : i \in ReadSet(answersTo) /\ Ok(i)
Counts ==
  /\ stats.ct = Cardinality(Counted(thread, answersTo))
  /\ stats.ok = Cardinality({i \in Counted(thread, answersTo) : Ok(i)})
Finished == /\ \E t \in Threads : thread[t].pc # "none"
            /\ \A t \in Threads : thread[t].pc \in {"none", "ended"}
Told ==
  /\ reports \in Seq(Nat \X Nat)
  /\ main = "0" => Finished /\ reports # <<>> /\ reports[Len(reports)] = <<stats.ct, stats.ok>>
LookupsInv == InputTyped /\ FirstsRead /\ Hands /\ Books /\ Counts /\ Told

\* What it means for the thread t to take the record q.
Takes(t, q) == thread' = [thread EXCEPT ![t] = q]
LEMMA TakesGives ==
  ASSUME InputTyped, NEW t \in Threads, NEW q \in Workers, Takes(t, q)
  PROVE  /\ thread' \in [Threads -> Workers] /\ thread'[t] = q
         /\ \A u \in Threads : u # t => thread'[u] = thread[u]
         /\ thread[t] \in Workers
BY DEF InputTyped, Takes

\* The line of an answer decides about it, and nothing else does.
LEMMA OkKept ==
  ASSUME input' = input, NEW i, answersTo'[i] = answersTo[i] PROVE Ok(i)' <=> Ok(i)
BY DEF Ok, GoodAddress
LEMMA OkNotDomain ==
  ASSUME input' = input, NEW i, Kind(i) # "domain" PROVE Ok(i)' <=> Ok(i)
BY DEF Ok, GoodAddress, Kind
LEMMA KnowsKept ==
  ASSUME input' = input, eof => eof', NEW r, Knows(r),
         HasLine(r) => answersTo'[r.line] = answersTo[r.line] /\ r.line \in ReadSet(answersTo'),
         ReadSet(answersTo) = 1..Len(input) => ReadSet(answersTo') = ReadSet(answersTo),
         ToSet(printed) \subseteq ToSet(printed')
  PROVE  Knows(r)'
<1>1. HasLine(r) => (Ok(r.line)' <=> Ok(r.line))
  BY OkKept
<1>2. r.pc \in {"line", "lookup", "print", "log", "stat"} <=> HasLine(r)
  BY DEF HasLine
<1> HIDE DEF Ok, ReadSet
<1> QED
  BY <1>1, <1>2 DEF Knows, Kind, Answered, HasLine

\* A thread that goes on with the line it has, or without one as before.
SameHand(r, q) ==
  /\ HasLine(r) <=> HasLine(q)
  /\ HasLine(r) => r.line = q.line /\ (Kind(r.line) = "blank" \/ (r.pc = "stat" <=> q.pc = "stat"))
LEMMA SameHandKeeps ==
  ASSUME InputTyped, NEW t \in Threads, NEW q \in Workers, Takes(t, q), SameHand(thread[t], q), NEW a
  PROVE  Counted(thread', a) = Counted(thread, a) /\ Logged(thread', a) = Logged(thread, a)
<1>1. /\ thread'[t] = q
      /\ \A u \in Threads : u # t => thread'[u] = thread[u]
  BY TakesGives
<1>2. \A u \in Threads : HasLine(thread'[u]) <=> HasLine(thread[u])
  BY <1>1 DEF SameHand
<1>3. \A u \in Threads : HasLine(thread[u]) => thread'[u].line = thread[u].line
  BY <1>1 DEF SameHand
<1>4. \A u \in Threads : HasLine(thread[u]) /\ Kind(thread[u].line) # "blank" =>
        (thread'[u].pc = "stat" <=> thread[u].pc = "stat")
  BY <1>1 DEF SameHand
<1> HIDE DEF HasLine, Kind
<1> QED
  BY <1>2, <1>3, <1>4 DEF Counted, Logged

LEMMA HandsApart ==
  ASSUME InputTyped, Hands, NEW t \in Threads, NEW q \in Workers, Takes(t, q),
         \A u \in Threads : Shares(thread[u], q) => u = t,
         NEW v \in Threads, NEW u \in Threads, Shares(thread'[v], thread'[u])
  PROVE  v = u
<1>1. /\ thread'[t] = q
      /\ \A w \in Threads : w # t => thread'[w] = thread[w]
  BY TakesGives
<1>2. CASE v # t /\ u # t
  BY <1>1, <1>2 DEF Hands
<1>3. CASE v = t /\ u # t
  <2>1. Shares(thread[u], q)
    BY <1>1, <1>3 DEF Shares
  <2> QED
    BY <2>1, <1>3
<1>4. CASE v # t /\ u = t
  <2>1. Shares(thread[v], q)
    BY <1>1, <1>4 DEF Shares
  <2> QED
    BY <2>1, <1>4
<1> QED
  BY <1>2, <1>3, <1>4

\* A step in which a thread goes on with what it has, and nothing is written.
Silent == UNCHANGED <<input, fed, eof, printed, logged, stats, answersTo>>
LEMMA SetsKept ==
  ASSUME InputTyped, FirstsRead, Silent
  PROVE  /\ ReadSet(answersTo)' = ReadSet(answersTo) /\ FirstsRead'
         /\ \A i : Ok(i)' <=> Ok(i)
<1>1. \A i : Ok(i)' <=> Ok(i)
  BY OkKept DEF Silent
<1>2. ReadSet(answersTo)' = ReadSet(answersTo)
  BY DEF Silent
<1> QED
  BY <1>1, <1>2 DEF FirstsRead, FirstRead, Silent

LEMMA BooksKept ==
  ASSUME InputTyped, FirstsRead, Books, Counts, Silent,
         Counted(thread', answersTo) = Counted(thread, answersTo),
         Logged(thread', answersTo) = Logged(thread, answersTo)
  PROVE  Books' /\ Counts'
<1>1. /\ ReadSet(answersTo)' = ReadSet(answersTo)
      /\ \A i : Ok(i)' <=> Ok(i)
  BY SetsKept
<1>2. \A i : Kind(i)' = Kind(i)
  BY DEF Kind, Silent
<1>3. Counted(thread, answersTo)' = Counted(thread, answersTo)
  <2>1. Counted(thread, answersTo)' = Counted(thread', answersTo)
    BY <1>1 DEF Counted, Silent
  <2> QED
    BY <2>1
<1>4. Logged(thread, answersTo)' = Logged(thread, answersTo)
  <2>1. Logged(thread, answersTo)' = Logged(thread', answersTo)
    BY <1>1, <1>2 DEF Logged, Silent
  <2> QED
    BY <2>1
<1>5. {i \in Counted(thread, answersTo) : Ok(i)}' = {i \in Counted(thread, answersTo) : Ok(i)}
  BY <1>1, <1>3
<1>6. /\ {i \in Logged(thread, answersTo) : Ok(i)}' = {i \in Logged(thread, answersTo) : Ok(i)}
      /\ {i \in Logged(thread, answersTo) : ~Ok(i)}' = {i \in Logged(thread, answersTo) : ~Ok(i)}
  BY <1>1, <1>4
<1>7. Counts'
  BY <1>3, <1>5 DEF Counts, Silent
<1>8. Books'
  BY <1>1, <1>6 DEF Books, Silent
<1> QED
  BY <1>7, <1>8

\* A thread that keeps its line, or gives it up, leaves the others theirs.
LEMMA HandsMove ==
  ASSUME InputTyped, Hands, UNCHANGED <<input, fed, eof, answersTo>>, ToSet(printed) \subseteq ToSet(printed'),
         NEW t \in Threads, NEW q \in Workers, Takes(t, q), Knows(q)',
         HasLine(q) => HasLine(thread[t]) /\ thread[t].line = q.line
  PROVE  Hands'
<1>1. /\ thread'[t] = q
      /\ \A u \in Threads : u # t => thread'[u] = thread[u]
  BY TakesGives
<1>2. \A u \in Threads : Shares(thread[u], q) => u = t
  BY DEF Hands, Shares
<1>3. ASSUME NEW r, Knows(r) PROVE Knows(r)'
  <2>1. HasLine(r) => r.line \in ReadSet(answersTo')
    BY <1>3 DEF Knows
  <2> QED
    BY <1>3, <2>1, KnowsKept
<1>4. ASSUME NEW u \in Threads PROVE Knows(thread[u])'
  <2>1. PICK r : r = thread'[u]
    OBVIOUS
  <2>2. CASE u = t
    <3>1. r = q
      BY <1>1, <2>1, <2>2
    <3>2. Knows(r)'
      BY <3>1 DEF Knows
    <3> QED
      BY <2>1, <3>2 DEF Knows
  <2>3. CASE u # t
    <3>1. Knows(r)
      BY <1>1, <2>1, <2>3 DEF Hands
    <3>2. Knows(r)'
      BY <1>3, <3>1
    <3> QED
      BY <2>1, <3>2 DEF Knows
  <2> QED
    BY <2>2, <2>3
<1>5. \A v, u \in Threads : Shares(thread'[v], thread'[u]) => v = u
  BY <1>2, HandsApart
<1> QED
  BY <1>4, <1>5 DEF Hands
LEMMA HandsKept ==
  ASSUME InputTyped, FirstsRead, Hands, Silent, NEW t \in Threads, NEW q \in Workers, Takes(t, q), Knows(q),
         HasLine(q) => HasLine(thread[t]) /\ thread[t].line = q.line
  PROVE  Hands'
<1>1. HasLine(q) => q.line \in ReadSet(answersTo')
  BY DEF Knows, Silent
<1>2. Knows(q)'
  BY <1>1, KnowsKept DEF Silent
<1> QED
  BY <1>2, HandsMove DEF Silent

\* Who works keeps run_threads waiting.
LEMMA ToldKept ==
  ASSUME InputTyped, Told, main' = main, NEW t \in Threads, thread[t].pc \notin {"none", "ended"},
         reports' \in Seq(Nat \X Nat)
  PROVE  Told'
<1>1. main # "0"
  BY DEF Told, Finished
<1> QED
  BY <1>1 DEF Told

LEMMA GoesOn ==
  ASSUME LookupsInv, Silent, NEW t \in Threads, NEW q \in Workers, Takes(t, q), Knows(q), SameHand(thread[t], q)
  PROVE  InputTyped' /\ FirstsRead' /\ Hands' /\ Books' /\ Counts'
<1> USE DEF LookupsInv
<1>1. InputTyped'
  <2>1. thread' \in [Threads -> Workers]
    BY TakesGives
  <2> QED
    BY <2>1 DEF InputTyped, Silent
<1>2. HasLine(q) => HasLine(thread[t]) /\ thread[t].line = q.line
  BY DEF SameHand
<1>3. Hands'
  BY <1>2, HandsKept
<1>4. /\ Counted(thread', answersTo) = Counted(thread, answersTo)
      /\ Logged(thread', answersTo) = Logged(thread, answersTo)
  BY SameHandKeeps
<1>5. Books' /\ Counts'
  BY <1>4, BooksKept
<1> QED
  BY <1>1, <1>3, <1>5, SetsKept

\* The steps of run_threads and of who feeds the input.
LEMMA CreateStep == ASSUME LookupsInv, NEW t \in Threads, CreateThread(t) PROVE LookupsInv'
<1>1. PICK q : q = [thread[t] EXCEPT !.pc = "read"]
  OBVIOUS
<1>2. q \in Workers /\ q.pc = "read"
  BY <1>1 DEF LookupsInv, InputTyped, Workers, Steps
<1>3. Takes(t, q)
  BY <1>1 DEF CreateThread, GoesTo, Goes, Takes
<1>4. Knows(q)
  BY <1>2 DEF Knows, HasLine, Answered
<1>5. SameHand(thread[t], q)
  BY <1>2 DEF CreateThread, Is, SameHand, HasLine
<1>6. Silent
  BY DEF CreateThread, Others, Silent
<1>7. InputTyped' /\ FirstsRead' /\ Hands' /\ Books' /\ Counts'
  BY <1>2, <1>3, <1>4, <1>5, <1>6, GoesOn
<1>8. Told'
  BY DEF CreateThread, LookupsInv, Told
<1> QED
  BY <1>7, <1>8 DEF LookupsInv

LEMMA ThreadsKept ==
  ASSUME LookupsInv, thread' = thread, Silent
  PROVE  InputTyped' /\ FirstsRead' /\ Hands' /\ Books' /\ Counts'
<1> USE DEF LookupsInv
<1>1. InputTyped' /\ FirstsRead'
  BY SetsKept DEF InputTyped, Silent
<1>2. Books' /\ Counts'
  BY BooksKept
<1>3. Hands'
  <2>1. \A i : Ok(i)' <=> Ok(i)
    BY SetsKept
  <2>2. ReadSet(answersTo)' = ReadSet(answersTo)
    BY SetsKept
  <2>3. \A i : Kind(i)' = Kind(i)
    BY DEF Kind, Silent
  <2>4. ASSUME NEW u \in Threads PROVE Knows(thread[u])'
    <3>1. Knows(thread[u])
      BY DEF Hands
    <3> HIDE DEF Ok, Kind, ReadSet
    <3> QED
      BY <2>1, <2>2, <2>3, <3>1 DEF Knows, Silent
  <2> QED
    BY <2>4 DEF Hands
<1> QED
  BY <1>1, <1>2, <1>3

LEMMA FiniteCounts ==
  ASSUME InputTyped, FirstsRead, NEW th
  PROVE  /\ IsFiniteSet(Counted(th, answersTo)) /\ IsFiniteSet({i \in Counted(th, answersTo) : Ok(i)})
         /\ IsFiniteSet(ReadSet(answersTo))
<1>1. PICK n \in Nat : ReadSet(answersTo) = 1..n
  BY DEF FirstsRead, FirstRead
<1>2. IsFiniteSet(ReadSet(answersTo))
  BY <1>1, FS_Interval
<1>3. Counted(th, answersTo) \in SUBSET ReadSet(answersTo)
  BY DEF Counted
<1>4. {i \in Counted(th, answersTo) : Ok(i)} \in SUBSET ReadSet(answersTo)
  BY <1>3
<1> QED
  BY <1>2, <1>3, <1>4, FS_Subset

LEMMA StatsTyped ==
  ASSUME InputTyped, FirstsRead, Counts PROVE stats.ct \in Nat /\ stats.ok \in Nat
BY FiniteCounts, FS_CardinalityType DEF Counts

LEMMA JoinStep == ASSUME LookupsInv, JoinAll PROVE LookupsInv'
<1>1. thread' = thread /\ Silent
  BY DEF JoinAll, Others, Silent
<1>2. InputTyped' /\ FirstsRead' /\ Hands' /\ Books' /\ Counts'
  BY <1>1, ThreadsKept
<1>3. stats.ct \in Nat /\ stats.ok \in Nat
  BY StatsTyped DEF LookupsInv
<1>4. PICK x \in Nat \X Nat : x = <<stats.ct, stats.ok>>
  BY <1>3
<1>5. reports \in Seq(Nat \X Nat) /\ reports' = Append(reports, x)
  BY <1>4 DEF JoinAll, LookupsInv, Told
<1>6. reports' \in Seq(Nat \X Nat) /\ reports' # <<>> /\ reports'[Len(reports')] = x
  <2>1. PICK X : X = Nat \X Nat
    OBVIOUS
  <2>2. x \in X /\ reports \in Seq(X)
    BY <1>5, <2>1
  <2>3. reports' \in Seq(X) /\ reports' # <<>> /\ reports'[Len(reports')] = x
    BY <2>2, <1>5, AppendProperties
  <2> QED
    BY <2>1, <2>3
<1>7. x = <<stats'.ct, stats'.ok>>
  BY <1>1, <1>4 DEF Silent
<1>8. main' = "0" => Finished'
  BY <1>1 DEF JoinAll, Created, Is, Finished
<1>9. Told'
  BY <1>6, <1>7, <1>8 DEF Told
<1> QED
  BY <1>2, <1>9 DEF LookupsInv

LEMMA ControlStep ==
  ASSUME LookupsInv, AllCreated \/ CreateFails \/ TellFailure PROVE LookupsInv'
<1>1. thread' = thread /\ Silent /\ main' # "0" /\ reports' = reports
  BY DEF AllCreated, CreateFails, TellFailure, Others, Silent
<1>2. Told'
  BY <1>1 DEF Told, LookupsInv
<1> QED
  BY <1>1, <1>2, ThreadsKept DEF LookupsInv

\* What the input does changes nothing a thread has taken.
LEMMA InputStep == ASSUME LookupsInv, Feed \/ CloseInput PROVE LookupsInv'
<1> DEFINE Rest == UNCHANGED <<input, thread, printed, logged, stats, reports, main, answersTo>>
<1> USE DEF LookupsInv
<1>1. Rest
  BY DEF Feed, CloseInput
<1>2. Len(input) \in Nat
  BY DEF InputTyped
<1>3. /\ fed' \in 0..Len(input) /\ fed <= fed' /\ eof' \in BOOLEAN /\ (eof' => fed' = Len(input))
      /\ eof => eof'
  <2>1. fed \in 0..Len(input) /\ eof \in BOOLEAN /\ (eof => fed = Len(input))
    BY DEF InputTyped
  <2>2. CASE Feed
    <3>1. fed < Len(input) /\ ~eof /\ fed' = fed + 1 /\ eof' = eof
      BY <2>2 DEF Feed
    <3>2. fed' \in 0..Len(input) /\ fed <= fed'
      BY <1>2, <2>1, <3>1
    <3> QED
      BY <2>1, <3>1, <3>2
  <2>3. CASE CloseInput
    <3>1. fed = Len(input) /\ fed' = fed /\ eof' = TRUE
      BY <2>3 DEF CloseInput
    <3> QED
      BY <1>2, <2>1, <3>1
  <2> QED
    BY <2>2, <2>3
<1>4. InputTyped'
  BY <1>1, <1>3 DEF InputTyped
<1>5. ReadSet(answersTo)' = ReadSet(answersTo)
  BY <1>1
<1>6. FirstsRead'
  <2>1. PICK n \in Nat : n \in 0..fed /\ ReadSet(answersTo) = 1..n
    BY DEF FirstsRead, FirstRead
  <2>2. n \in 0..fed'
    BY <1>2, <1>3, <2>1 DEF InputTyped
  <2> QED
    BY <1>5, <2>1, <2>2 DEF FirstsRead, FirstRead
<1>7. \A i : Ok(i)' <=> Ok(i)
  BY <1>1, OkKept
<1>8. \A i : Kind(i)' = Kind(i)
  BY <1>1 DEF Kind
<1>9. ASSUME NEW u \in Threads PROVE Knows(thread[u])'
  <2>1. Knows(thread[u])
    BY DEF Hands
  <2> HIDE DEF Ok, Kind, ReadSet
  <2> QED
    BY <1>1, <1>3, <1>5, <1>7, <1>8, <2>1 DEF Knows
<1>10. Hands'
  BY <1>1, <1>9 DEF Hands
<1>11. Counted(thread, answersTo)' = Counted(thread, answersTo)
  BY <1>1 DEF Counted
<1>12. Logged(thread, answersTo)' = Logged(thread, answersTo)
  BY <1>1, <1>8 DEF Logged
<1>13. Counts'
  <2>1. {i \in Counted(thread, answersTo) : Ok(i)}' = {i \in Counted(thread, answersTo) : Ok(i)}
    BY <1>7, <1>11
  <2> QED
    BY <1>1, <1>11, <2>1 DEF Counts
<1>14. Books'
  <2>1. /\ {i \in Logged(thread, answersTo) : Ok(i)}' = {i \in Logged(thread, answersTo) : Ok(i)}
        /\ {i \in Logged(thread, answersTo) : ~Ok(i)}' = {i \in Logged(thread, answersTo) : ~Ok(i)}
    BY <1>7, <1>12
  <2> QED
    BY <1>1, <1>5, <1>7, <2>1 DEF Books
<1>15. Told'
  BY <1>1 DEF Told, Finished
<1> QED
  BY <1>4, <1>6, <1>10, <1>13, <1>14, <1>15

\* The steps of a thread that write nothing.
LEMMA TakeLockStep == ASSUME LookupsInv, NEW t \in Threads, TakeLock(t) PROVE LookupsInv'
<1>1. PICK q : q = [thread[t] EXCEPT !.pc = "reading"]
  OBVIOUS
<1>2. q \in Workers /\ q.pc = "reading"
  BY <1>1 DEF LookupsInv, InputTyped, Workers, Steps
<1>3. Takes(t, q) /\ Silent /\ main' = main /\ reports' = reports
  BY <1>1 DEF TakeLock, GoesTo, Goes, Takes, Silent
<1>4. Knows(q)
  BY <1>2 DEF Knows, HasLine, Answered
<1>5. SameHand(thread[t], q)
  BY <1>2 DEF TakeLock, Is, SameHand, HasLine
<1>6. InputTyped' /\ FirstsRead' /\ Hands' /\ Books' /\ Counts'
  BY <1>2, <1>3, <1>4, <1>5, GoesOn
<1>7. Told'
  BY <1>3, ToldKept DEF LookupsInv, TakeLock, Is, Told
<1> QED
  BY <1>6, <1>7 DEF LookupsInv

LEMMA EndStep ==
  ASSUME LookupsInv, NEW t \in Threads, GetLine(t), ~(LinesRead < fed), LinesRead = fed, eof, UNCHANGED answersTo,
         GoesTo(t, "ended")
  PROVE  LookupsInv'
<1>1. PICK q : q = [thread[t] EXCEPT !.pc = "ended"]
  OBVIOUS
<1>2. q \in Workers /\ q.pc = "ended"
  BY <1>1 DEF LookupsInv, InputTyped, Workers, Steps
<1>3. Takes(t, q) /\ Silent /\ main' = main /\ reports' = reports
  BY <1>1 DEF GetLine, GoesTo, Goes, Takes, Silent
<1>4. ReadSet(answersTo) = 1..Len(input)
  <2>1. PICK n \in Nat : n \in 0..fed /\ ReadSet(answersTo) = 1..n
    BY DEF LookupsInv, FirstsRead, FirstRead
  <2>2. Cardinality(1..n) = n
    BY <2>1, FS_Interval
  <2>3. LinesRead = n
    BY <2>1, <2>2 DEF LinesRead, ReadSet
  <2> QED
    BY <2>1, <2>3 DEF LookupsInv, InputTyped
<1>5. Knows(q)
  BY <1>2, <1>4 DEF Knows, HasLine, Answered
<1>6. SameHand(thread[t], q)
  BY <1>2 DEF GetLine, Is, SameHand, HasLine
<1>7. InputTyped' /\ FirstsRead' /\ Hands' /\ Books' /\ Counts'
  BY <1>2, <1>3, <1>5, <1>6, GoesOn
<1>8. Told'
  BY <1>3, ToldKept DEF LookupsInv, GetLine, Is, Told
<1> QED
  BY <1>7, <1>8 DEF LookupsInv

\* A thread that goes on with its line.
LEMMA AtLine ==
  ASSUME LookupsInv, NEW t \in Threads, HasLine(thread[t])
  PROVE  /\ thread[t].line \in ReadSet(answersTo) /\ thread[t].line \in 1..Len(input)
         /\ input[thread[t].line] \in Lines /\ Kind(thread[t].line) \in {"blank", "domain", "bad", "address"}
         /\ Knows(thread[t]) /\ thread[t] \in Workers
<1>1. Knows(thread[t]) /\ thread[t].line \in ReadSet(answersTo)
  BY DEF LookupsInv, Hands, Knows
<1>2. thread[t].line \in 1..Len(input)
  BY <1>1 DEF ReadSet, LookupsInv, InputTyped
<1>3. input[thread[t].line] \in Lines
  BY <1>2 DEF LookupsInv, InputTyped
<1>4. thread[t] \in Workers
  BY DEF LookupsInv, InputTyped
<1> QED
  BY <1>1, <1>2, <1>3, <1>4, LookupAssumption DEF Kind

LEMMA QuietStep ==
  ASSUME LookupsInv, NEW t \in Threads, NEW q \in Workers, Takes(t, q), Knows(q), SameHand(thread[t], q),
         Silent, main' = main, reports' \in Seq(Nat \X Nat), thread[t].pc \notin {"none", "ended"}
  PROVE  LookupsInv'
<1>1. InputTyped' /\ FirstsRead' /\ Hands' /\ Books' /\ Counts'
  BY GoesOn
<1>2. Told'
  BY ToldKept DEF LookupsInv
<1> QED
  BY <1>1, <1>2 DEF LookupsInv

LEMMA LookStep == ASSUME LookupsInv, NEW t \in Threads, Look(t) PROVE LookupsInv'
<1>1. PICK r : r = thread[t]
  OBVIOUS
<1>2. r.pc = "line" /\ HasLine(r)
  BY <1>1 DEF Look, Is, HasLine
<1>3. PICK i : i = r.line
  OBVIOUS
<1>4. /\ i \in ReadSet(answersTo) /\ Kind(i) \in {"blank", "domain", "bad", "address"} /\ Knows(r)
      /\ r \in Workers
  BY <1>1, <1>2, <1>3, AtLine
<1>5. r.ok = FALSE /\ answersTo[i] # "ok"
  BY <1>2, <1>3, <1>4 DEF Knows
<1>6. Ok(i) <=> Kind(i) = "address" /\ GoodAddress(input[i])
  BY <1>5 DEF Ok, Kind
<1>7. /\ Kind(i) = "blank" => GoesTo(t, "stat")
      /\ Kind(i) = "address" =>
           IF GoodAddress(input[i]) THEN Goes(t, [thread[t] EXCEPT !.pc = "print", !.left = 1, !.ok = TRUE])
           ELSE GoesTo(t, "log")
      /\ Kind(i) = "domain" => Goes(t, [thread[t] EXCEPT !.pc = "lookup"])
      /\ Kind(i) = "bad" => GoesTo(t, "log")
  BY <1>1, <1>3, <1>4 DEF Look, LineOf, Kind
<1>8. Silent /\ main' = main /\ reports' = reports
  BY DEF Look, Silent
<1> DEFINE Next(q) == /\ q \in Workers /\ HasLine(q) /\ q.pc # "line" /\ q.pc # "ended" /\ q.line = i /\ Takes(t, q)
                      /\ (q.ok = TRUE <=> Ok(i)) /\ (q.pc = "lookup" <=> Kind(i) = "domain")
                      /\ (q.pc = "print" <=> Ok(i)) /\ (q.pc = "print" => q.left > 0)
                      /\ (q.pc = "stat" <=> Kind(i) = "blank")
<1>9. \E q : Next(q)
  <2>1. r.line = i /\ r.ok = FALSE
    BY <1>3, <1>5
  <2>2. CASE Kind(i) = "blank"
    <3>1. PICK q : q = [r EXCEPT !.pc = "stat"]
      OBVIOUS
    <3>2. q \in Workers /\ q.pc = "stat" /\ q.line = i /\ q.ok = FALSE
      BY <1>4, <2>1, <3>1 DEF Workers, Steps
    <3>3. Takes(t, q)
      BY <1>1, <1>7, <2>2, <3>1 DEF GoesTo, Goes, Takes
    <3>4. Next(q)
      BY <1>6, <2>2, <3>2, <3>3 DEF HasLine
    <3> QED
      BY <3>4
  <2>3. CASE Kind(i) = "domain"
    <3>1. PICK q : q = [r EXCEPT !.pc = "lookup"]
      OBVIOUS
    <3>2. q \in Workers /\ q.pc = "lookup" /\ q.line = i /\ q.ok = FALSE
      BY <1>4, <2>1, <3>1 DEF Workers, Steps
    <3>3. Takes(t, q)
      BY <1>1, <1>7, <2>3, <3>1 DEF Goes, Takes
    <3>4. Next(q)
      BY <1>6, <2>3, <3>2, <3>3 DEF HasLine
    <3> QED
      BY <3>4
  <2>4. CASE Kind(i) = "address" /\ GoodAddress(input[i])
    <3>1. PICK a : a = [r EXCEPT !.pc = "print"]
      OBVIOUS
    <3>2. PICK b : b = [a EXCEPT !.left = 1]
      OBVIOUS
    <3>3. PICK q : q = [b EXCEPT !.ok = TRUE]
      OBVIOUS
    <3>4. a \in Workers /\ a.pc = "print" /\ a.line = i
      BY <1>4, <2>1, <3>1 DEF Workers, Steps
    <3>5. b \in Workers /\ b.pc = "print" /\ b.line = i /\ b.left = 1
      BY <3>2, <3>4 DEF Workers
    <3>6. q \in Workers /\ q.pc = "print" /\ q.line = i /\ q.left = 1 /\ q.ok = TRUE
      <4>1. q.ok = TRUE
        BY <3>3, <3>5 DEF Workers
      <4>2. q \in Workers /\ q.pc = "print" /\ q.line = i /\ q.left = 1
        BY <3>3, <3>5 DEF Workers
      <4> QED
        BY <4>1, <4>2
    <3>7. q = [thread[t] EXCEPT !.pc = "print", !.left = 1, !.ok = TRUE]
      BY <1>1, <3>1, <3>2, <3>3, Zenon
    <3>8. Takes(t, q)
      <4>1. Goes(t, [thread[t] EXCEPT !.pc = "print", !.left = 1, !.ok = TRUE])
        BY <1>7, <2>4, Zenon
      <4> QED
        BY <3>7, <4>1, Zenon DEF Goes, Takes
    <3>9. Next(q)
      BY <1>6, <2>4, <3>6, <3>8 DEF HasLine
    <3> QED
      BY <3>9
  <2>5. CASE Kind(i) \in {"address", "bad"} /\ ~(Kind(i) = "address" /\ GoodAddress(input[i]))
    <3>1. PICK q : q = [r EXCEPT !.pc = "log"]
      OBVIOUS
    <3>2. q \in Workers /\ q.pc = "log" /\ q.line = i /\ q.ok = FALSE
      BY <1>4, <2>1, <3>1 DEF Workers, Steps
    <3>3. Takes(t, q)
      BY <1>1, <1>7, <2>5, <3>1 DEF GoesTo, Goes, Takes
    <3>4. Next(q)
      BY <1>6, <2>5, <3>2, <3>3 DEF HasLine
    <3> QED
      BY <3>4
  <2> QED
    BY <1>4, <2>2, <2>3, <2>4, <2>5
<1>10. PICK q : Next(q)
  BY <1>9
<1>11. Knows(q)
  <2> HIDE DEF Ok
  <2> QED
    BY <1>4, <1>5, <1>10 DEF Knows, HasLine, Answered
<1>12. SameHand(r, q)
  BY <1>2, <1>3, <1>10 DEF SameHand
<1> HIDE DEF Next
<1>13. q \in Workers /\ Takes(t, q)
  BY <1>10 DEF Next
<1> QED
  BY <1>1, <1>2, <1>8, <1>11, <1>12, <1>13, QuietStep DEF LookupsInv, Told

LEMMA StatPrintStep == ASSUME LookupsInv, NEW t \in Threads, StatPrint(t) PROVE LookupsInv'
<1>1. PICK q : q = Idle
  OBVIOUS
<1>2. q \in Workers /\ q.pc = "read"
  BY <1>1 DEF Idle, Workers, Steps
<1>3. Takes(t, q) /\ Silent /\ main' = main
  BY <1>1 DEF StatPrint, Goes, Takes, Silent
<1>4. Knows(q)
  BY <1>2 DEF Knows, HasLine, Answered
<1>5. SameHand(thread[t], q) /\ thread[t].pc \notin {"none", "ended"}
  BY <1>2 DEF StatPrint, Is, SameHand, HasLine
<1>6. reports' \in Seq(Nat \X Nat)
  <2>1. thread[t] \in Workers /\ reports \in Seq(Nat \X Nat)
    BY DEF LookupsInv, InputTyped, Told
  <2>2. <<thread[t].tries, thread[t].left>> \in Nat \X Nat
    BY <2>1 DEF Workers
  <2>3. PICK X : X = Nat \X Nat
    OBVIOUS
  <2>4. PICK x : x = <<thread[t].tries, thread[t].left>>
    OBVIOUS
  <2>5. reports \in Seq(X) /\ x \in X /\ reports' = Append(reports, x)
    BY <2>1, <2>2, <2>3, <2>4 DEF StatPrint
  <2> QED
    BY <2>3, <2>5, AppendProperties
<1> QED
  BY <1>2, <1>3, <1>4, <1>5, <1>6, QuietStep

\* A step that answers for the line i the thread t then has in hand: it took it
\* now, or it had it at the resolver.
Answers1(i, a) == answersTo' = [answersTo EXCEPT ![i] = a]
Owns(t, i) == IF HasLine(thread[t]) THEN thread[t].line = i /\ thread[t].pc = "lookup" ELSE i \notin ReadSet(answersTo)
LEMMA OwnsApart ==
  ASSUME LookupsInv, NEW t \in Threads, NEW i, Owns(t, i), NEW u \in Threads, u # t, HasLine(thread[u])
  PROVE  thread[u].line # i
<1>1. thread[u].line \in ReadSet(answersTo)
  BY DEF LookupsInv, Hands, Knows
<1>2. CASE HasLine(thread[t])
  <2>1. ~Shares(thread[t], thread[u])
    BY DEF LookupsInv, Hands
  <2> QED
    BY <1>2, <2>1 DEF Owns, Shares
<1>3. CASE ~HasLine(thread[t])
  BY <1>1, <1>3 DEF Owns
<1> QED
  BY <1>2, <1>3

LEMMA AnswerStep ==
  ASSUME LookupsInv, NEW t \in Threads, NEW q \in Workers, Takes(t, q), NEW i \in 1..Len(input), Owns(t, i),
         HasLine(q), q.line = i, q.pc # "stat", Knows(q)',
         NEW a \in Answers, a # "none", Answers1(i, a), i \notin ToSet(printed),
         UNCHANGED <<input, fed, eof, printed, logged, stats>>, FirstsRead'
  PROVE  InputTyped' /\ Hands' /\ Books' /\ Counts'
<1>1. /\ thread'[t] = q /\ thread' \in [Threads -> Workers]
      /\ \A u \in Threads : u # t => thread'[u] = thread[u]
  BY TakesGives DEF LookupsInv
<1>2. \A u \in Threads : u # t /\ HasLine(thread[u]) => thread[u].line # i
  BY OwnsApart
<1>3. /\ answersTo' \in [1..Len(input) -> Answers] /\ answersTo'[i] = a
      /\ \A j \in 1..Len(input) : j # i => answersTo'[j] = answersTo[j]
      /\ DOMAIN answersTo = 1..Len(input)
  BY DEF Answers1, LookupsInv, InputTyped
<1>4. ReadSet(answersTo') = ReadSet(answersTo) \cup {i}
  BY <1>3 DEF ReadSet
<1>5. \A j \in ReadSet(answersTo) : j # i => (Ok(j)' <=> Ok(j))
  <2>1. ASSUME NEW j \in ReadSet(answersTo), j # i PROVE Ok(j)' <=> Ok(j)
    <3>1. answersTo'[j] = answersTo[j]
      BY <1>3, <2>1 DEF ReadSet
    <3> QED
      BY <3>1, OkKept
  <2> QED
    BY <2>1
<1>6. InputTyped'
  BY <1>1, <1>3 DEF LookupsInv, InputTyped
<1>7. \A j : Kind(j)' = Kind(j)
  BY DEF Kind
<1>8. Counted(thread, answersTo)' = Counted(thread, answersTo)
  <2>1. i \notin Counted(thread', answersTo')
    BY <1>1 DEF Counted
  <2>2. i \notin Counted(thread, answersTo)
    BY DEF Counted, Owns
  <2>3. \A u \in Threads : \A j : j # i => ((HasLine(thread'[u]) => thread'[u].line # j) <=> (HasLine(thread[u]) => thread[u].line # j))
    BY <1>1, <1>2 DEF Owns
  <2>4. ASSUME NEW j, j # i PROVE j \in Counted(thread', answersTo') <=> j \in Counted(thread, answersTo)
    <3> HIDE DEF HasLine, ReadSet
    <3> QED
      BY <1>4, <2>3, <2>4 DEF Counted
  <2>5. Counted(thread', answersTo') = Counted(thread, answersTo)
    <3>1. \A j : j \in Counted(thread', answersTo') <=> j \in Counted(thread, answersTo)
      BY <2>1, <2>2, <2>4
    <3> QED
      BY <3>1, Zenon
  <2> QED
    BY <2>5 DEF Counted, HasLine, ReadSet
<1>9. Logged(thread, answersTo)' = Logged(thread, answersTo) /\ i \notin Logged(thread, answersTo)
  <2>1. i \notin Logged(thread', answersTo')
    BY <1>1 DEF Logged
  <2>2. i \notin Logged(thread, answersTo)
    BY DEF Logged, Owns
  <2>3. \A u \in Threads : \A j : j # i => ((HasLine(thread'[u]) /\ thread'[u].line = j => thread'[u].pc = "stat")
                                        <=> (HasLine(thread[u]) /\ thread[u].line = j => thread[u].pc = "stat"))
    BY <1>1, <1>2 DEF Owns
  <2>4. ASSUME NEW j, j # i PROVE j \in Logged(thread', answersTo') <=> j \in Logged(thread, answersTo)
    <3> HIDE DEF HasLine, ReadSet, Kind
    <3> QED
      BY <1>4, <2>3, <2>4 DEF Logged
  <2>5. Logged(thread', answersTo') = Logged(thread, answersTo)
    <3>1. \A j : j \in Logged(thread', answersTo') <=> j \in Logged(thread, answersTo)
      BY <2>1, <2>2, <2>4
    <3> QED
      BY <3>1, Zenon
  <2>6. Logged(thread, answersTo)' = Logged(thread', answersTo')
    BY <1>7 DEF Logged, HasLine, ReadSet
  <2> QED
    BY <2>2, <2>5, <2>6
<1>10. i \notin Counted(thread, answersTo) /\ Counted(thread, answersTo) \subseteq ReadSet(answersTo)
       /\ Logged(thread, answersTo) \subseteq ReadSet(answersTo)
  BY DEF Counted, Owns, Logged
<1>11. Counts'
  <2>1. {j \in Counted(thread, answersTo) : Ok(j)}' = {j \in Counted(thread, answersTo) : Ok(j)}
    BY <1>5, <1>8, <1>10
  <2> QED
    BY <1>8, <2>1 DEF LookupsInv, Counts
<1>12. Books'
  <2>1. /\ {j \in Logged(thread, answersTo) : Ok(j)}' = {j \in Logged(thread, answersTo) : Ok(j)}
        /\ {j \in Logged(thread, answersTo) : ~Ok(j)}' = {j \in Logged(thread, answersTo) : ~Ok(j)}
    BY <1>5, <1>9, <1>10
  <2>2. ASSUME NEW j \in ToSet(printed) PROVE j \in ReadSet(answersTo)' /\ Ok(j)'
    <3>1. j \in ReadSet(answersTo) /\ Ok(j) /\ j # i
      BY DEF LookupsInv, Books
    <3>2. j \in ReadSet(answersTo')
      BY <1>4, <3>1
    <3>3. ReadSet(answersTo)' = ReadSet(answersTo')
      BY DEF ReadSet
    <3> QED
      BY <1>5, <3>1, <3>2, <3>3
  <2> QED
    BY <2>1, <2>2 DEF LookupsInv, Books
<1>13. ASSUME NEW u \in Threads PROVE Knows(thread[u])'
  <2>1. CASE u = t
    BY <1>1, <2>1 DEF Knows
  <2>2. CASE u # t
    <3>1. PICK r : r = thread'[u]
      OBVIOUS
    <3>2. r = thread[u] /\ Knows(r)
      BY <1>1, <2>2, <3>1 DEF LookupsInv, Hands
    <3>3. HasLine(r) => r.line # i /\ r.line \in ReadSet(answersTo)
      BY <1>2, <2>2, <3>2 DEF Knows
    <3>4. HasLine(r) => answersTo'[r.line] = answersTo[r.line] /\ r.line \in ReadSet(answersTo')
      BY <1>3, <1>4, <3>3 DEF ReadSet
    <3>5. ReadSet(answersTo) = 1..Len(input) => ReadSet(answersTo') = ReadSet(answersTo)
      BY <1>4
    <3>6. Knows(r)'
      BY <3>2, <3>4, <3>5, KnowsKept
    <3> QED
      BY <3>1, <3>6 DEF Knows
  <2> QED
    BY <2>1, <2>2
<1>14. Hands'
  <2>1. \A u \in Threads : Shares(thread[u], q) => u = t
    BY <1>2 DEF Shares
  <2>2. \A v, u \in Threads : Shares(thread'[v], thread'[u]) => v = u
    BY <2>1, HandsApart DEF LookupsInv
  <2> QED
    BY <1>13, <2>2 DEF Hands
<1> QED
  BY <1>6, <1>11, <1>12, <1>14

LEMMA TakeLineStep ==
  ASSUME LookupsInv, NEW t \in Threads, GetLine(t), LinesRead < fed,
         Goes(t, [Idle EXCEPT !.pc = "line", !.line = LinesRead + 1]), Answers1(LinesRead + 1, "read")
  PROVE  LookupsInv'
<1>1. PICK n \in Nat : n \in 0..fed /\ ReadSet(answersTo) = 1..n
  BY DEF LookupsInv, FirstsRead, FirstRead
<1>2. LinesRead = n
  <2>1. Cardinality(1..n) = n
    BY <1>1, FS_Interval
  <2> QED
    BY <1>1, <2>1 DEF LinesRead, ReadSet
<1>3. PICK i : i = n + 1
  OBVIOUS
<1>4. i \in 1..Len(input) /\ i \notin ReadSet(answersTo) /\ i \in Nat
  <2>1. n < fed /\ fed \in Nat /\ Len(input) \in Nat /\ fed <= Len(input)
    BY <1>2 DEF LookupsInv, InputTyped
  <2>2. i \in 1..Len(input) /\ i \notin 1..n
    BY <1>1, <1>3, <2>1
  <2> QED
    BY <1>1, <2>2
<1>18. PICK b : b = [Idle EXCEPT !.pc = "line"]
  OBVIOUS
<1>5. PICK q : q = [b EXCEPT !.line = i]
  OBVIOUS
<1>6. q \in Workers /\ q.pc = "line" /\ q.line = i /\ HasLine(q) /\ q.ok = FALSE
  <2>1. b = [pc |-> "line", line |-> 0, tries |-> 0, left |-> 0, ok |-> FALSE]
    BY <1>18 DEF Idle
  <2>2. b \in Workers /\ b.pc = "line" /\ b.ok = FALSE
    BY <2>1 DEF Workers, Steps
  <2> QED
    BY <1>4, <1>5, <2>2 DEF Workers, HasLine
<1>7. Takes(t, q)
  <2>1. q = [Idle EXCEPT !.pc = "line", !.line = LinesRead + 1]
    BY <1>2, <1>3, <1>5, <1>18, Zenon
  <2> QED
    BY <2>1, Zenon DEF Goes, Takes
<1>8. PICK a : a = "read"
  OBVIOUS
<1>9. a \in Answers /\ a # "none" /\ a # "ok" /\ Answers1(i, a)
  BY <1>2, <1>3, <1>8 DEF Answers
<1>10. /\ UNCHANGED <<input, fed, eof, printed, logged, stats>> /\ main' = main /\ reports' = reports
       /\ thread[t].pc = "reading"
  BY DEF GetLine, Is
<1>11. Owns(t, i)
  BY <1>4, <1>10 DEF Owns, HasLine
<1>12. i \notin ToSet(printed)
  BY <1>4 DEF LookupsInv, Books
<1>13. ReadSet(answersTo') = 1..i /\ answersTo'[i] = a
  <2>1. /\ DOMAIN answersTo' = 1..Len(input) /\ answersTo'[i] = a
        /\ \A j \in 1..Len(input) : j # i => answersTo'[j] = answersTo[j]
        /\ DOMAIN answersTo = 1..Len(input)
    BY <1>4, <1>9 DEF Answers1, LookupsInv, InputTyped
  <2>2. ReadSet(answersTo') = ReadSet(answersTo) \cup {i}
    BY <1>4, <1>9, <2>1 DEF ReadSet
  <2>3. (1..n) \cup {i} = 1..i
    BY <1>1, <1>3
  <2> QED
    BY <1>1, <2>1, <2>2, <2>3
<1>14. FirstsRead'
  <2>1. i \in 0..fed'
    <3>1. n < fed /\ fed \in Nat
      BY <1>2 DEF LookupsInv, InputTyped
    <3> QED
      BY <1>1, <1>3, <1>10, <3>1
  <2> QED
    BY <1>4, <1>13, <2>1 DEF FirstsRead, FirstRead, ReadSet
<1>15. Knows(q)'
  <2>1. i \in ReadSet(answersTo)'
    <3>1. i \in 1..i
      BY <1>4
    <3> QED
      BY <1>13, <3>1 DEF ReadSet
  <2> HIDE DEF ReadSet, Ok
  <2> QED
    BY <1>6, <1>9, <1>13, <2>1 DEF Knows, HasLine, Answered
<1>16. InputTyped' /\ Hands' /\ Books' /\ Counts'
  BY <1>4, <1>6, <1>7, <1>9, <1>10, <1>11, <1>12, <1>14, <1>15, AnswerStep
<1>17. Told'
  BY <1>10, ToldKept DEF LookupsInv, Told
<1> QED
  BY <1>14, <1>16, <1>17 DEF LookupsInv

\* What comes back from the resolver.
Resolves(r, res, q) ==
  /\ q \in Workers /\ q.line = r.line /\ q.pc \in {"print", "lookup", "log"}
  /\ (q.ok = TRUE <=> res = "ok") /\ (q.pc = "print" <=> res = "ok") /\ (q.pc = "print" => q.left > 0)
LEMMA AfterLookupIs ==
  ASSUME NEW r \in Workers, r.pc = "lookup", r.ok = FALSE, NEW res, NEW q \in AfterLookup(r, res)
  PROVE  Resolves(r, res, q)
<1>1. CASE res = "ok"
  <2>1. PICK n \in 1..2 : q = [r EXCEPT !.pc = "print", !.left = n, !.ok = TRUE]
    BY <1>1 DEF AfterLookup
  <2>2. PICK a : a = [r EXCEPT !.pc = "print"]
    OBVIOUS
  <2>3. PICK b : b = [a EXCEPT !.left = n]
    OBVIOUS
  <2>4. q = [b EXCEPT !.ok = TRUE]
    BY <2>1, <2>2, <2>3, Zenon
  <2>5. a \in Workers /\ a.pc = "print" /\ a.line = r.line
    BY <2>2 DEF Workers, Steps
  <2>6. b \in Workers /\ b.pc = "print" /\ b.line = r.line /\ b.left = n
    BY <2>3, <2>5 DEF Workers
  <2>7. q.ok = TRUE
    BY <2>4, <2>6 DEF Workers
  <2>8. q \in Workers /\ q.pc = "print" /\ q.line = r.line /\ q.left = n
    BY <2>4, <2>6 DEF Workers
  <2>9. n > 0
    OBVIOUS
  <2> QED
    BY <1>1, <2>7, <2>8, <2>9 DEF Resolves
<1>2. CASE res # "ok" /\ q = [r EXCEPT !.tries = @ + 1]
  <2>1. q \in Workers /\ q.pc = "lookup" /\ q.line = r.line /\ q.ok = FALSE
    BY <1>2 DEF Workers
  <2> QED
    BY <1>2, <2>1 DEF Resolves
<1>3. CASE res # "ok" /\ q = [r EXCEPT !.pc = "log"]
  <2>1. q \in Workers /\ q.pc = "log" /\ q.line = r.line /\ q.ok = FALSE
    BY <1>3 DEF Workers, Steps
  <2> QED
    BY <1>3, <2>1 DEF Resolves
<1> QED
  BY <1>1, <1>2, <1>3 DEF AfterLookup

LEMMA LookupStep == ASSUME LookupsInv, NEW t \in Threads, Lookup(t) PROVE LookupsInv'
<1>1. PICK r : r = thread[t]
  OBVIOUS
<1>2. r.pc = "lookup" /\ HasLine(r)
  BY <1>1 DEF Lookup, Is, HasLine
<1>3. PICK i : i = r.line
  OBVIOUS
<1>4. i \in ReadSet(answersTo) /\ i \in 1..Len(input) /\ Knows(r) /\ r \in Workers
  BY <1>1, <1>2, <1>3, AtLine
<1>5. r.ok = FALSE /\ answersTo[i] # "ok" /\ Kind(i) = "domain"
  BY <1>2, <1>3, <1>4 DEF Knows
<1>19. PICK a \in Resolved : \E q \in AfterLookup(r, a) : Goes(t, q) /\ answersTo' = [answersTo EXCEPT ![i] = a]
  BY <1>1, <1>3 DEF Lookup
<1>6. PICK q \in AfterLookup(r, a) : Goes(t, q) /\ answersTo' = [answersTo EXCEPT ![i] = a]
  BY <1>19
<1>7. q \in Workers /\ q.line = i /\ HasLine(q) /\ q.pc # "stat" /\ Takes(t, q) /\ Resolves(r, a, q)
  BY <1>2, <1>3, <1>4, <1>5, <1>6, AfterLookupIs DEF Resolves, HasLine, Goes, Takes
<1>8. a \in Answers /\ a # "none" /\ Answers1(i, a)
  BY <1>6, LookupAssumption DEF Answers, Answers1
<1>9. UNCHANGED <<input, fed, eof, printed, logged, stats>> /\ main' = main /\ reports' = reports
  BY DEF Lookup
<1>10. Owns(t, i)
  BY <1>1, <1>2, <1>3 DEF Owns
<1>11. ~Ok(i)
  BY <1>5 DEF Ok, Kind
<1>12. i \notin ToSet(printed)
  BY <1>11 DEF LookupsInv, Books
<1>13. ReadSet(answersTo)' = ReadSet(answersTo) /\ answersTo'[i] = a
  BY <1>4, <1>8 DEF Answers1, LookupsInv, InputTyped, ReadSet
<1>14. FirstsRead'
  BY <1>9, <1>13 DEF LookupsInv, FirstsRead, FirstRead
<1>15. Ok(i)' <=> a = "ok"
  BY <1>5, <1>9, <1>13 DEF Ok, Kind
<1>16. Knows(q)'
  <2>1. Kind(i)' = "domain"
    BY <1>5, <1>9 DEF Kind
  <2>2. q.pc \in {"print", "lookup", "log"} /\ (q.ok = TRUE <=> a = "ok") /\ (q.pc = "print" <=> a = "ok")
        /\ (q.pc = "print" => q.left > 0) /\ q.ok \in BOOLEAN
    BY <1>7 DEF Resolves, Workers
  <2> HIDE DEF Ok, ReadSet, Kind
  <2> QED
    BY <1>4, <1>7, <1>13, <1>15, <2>1, <2>2 DEF Knows, HasLine, Answered
<1>17. InputTyped' /\ Hands' /\ Books' /\ Counts'
  BY <1>4, <1>7, <1>8, <1>9, <1>10, <1>12, <1>14, <1>16, AnswerStep
<1>18. Told'
  BY <1>1, <1>2, <1>9, ToldKept DEF LookupsInv, Told
<1> QED
  BY <1>14, <1>17, <1>18 DEF LookupsInv

\* A step that writes for the line the thread t has.
Quiet == UNCHANGED <<input, fed, eof, answersTo>>
LEMMA QuietKeeps ==
  ASSUME InputTyped, FirstsRead, Quiet
  PROVE  /\ ReadSet(answersTo)' = ReadSet(answersTo) /\ FirstsRead'
         /\ \A i : (Ok(i)' <=> Ok(i)) /\ Kind(i)' = Kind(i)
         /\ \A th : Counted(th, answersTo') = Counted(th, answersTo)
<1>1. \A i : (Ok(i)' <=> Ok(i)) /\ Kind(i)' = Kind(i)
  BY OkKept DEF Quiet, Kind
<1>2. ReadSet(answersTo)' = ReadSet(answersTo) /\ answersTo' = answersTo
  BY DEF Quiet
<1>3. \A th : Counted(th, answersTo') = Counted(th, answersTo)
  BY <1>2
<1> QED
  BY <1>1, <1>2, <1>3 DEF FirstsRead, FirstRead, Quiet

LEMMA SetsPrimed ==
  ASSUME InputTyped, FirstsRead, Quiet
  PROVE  /\ Counted(thread, answersTo)' = Counted(thread', answersTo)
         /\ Logged(thread, answersTo)' = Logged(thread', answersTo)
<1>1. \A i : Kind(i)' = Kind(i)
  BY QuietKeeps
<1>2. answersTo' = answersTo
  BY DEF Quiet
<1>3. Counted(thread, answersTo)' = Counted(thread', answersTo)
  BY <1>2 DEF Counted, HasLine, ReadSet
<1>4. Logged(thread, answersTo)' = Logged(thread', answersTo)
  BY <1>1, <1>2 DEF Logged, HasLine, ReadSet
<1> QED
  BY <1>3, <1>4

\* How the lines in hand change when t goes on with its line, logged or not, or
\* gives it up.
LEMMA LineStays ==
  ASSUME LookupsInv, NEW t \in Threads, NEW q \in Workers, Takes(t, q), HasLine(thread[t]), HasLine(q),
         q.line = thread[t].line
  PROVE  /\ Counted(thread', answersTo) = Counted(thread, answersTo)
         /\ thread[t].pc # "stat" /\ q.pc # "stat" => Logged(thread', answersTo) = Logged(thread, answersTo)
         /\ thread[t].pc # "stat" /\ q.pc = "stat" /\ Kind(q.line) # "blank" =>
              /\ Logged(thread', answersTo) = Logged(thread, answersTo) \cup {q.line}
              /\ q.line \notin Logged(thread, answersTo)
<1>1. /\ thread'[t] = q
      /\ \A u \in Threads : u # t => thread'[u] = thread[u]
  BY TakesGives DEF LookupsInv
<1>2. \A u \in Threads : u # t /\ HasLine(thread[u]) => thread[u].line # q.line
  BY DEF LookupsInv, Hands, Shares
<1>3. q.line \in ReadSet(answersTo)
  BY DEF LookupsInv, Hands, Knows
<1>4. Counted(thread', answersTo) = Counted(thread, answersTo)
  BY <1>1 DEF Counted
<1>5. ASSUME thread[t].pc # "stat", q.pc # "stat" PROVE Logged(thread', answersTo) = Logged(thread, answersTo)
  <2> HIDE DEF HasLine, ReadSet, Kind
  <2>1. \A u \in Threads : \A j : (HasLine(thread'[u]) /\ thread'[u].line = j => thread'[u].pc = "stat")
                               <=> (HasLine(thread[u]) /\ thread[u].line = j => thread[u].pc = "stat")
    BY <1>1, <1>5
  <2> QED
    BY <2>1 DEF Logged
<1>6. ASSUME thread[t].pc # "stat", q.pc = "stat", Kind(q.line) # "blank"
      PROVE  /\ Logged(thread', answersTo) = Logged(thread, answersTo) \cup {q.line}
             /\ q.line \notin Logged(thread, answersTo)
  <2> HIDE DEF HasLine, ReadSet, Kind
  <2>1. \A u \in Threads : \A j : j # q.line =>
          ((HasLine(thread'[u]) /\ thread'[u].line = j => thread'[u].pc = "stat")
           <=> (HasLine(thread[u]) /\ thread[u].line = j => thread[u].pc = "stat"))
    BY <1>1
  <2>2. q.line \notin Logged(thread, answersTo)
    BY <1>6 DEF Logged
  <2>3. q.line \in Logged(thread', answersTo)
    BY <1>1, <1>2, <1>3, <1>6 DEF Logged
  <2>4. ASSUME NEW j, j # q.line PROVE j \in Logged(thread', answersTo) <=> j \in Logged(thread, answersTo)
    BY <2>1, <2>4 DEF Logged
  <2>5. \A j : j \in Logged(thread', answersTo) <=> j \in Logged(thread, answersTo) \cup {q.line}
    BY <2>3, <2>4
  <2>6. Logged(thread', answersTo) = Logged(thread, answersTo) \cup {q.line}
    BY <2>5, Zenon
  <2> QED
    BY <2>2, <2>6
<1> QED
  BY <1>4, <1>5, <1>6

LEMMA LineGivenUp ==
  ASSUME LookupsInv, NEW t \in Threads, NEW q \in Workers, Takes(t, q), thread[t].pc = "stat", ~HasLine(q)
  PROVE  /\ Counted(thread', answersTo) = Counted(thread, answersTo) \cup {thread[t].line}
         /\ thread[t].line \notin Counted(thread, answersTo)
         /\ Logged(thread', answersTo) = Logged(thread, answersTo)
<1>1. /\ thread'[t] = q
      /\ \A u \in Threads : u # t => thread'[u] = thread[u]
  BY TakesGives DEF LookupsInv
<1>2. PICK i : i = thread[t].line
  OBVIOUS
<1>3. HasLine(thread[t])
  BY DEF HasLine
<1>4. \A u \in Threads : u # t /\ HasLine(thread[u]) => thread[u].line # i
  BY <1>2, <1>3 DEF LookupsInv, Hands, Shares
<1>5. i \in ReadSet(answersTo)
  BY <1>2, <1>3 DEF LookupsInv, Hands, Knows
<1> HIDE DEF HasLine, ReadSet, Kind
<1>6. i \notin Counted(thread, answersTo)
  BY <1>2, <1>3 DEF Counted
<1>7. \A j : j \in Counted(thread', answersTo) <=> j \in Counted(thread, answersTo) \cup {i}
  <2>1. i \in Counted(thread', answersTo)
    BY <1>1, <1>4, <1>5 DEF Counted
  <2>2. ASSUME NEW j, j # i PROVE j \in Counted(thread', answersTo) <=> j \in Counted(thread, answersTo)
    <3>1. \A u \in Threads : (HasLine(thread'[u]) => thread'[u].line # j) <=> (HasLine(thread[u]) => thread[u].line # j)
      BY <1>1, <1>2, <2>2
    <3> QED
      BY <3>1 DEF Counted
  <2> QED
    BY <2>1, <2>2
<1>8. Counted(thread', answersTo) = Counted(thread, answersTo) \cup {i}
  BY <1>7, Zenon
<1>9. Logged(thread', answersTo) = Logged(thread, answersTo)
  <2>1. \A u \in Threads : \A j : (HasLine(thread'[u]) /\ thread'[u].line = j => thread'[u].pc = "stat")
                               <=> (HasLine(thread[u]) /\ thread[u].line = j => thread[u].pc = "stat")
    BY <1>1
  <2> QED
    BY <2>1 DEF Logged
<1> QED
  BY <1>2, <1>6, <1>8, <1>9

LEMMA ToSetAppend ==
  ASSUME NEW s \in Seq(Nat), NEW i \in Nat
  PROVE  /\ Append(s, i) \in Seq(Nat) /\ ToSet(Append(s, i)) = ToSet(s) \cup {i}
         /\ Distinct(s) /\ i \notin ToSet(s) => Distinct(Append(s, i))
<1>1. PICK u : u = Append(s, i)
  OBVIOUS
<1>2. /\ u \in Seq(Nat) /\ Len(u) = Len(s) + 1 /\ u[Len(s) + 1] = i
      /\ \A j \in 1..Len(s) : u[j] = s[j]
  BY <1>1, AppendProperties
<1>3. DOMAIN u = 1..(Len(s) + 1) /\ DOMAIN s = 1..Len(s) /\ Len(s) \in Nat
  BY <1>2
<1>4. ToSet(u) = ToSet(s) \cup {i}
  BY <1>2, <1>3 DEF ToSet
<1>5. ASSUME Distinct(s), i \notin ToSet(s) PROVE Distinct(u)
  BY <1>2, <1>3, <1>5 DEF Distinct, IsInjective, ToSet
<1> QED
  BY <1>1, <1>2, <1>4, <1>5

LEMMA WriteAddressStep == ASSUME LookupsInv, NEW t \in Threads, WriteAddress(t) PROVE LookupsInv'
<1>1. PICK r : r = thread[t]
  OBVIOUS
<1>2. r.pc = "print" /\ HasLine(r)
  BY <1>1 DEF WriteAddress, Is, HasLine
<1>3. PICK i : i = r.line
  OBVIOUS
<1>4. i \in ReadSet(answersTo) /\ Knows(r) /\ r \in Workers /\ i \in Nat /\ Kind(i) \in {"blank", "domain", "bad", "address"}
  BY <1>1, <1>2, <1>3, AtLine DEF Workers
<1>5. r.ok = TRUE /\ r.left > 0 /\ Ok(i)
  BY <1>2, <1>3, <1>4 DEF Knows, Answered
<1>6. PICK place : place = IF r.left = 1 THEN "log" ELSE "print"
  OBVIOUS
<1>7. PICK b : b = [r EXCEPT !.left = r.left - 1]
  OBVIOUS
<1>8. PICK q : q = [b EXCEPT !.pc = place]
  OBVIOUS
<1>9. b \in Workers /\ b.line = i /\ b.ok = TRUE /\ b.left = r.left - 1
  <2>1. r.left - 1 \in Nat /\ r.left \in Nat
    BY <1>4, <1>5 DEF Workers
  <2>2. PICK n \in Nat : n = r.left - 1
    BY <2>1
  <2>3. b = [r EXCEPT !.left = n]
    BY <1>7, <2>2
  <2>4. b \in Workers /\ b.line = i /\ b.left = n
    BY <1>3, <1>4, <2>3 DEF Workers
  <2>5. b.ok = TRUE
    BY <1>4, <1>5, <2>3 DEF Workers
  <2> QED
    BY <2>2, <2>4, <2>5
<1>10. q \in Workers /\ q.line = i /\ q.ok = TRUE /\ q.pc \in {"log", "print"} /\ HasLine(q) /\ (q.pc = "print" => q.left > 0)
  <2>1. place \in {"log", "print"} /\ place \in Steps
    BY <1>6 DEF Steps
  <2>2. q.ok = TRUE
    BY <1>8, <1>9 DEF Workers
  <2>3. q \in Workers /\ q.line = i /\ q.pc = place /\ q.left = b.left
    BY <1>8, <1>9, <2>1 DEF Workers
  <2>4. r.left \in Nat
    BY <1>4 DEF Workers
  <2>5. place = "print" => b.left > 0
    BY <1>5, <1>6, <1>9, <2>4
  <2> QED
    BY <2>1, <2>2, <2>3, <2>5 DEF HasLine
<1>11. Takes(t, q)
  <2>1. [r EXCEPT !.left = @ - 1, !.pc = IF r.left = 1 THEN "log" ELSE @] = q
    <3>1. r.pc = "print"
      BY <1>2
    <3>2. [r EXCEPT !.left = @ - 1, !.pc = IF r.left = 1 THEN "log" ELSE @] =
            [[r EXCEPT !.left = r.left - 1] EXCEPT !.pc = IF r.left = 1 THEN "log" ELSE [r EXCEPT !.left = r.left - 1].pc]
      BY Zenon
    <3>3. b.pc = "print"
      BY <1>2, <1>4, <1>7 DEF Workers
    <3> QED
      BY <1>6, <1>7, <1>8, <3>2, <3>3, Zenon
  <2>2. Goes(t, [r EXCEPT !.left = @ - 1, !.pc = IF r.left = 1 THEN "log" ELSE @])
    BY <1>1 DEF WriteAddress
  <2> QED
    BY <2>1, <2>2, Zenon DEF Goes, Takes
<1>12. /\ Quiet /\ logged' = logged /\ stats' = stats /\ main' = main /\ reports' = reports
       /\ printed' = Append(printed, i)
  BY <1>1, <1>3 DEF WriteAddress, Quiet
<1>13. printed' \in Seq(Nat) /\ ToSet(printed') = ToSet(printed) \cup {i}
  BY <1>4, <1>12, ToSetAppend DEF LookupsInv, Books
<1>14. /\ ReadSet(answersTo)' = ReadSet(answersTo) /\ FirstsRead'
       /\ \A j : (Ok(j)' <=> Ok(j)) /\ Kind(j)' = Kind(j)
  BY <1>12, QuietKeeps DEF LookupsInv
<1>15. InputTyped'
  BY <1>10, <1>11, <1>12, TakesGives DEF LookupsInv, InputTyped, Quiet
<1>16. Kind(i) # "blank"
  BY <1>5 DEF Ok, Kind
<1>17. Knows(q)'
  <2>1. i \in ToSet(printed)'
    <3>1. i \in ToSet(printed')
      BY <1>13
    <3> QED
      BY <3>1 DEF ToSet
  <2> HIDE DEF Ok, Kind, ReadSet
  <2> QED
    BY <1>4, <1>5, <1>10, <1>14, <1>16, <2>1 DEF Knows, HasLine, Answered
<1>18. Hands'
  <2>1. ToSet(printed) \subseteq ToSet(printed')
    BY <1>13
  <2>2. HasLine(q) => HasLine(thread[t]) /\ thread[t].line = q.line
    BY <1>1, <1>2, <1>3, <1>10
  <2> QED
    BY <1>10, <1>11, <1>12, <1>17, <2>1, <2>2, HandsMove DEF LookupsInv, Quiet
<1>19. /\ Counted(thread, answersTo)' = Counted(thread, answersTo)
       /\ Logged(thread, answersTo)' = Logged(thread, answersTo)
  <2>1. /\ Counted(thread', answersTo) = Counted(thread, answersTo)
        /\ Logged(thread', answersTo) = Logged(thread, answersTo)
    <3>1. thread[t].pc # "stat" /\ q.pc # "stat" /\ HasLine(thread[t]) /\ HasLine(q) /\ q.line = thread[t].line
      BY <1>1, <1>2, <1>3, <1>10
    <3> QED
      BY <1>10, <1>11, <3>1, LineStays
  <2> QED
    BY <1>12, <2>1, SetsPrimed DEF LookupsInv
<1>20. Counts'
  <2>1. {j \in Counted(thread, answersTo) : Ok(j)}' = {j \in Counted(thread, answersTo) : Ok(j)}
    BY <1>14, <1>19
  <2> QED
    BY <1>12, <1>19, <2>1 DEF LookupsInv, Counts
<1>21. Books'
  <2>1. /\ {j \in Logged(thread, answersTo) : Ok(j)}' = {j \in Logged(thread, answersTo) : Ok(j)}
        /\ {j \in Logged(thread, answersTo) : ~Ok(j)}' = {j \in Logged(thread, answersTo) : ~Ok(j)}
    BY <1>14, <1>19
  <2>2. ToSet(printed)' = ToSet(printed) \cup {i}
    BY <1>13 DEF ToSet
  <2> QED
    BY <1>4, <1>5, <1>12, <1>13, <1>14, <2>1, <2>2 DEF LookupsInv, Books
<1>22. Told'
  BY <1>1, <1>2, <1>12, ToldKept DEF LookupsInv, Told
<1> QED
  BY <1>14, <1>15, <1>18, <1>20, <1>21, <1>22 DEF LookupsInv

LEMMA LogStep == ASSUME LookupsInv, NEW t \in Threads, Log(t) PROVE LookupsInv'
<1>1. PICK r : r = thread[t]
  OBVIOUS
<1>2. r.pc = "log" /\ HasLine(r)
  BY <1>1 DEF Log, Is, HasLine
<1>3. PICK i : i = r.line
  OBVIOUS
<1>4. i \in ReadSet(answersTo) /\ Knows(r) /\ r \in Workers /\ i \in Nat
  BY <1>1, <1>2, <1>3, AtLine DEF Workers
<1>5. Kind(i) # "blank" /\ (r.ok = TRUE <=> Ok(i)) /\ (r.ok = TRUE => i \in ToSet(printed))
  BY <1>2, <1>3, <1>4 DEF Knows, Answered
<1>6. PICK q : q = [r EXCEPT !.pc = "stat"]
  OBVIOUS
<1>7. q \in Workers /\ q.line = i /\ q.pc = "stat" /\ q.ok = r.ok /\ HasLine(q)
  <2>1. q \in Workers /\ q.line = i /\ q.pc = "stat"
    BY <1>3, <1>4, <1>6 DEF Workers, Steps
  <2>2. q.ok = r.ok
    BY <1>4, <1>6 DEF Workers
  <2> QED
    BY <2>1, <2>2 DEF HasLine
<1>8. Takes(t, q)
  BY <1>1, <1>6 DEF Log, GoesTo, Goes, Takes
<1>9. PICK file : file = IF Ok(i) THEN "ok" ELSE "fail"
  OBVIOUS
<1>10. /\ Quiet /\ printed' = printed /\ stats' = stats /\ main' = main /\ reports' = reports
       /\ logged' = [logged EXCEPT ![file] = Append(@, i)]
  <2>1. file = IF r.ok THEN "ok" ELSE "fail"
    BY <1>4, <1>5, <1>9 DEF Workers
  <2>2. logged' = [logged EXCEPT ![IF r.ok THEN "ok" ELSE "fail"] = Append(@, i)]
    BY <1>1, <1>3 DEF Log
  <2> QED
    BY <2>1, <2>2 DEF Log, Quiet
<1>11. /\ logged = [ok |-> logged.ok, fail |-> logged.fail] /\ Distinct(logged.ok) /\ Distinct(logged.fail)
       /\ ToSet(logged.ok) = {j \in Logged(thread, answersTo) : Ok(j)}
       /\ ToSet(logged.fail) = {j \in Logged(thread, answersTo) : ~Ok(j)}
  BY DEF LookupsInv, Books
<1>12. /\ Counted(thread, answersTo)' = Counted(thread, answersTo)
       /\ Logged(thread, answersTo)' = Logged(thread, answersTo) \cup {i}
       /\ i \notin Logged(thread, answersTo)
  <2>1. /\ thread[t].pc # "stat" /\ q.pc = "stat" /\ HasLine(thread[t]) /\ HasLine(q) /\ q.line = thread[t].line
        /\ Kind(q.line) # "blank" /\ q.line = i
    BY <1>1, <1>2, <1>3, <1>5, <1>7
  <2>2. /\ Counted(thread', answersTo) = Counted(thread, answersTo)
        /\ Logged(thread', answersTo) = Logged(thread, answersTo) \cup {i}
        /\ i \notin Logged(thread, answersTo)
    BY <1>7, <1>8, <2>1, LineStays
  <2> QED
    BY <1>10, <2>2, SetsPrimed DEF LookupsInv
<1>13. /\ ReadSet(answersTo)' = ReadSet(answersTo) /\ FirstsRead'
       /\ \A j : (Ok(j)' <=> Ok(j)) /\ Kind(j)' = Kind(j)
  BY <1>10, QuietKeeps DEF LookupsInv
<1>14. /\ logged' = [ok |-> logged'.ok, fail |-> logged'.fail]
       /\ Ok(i) => logged'.ok = Append(logged.ok, i) /\ logged'.fail = logged.fail
       /\ ~Ok(i) => logged'.ok = logged.ok /\ logged'.fail = Append(logged.fail, i)
  <2> HIDE DEF Ok
  <2>1. PICK a : a = logged.ok
    OBVIOUS
  <2>2. PICK b : b = logged.fail
    OBVIOUS
  <2>3. logged = [ok |-> a, fail |-> b]
    BY <1>11, <2>1, <2>2
  <2>4. CASE Ok(i)
    <3>1. PICK c : c = Append(a, i)
      OBVIOUS
    <3>2. logged' = [logged EXCEPT !["ok"] = c]
      BY <1>9, <1>10, <2>1, <2>4, <3>1
    <3>3. logged' = [ok |-> c, fail |-> b]
      BY <2>3, <3>2
    <3> QED
      BY <2>1, <2>2, <2>4, <3>1, <3>3
  <2>5. CASE ~Ok(i)
    <3>1. PICK c : c = Append(b, i)
      OBVIOUS
    <3>2. logged' = [logged EXCEPT !["fail"] = c]
      BY <1>9, <1>10, <2>2, <2>5, <3>1
    <3>3. logged' = [ok |-> a, fail |-> c]
      BY <2>3, <3>2
    <3> QED
      BY <2>1, <2>2, <2>5, <3>1, <3>3
  <2> QED
    BY <2>4, <2>5
<1>15. /\ Distinct(logged'.ok) /\ Distinct(logged'.fail)
       /\ ToSet(logged'.ok) = {j \in Logged(thread, answersTo) \cup {i} : Ok(j)}
       /\ ToSet(logged'.fail) = {j \in Logged(thread, answersTo) \cup {i} : ~Ok(j)}
  <2>1. logged.ok \in Seq(Nat) /\ logged.fail \in Seq(Nat)
    BY <1>11 DEF Distinct
  <2>2. i \notin ToSet(logged.ok) /\ i \notin ToSet(logged.fail)
    BY <1>11, <1>12
  <2> HIDE DEF Ok
  <2>3. CASE Ok(i)
    <3>1. Distinct(Append(logged.ok, i)) /\ ToSet(Append(logged.ok, i)) = ToSet(logged.ok) \cup {i}
      BY <1>4, <1>11, <2>1, <2>2, ToSetAppend
    <3> QED
      BY <1>11, <1>14, <2>3, <3>1
  <2>4. CASE ~Ok(i)
    <3>1. Distinct(Append(logged.fail, i)) /\ ToSet(Append(logged.fail, i)) = ToSet(logged.fail) \cup {i}
      BY <1>4, <1>11, <2>1, <2>2, ToSetAppend
    <3> QED
      BY <1>11, <1>14, <2>4, <3>1
  <2> QED
    BY <2>3, <2>4
<1>16. InputTyped'
  BY <1>7, <1>8, <1>10, TakesGives DEF LookupsInv, InputTyped, Quiet
<1>17. Knows(q)'
  <2> HIDE DEF Ok, Kind, ReadSet
  <2> QED
    BY <1>4, <1>5, <1>7, <1>13 DEF Knows, HasLine, Answered
<1>18. Hands'
  <2>1. ToSet(printed) \subseteq ToSet(printed')
    BY <1>10
  <2>2. HasLine(q) => HasLine(thread[t]) /\ thread[t].line = q.line
    BY <1>1, <1>2, <1>3, <1>7
  <2> QED
    BY <1>7, <1>8, <1>10, <1>17, <2>1, <2>2, HandsMove DEF LookupsInv, Quiet
<1>19. Counts'
  <2>1. {j \in Counted(thread, answersTo) : Ok(j)}' = {j \in Counted(thread, answersTo) : Ok(j)}
    BY <1>12, <1>13
  <2> QED
    BY <1>10, <1>12, <2>1 DEF LookupsInv, Counts
<1>20. Books'
  <2>1. /\ {j \in Logged(thread, answersTo) : Ok(j)}' = {j \in Logged(thread, answersTo) \cup {i} : Ok(j)}
        /\ {j \in Logged(thread, answersTo) : ~Ok(j)}' = {j \in Logged(thread, answersTo) \cup {i} : ~Ok(j)}
    BY <1>12, <1>13
  <2>2. ToSet(logged.ok)' = ToSet(logged'.ok) /\ ToSet(logged.fail)' = ToSet(logged'.fail) /\ ToSet(printed)' = ToSet(printed)
    BY <1>10 DEF ToSet
  <2>3. ToSet(logged.ok)' \subseteq ToSet(printed)'
    <3>1. ToSet(logged.ok) \subseteq ToSet(printed)
      BY DEF LookupsInv, Books
    <3> HIDE DEF Ok
    <3> QED
      BY <1>5, <1>11, <1>15, <2>2, <3>1
  <2>4. printed' \in Seq(Nat) /\ \A j \in ToSet(printed) : j \in ReadSet(answersTo)' /\ Ok(j)'
    BY <1>10, <1>13 DEF LookupsInv, Books
  <2> HIDE DEF Ok
  <2> QED
    BY <1>14, <1>15, <2>1, <2>2, <2>3, <2>4 DEF Books
<1>21. Told'
  BY <1>1, <1>2, <1>10, ToldKept DEF LookupsInv, Told
<1> QED
  BY <1>13, <1>16, <1>18, <1>19, <1>20, <1>21 DEF LookupsInv

LEMMA StatPlusStep == ASSUME LookupsInv, NEW t \in Threads, StatPlus(t) PROVE LookupsInv'
<1>1. PICK r : r = thread[t]
  OBVIOUS
<1>2. r.pc = "stat" /\ HasLine(r)
  BY <1>1 DEF StatPlus, Is, HasLine
<1>3. PICK i : i = r.line
  OBVIOUS
<1>4. i \in ReadSet(answersTo) /\ Knows(r) /\ r \in Workers /\ i \in Nat
  BY <1>1, <1>2, <1>3, AtLine DEF Workers
<1>5. r.ok = TRUE <=> Ok(i)
  BY <1>2, <1>3, <1>4 DEF Knows, Answered
<1>6. PICK more : more = IF Ok(i) THEN 1 ELSE 0
  OBVIOUS
<1>7. stats.ct \in Nat /\ stats.ok \in Nat /\ more \in {0, 1}
  BY <1>6, StatsTyped DEF LookupsInv
<1>8. /\ stats'.ct = stats.ct + 1 /\ stats'.ok = stats.ok + more
      /\ stats'.ct \in Nat /\ stats'.ok \in Nat
  <2>1. (IF r.ok THEN 1 ELSE 0) = more
    BY <1>4, <1>5, <1>6 DEF Workers
  <2>2. PICK a : a = stats.ct + 1
    OBVIOUS
  <2>3. PICK b : b = stats.ok + more
    OBVIOUS
  <2>4. stats' = [ct |-> a, ok |-> b]
    BY <1>1, <2>1, <2>2, <2>3 DEF StatPlus
  <2>5. a \in Nat /\ b \in Nat
    BY <1>7, <2>2, <2>3
  <2> QED
    BY <2>2, <2>3, <2>4, <2>5
<1>9. \E q : q \in Workers /\ q.pc \in {"report", "read"} /\ Takes(t, q)
  <2>1. CASE stats'.ct % StatsEvery = 0
    <3>1. PICK a : a = [r EXCEPT !.pc = "report"]
      OBVIOUS
    <3>2. PICK b : b = [a EXCEPT !.tries = stats'.ct]
      OBVIOUS
    <3>3. PICK q : q = [b EXCEPT !.left = stats'.ok]
      OBVIOUS
    <3>4. a \in Workers /\ a.pc = "report"
      BY <1>4, <3>1 DEF Workers, Steps
    <3>5. b \in Workers /\ b.pc = "report"
      <4>1. PICK n \in Nat : n = stats'.ct
        BY <1>8
      <4>2. b = [a EXCEPT !.tries = n]
        BY <3>2, <4>1
      <4> QED
        BY <3>4, <4>2 DEF Workers
    <3>6. q \in Workers /\ q.pc = "report"
      <4>1. PICK n \in Nat : n = stats'.ok
        BY <1>8
      <4>2. q = [b EXCEPT !.left = n]
        BY <3>3, <4>1
      <4> QED
        BY <3>5, <4>2 DEF Workers
    <3>7. Goes(t, [r EXCEPT !.pc = "report", !.tries = stats'.ct, !.left = stats'.ok])
      BY <1>1, <2>1 DEF StatPlus
    <3>8. q = [r EXCEPT !.pc = "report", !.tries = stats'.ct, !.left = stats'.ok]
      BY <3>1, <3>2, <3>3, Zenon
    <3>9. Takes(t, q)
      BY <3>7, <3>8, Zenon DEF Goes, Takes
    <3> QED
      BY <3>6, <3>9
  <2>2. CASE stats'.ct % StatsEvery # 0
    <3>1. PICK q : q = Idle
      OBVIOUS
    <3>2. q \in Workers /\ q.pc = "read"
      BY <3>1 DEF Idle, Workers, Steps
    <3>3. Goes(t, Idle)
      BY <2>2 DEF StatPlus
    <3>4. Takes(t, q)
      BY <3>1, <3>3, Zenon DEF Goes, Takes
    <3> QED
      BY <3>2, <3>4
  <2> QED
    BY <2>1, <2>2
<1>10. PICK q : q \in Workers /\ q.pc \in {"report", "read"} /\ Takes(t, q)
  BY <1>9
<1>11. ~HasLine(q)
  BY <1>10 DEF HasLine
<1>12. Quiet /\ printed' = printed /\ logged' = logged /\ main' = main /\ reports' = reports
  BY DEF StatPlus, Quiet
<1>13. /\ Counted(thread, answersTo)' = Counted(thread, answersTo) \cup {i} /\ i \notin Counted(thread, answersTo)
       /\ Logged(thread, answersTo)' = Logged(thread, answersTo)
  <2>1. /\ Counted(thread', answersTo) = Counted(thread, answersTo) \cup {i} /\ i \notin Counted(thread, answersTo)
        /\ Logged(thread', answersTo) = Logged(thread, answersTo)
    BY <1>1, <1>2, <1>3, <1>10, <1>11, LineGivenUp
  <2> QED
    BY <1>12, <2>1, SetsPrimed DEF LookupsInv
<1>14. /\ ReadSet(answersTo)' = ReadSet(answersTo) /\ FirstsRead'
       /\ \A j : (Ok(j)' <=> Ok(j)) /\ Kind(j)' = Kind(j)
  BY <1>12, QuietKeeps DEF LookupsInv
<1>15. InputTyped'
  BY <1>10, <1>12, TakesGives DEF LookupsInv, InputTyped, Quiet
<1>16. Knows(q)'
  BY <1>10, <1>11 DEF Knows, HasLine, Answered
<1>17. Hands'
  <2>1. ToSet(printed) \subseteq ToSet(printed')
    BY <1>12
  <2> QED
    BY <1>10, <1>11, <1>12, <1>16, <2>1, HandsMove DEF LookupsInv, Quiet
<1>18. Counts'
  <2> DEFINE C == Counted(thread, answersTo)
  <2> DEFINE G == {j \in C : Ok(j)}
  <2>1. IsFiniteSet(C) /\ IsFiniteSet(G)
    BY FiniteCounts DEF LookupsInv
  <2>2. stats.ct = Cardinality(C) /\ stats.ok = Cardinality(G)
    BY DEF LookupsInv, Counts
  <2>3. Cardinality(C \cup {i}) = Cardinality(C) + 1
    BY <1>13, <2>1, FS_AddElement
  <2>4. {j \in C : Ok(j)}' = {j \in C \cup {i} : Ok(j)}
    BY <1>13, <1>14
  <2>5. {j \in C \cup {i} : Ok(j)} = IF Ok(i) THEN G \cup {i} ELSE G
    OBVIOUS
  <2>6. Cardinality(G \cup {i}) = Cardinality(G) + 1
    <3>1. i \notin G
      BY <1>13
    <3> QED
      BY <2>1, <3>1, FS_AddElement
  <2>7. Cardinality({j \in C \cup {i} : Ok(j)}) = Cardinality(G) + more
    <3> HIDE DEF G, C
    <3>1. CASE Ok(i)
      BY <1>6, <2>5, <2>6, <3>1
    <3>2. CASE ~Ok(i)
      <4>1. Cardinality(G) \in Nat
        BY <1>7, <2>2
      <4> QED
        BY <1>6, <2>5, <3>2, <4>1
    <3> QED
      BY <3>1, <3>2
  <2> QED
    BY <1>8, <1>13, <2>2, <2>3, <2>4, <2>7 DEF Counts
<1>19. Books'
  <2>1. /\ {j \in Logged(thread, answersTo) : Ok(j)}' = {j \in Logged(thread, answersTo) : Ok(j)}
        /\ {j \in Logged(thread, answersTo) : ~Ok(j)}' = {j \in Logged(thread, answersTo) : ~Ok(j)}
    BY <1>13, <1>14
  <2> QED
    BY <1>12, <1>14, <2>1 DEF LookupsInv, Books
<1>20. Told'
  BY <1>1, <1>2, <1>12, ToldKept DEF LookupsInv, Told
<1> QED
  BY <1>14, <1>15, <1>17, <1>18, <1>19, <1>20 DEF LookupsInv

\* Before the first thread is created no line is in a hand.
LEMMA LookupsInitial == LookupsInit => LookupsInv
<1> SUFFICES ASSUME LookupsInit PROVE LookupsInv
  OBVIOUS
<1>1. PICK n \in 0..MaxLines : input \in [1..n -> Lines]
  BY DEF LookupsInit
<1>2. input \in Seq(Lines) /\ Len(input) = n /\ n \in Nat /\ DOMAIN input = 1..n
  BY <1>1
<1>3. fed = 0 /\ eof = FALSE /\ answersTo = [i \in 1..n |-> "none"] /\ main = "create"
  BY <1>2 DEF LookupsInit
<1>4. \A t \in Threads : thread[t].pc = "none" /\ ~HasLine(thread[t])
  BY DEF LookupsInit, Idle, HasLine
<1>5. thread \in [Threads -> Workers]
  <2>1. PICK q : q = [Idle EXCEPT !.pc = "none"]
    OBVIOUS
  <2>2. q \in Workers
    BY <2>1 DEF Idle, Workers, Steps
  <2> QED
    BY <2>1, <2>2 DEF LookupsInit
<1>6. InputTyped
  <2>1. answersTo \in [1..Len(input) -> Answers]
    BY <1>2, <1>3 DEF Answers
  <2>2. fed \in 0..Len(input)
    BY <1>2, <1>3
  <2> QED
    BY <1>2, <1>3, <1>5, <2>1, <2>2 DEF InputTyped
<1>7. ReadSet(answersTo) = {}
  BY <1>3 DEF ReadSet
<1>8. FirstsRead
  <2>1. 1..0 = {} /\ 0 \in Nat /\ 0 \in 0..0
    OBVIOUS
  <2> QED
    BY <1>3, <1>7, <2>1 DEF FirstsRead, FirstRead
<1>9. Hands
  BY <1>4 DEF Hands, Knows, HasLine, Answered, Shares
<1>10. Counted(thread, answersTo) = {} /\ Logged(thread, answersTo) = {}
  BY <1>7 DEF Counted, Logged
<1>11. printed = <<>> /\ logged = [ok |-> <<>>, fail |-> <<>>] /\ stats = [ct |-> 0, ok |-> 0] /\ reports = <<>>
  BY DEF LookupsInit
<1>12. ToSet(<<>>) = {} /\ Distinct(<<>>)
  BY DEF ToSet, Distinct, IsInjective
<1>13. Books
  <2>1. logged.ok = <<>> /\ logged.fail = <<>>
    BY <1>11
  <2> HIDE DEF ToSet, Distinct
  <2> QED
    BY <1>10, <1>11, <1>12, <2>1 DEF Books
<1>14. Counts
  <2>1. Cardinality({}) = 0
    BY FS_EmptySet
  <2>2. {i \in Counted(thread, answersTo) : Ok(i)} = {}
    BY <1>10
  <2> QED
    BY <1>10, <1>11, <2>1, <2>2 DEF Counts
<1>15. Told
  BY <1>3, <1>11 DEF Told
<1> QED
  BY <1>6, <1>8, <1>9, <1>13, <1>14, <1>15 DEF LookupsInv

LEMMA LookupsStep == ASSUME LookupsInv, [LookupsNext]_lookups PROVE LookupsInv'
<1>1. ASSUME NEW t \in Threads, ThreadNext(t) PROVE LookupsInv'
  <2>1. CASE GetLine(t)
    <3>1. CASE LinesRead < fed
      <4>1. ~(LinesRead = fed)
        <5>1. PICK n \in Nat : n = LinesRead
          BY FiniteCounts, FS_CardinalityType DEF LinesRead, ReadSet, LookupsInv
        <5>2. fed \in Nat
          BY DEF LookupsInv, InputTyped
        <5> QED
          BY <3>1, <5>1, <5>2
      <4> QED
        BY <2>1, <3>1, <4>1, TakeLineStep DEF GetLine, Answers1
    <3>2. CASE ~(LinesRead < fed)
      BY <2>1, <3>2, EndStep DEF GetLine
    <3> QED
      BY <3>1, <3>2
  <2> QED
    BY <1>1, <2>1, TakeLockStep, LookStep, LookupStep, WriteAddressStep, LogStep, StatPlusStep, StatPrintStep
    DEF ThreadNext
<1>2. CASE UNCHANGED lookups
  <2>1. thread' = thread /\ Silent /\ main' = main /\ reports' = reports
    BY <1>2 DEF lookups, Silent
  <2>2. Told'
    BY <1>2 DEF LookupsInv, Told, Finished, lookups
  <2> QED
    BY <2>1, <2>2, ThreadsKept DEF LookupsInv
<1> QED
  BY <1>1, <1>2, CreateStep, JoinStep, ControlStep, InputStep DEF LookupsNext, RunThreads

\* When mdig returns success, every line it was fed has been answered once, in
\* the log of its outcome and with its addresses on stdout, and the last
\* statistics count them all (t_resolver and run_threads).
THEOREM AllLinesAnswered == LookupsSpec => []LinesAnswered
<1>1. LookupsInv => LinesAnswered
  <2>1. SUFFICES ASSUME LookupsInv, main = "0" PROVE LinesAnswered
    BY DEF LinesAnswered
  <2>2. \A t \in Threads : ~HasLine(thread[t])
    BY <2>1 DEF LookupsInv, Told, Finished, HasLine
  <2>3. ReadSet(answersTo) = 1..Len(input)
    <3>1. PICK t \in Threads : thread[t].pc = "ended"
      BY <2>1 DEF LookupsInv, Told, Finished
    <3> QED
      BY <2>1, <3>1 DEF LookupsInv, Hands, Knows
  <2>4. DOMAIN input = 1..Len(input) /\ Len(input) \in Nat
    BY <2>1 DEF LookupsInv, InputTyped
  <2>5. Counted(thread, answersTo) = DOMAIN input
    BY <2>2, <2>3, <2>4 DEF Counted
  <2>6. Logged(thread, answersTo) = {i \in DOMAIN input : input[i].kind # "blank"}
    BY <2>2, <2>3, <2>4 DEF Logged, Kind
  <2>7. {i \in Logged(thread, answersTo) : Ok(i)} = {i \in DOMAIN input : Ok(i)}
    BY <2>6 DEF Ok
  <2>8. {i \in Logged(thread, answersTo) : ~Ok(i)} = {i \in DOMAIN input : input[i].kind # "blank" /\ ~Ok(i)}
    BY <2>6
  <2>9. Cardinality(DOMAIN input) = Len(input)
    <3>2. PICK n \in Nat : n = Len(input)
      BY <2>4
    <3>3. Cardinality(1..n) = n
      BY FS_Interval
    <3>1. Cardinality(1..Len(input)) = Len(input)
      BY <3>2, <3>3
    <3> QED
      BY <2>4, <3>1
  <2>10. Last(reports) = <<Len(input), Cardinality({i \in DOMAIN input : Ok(i)})>>
    <3>1. reports[Len(reports)] = <<stats.ct, stats.ok>>
      BY <2>1 DEF LookupsInv, Told
    <3>2. stats.ct = Len(input) /\ stats.ok = Cardinality({i \in DOMAIN input : Ok(i)})
      BY <2>1, <2>5, <2>9 DEF LookupsInv, Counts
    <3>3. Last(reports) = reports[Len(reports)]
      BY DEF Last
    <3> QED
      BY <3>1, <3>2, <3>3
  <2>11. ToSet(printed) = {i \in DOMAIN input : Ok(i)}
    <3>1. {i \in DOMAIN input : Ok(i)} \subseteq ToSet(printed)
      BY <2>1, <2>7 DEF LookupsInv, Books
    <3>2. \A i \in ToSet(printed) : i \in DOMAIN input /\ Ok(i)
      BY <2>1, <2>3, <2>4 DEF LookupsInv, Books
    <3> HIDE DEF Ok
    <3> QED
      BY <3>1, <3>2
  <2> HIDE DEF Ok
  <2> QED
    BY <2>1, <2>7, <2>8, <2>10, <2>11 DEF LookupsInv, Books, Distinct, LinesAnswered
<1> QED
  BY LookupsInitial, LookupsStep, <1>1, PTL DEF LookupsSpec
=============================================================================
