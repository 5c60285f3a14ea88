--------------------------- MODULE DatagramsProofs ---------------------------
(***************************************************************************)
(* Theorems about the path of datagrams (Datagrams), for any profiles,     *)
(* flows, handshakes and traffic.                                          *)
(*                                                                         *)
(* The invariant PathInv has the types of what the engine keeps, what is   *)
(* known at each step of the path of one datagram, and what is known of    *)
(* every entry that is not being replayed: it holds datagrams exactly when *)
(* its session is open, the buffer has their frames, they are not a whole  *)
(* ClientHello and their profile is known.  The actions of the engine on   *)
(* one datagram come down to seven shapes (StepShape): what they do to the *)
(* entry and to what was sent.  That the invariant is kept, and that each  *)
(* step does what PacketPath allows, is shown for the shapes.              *)
(***************************************************************************)
EXTENDS Datagrams, SequenceFacts, TLAPS

-----------------------------------------------------------------------------
\* What the engine keeps is well formed.
Hosts == {NoHost, rules.hello.host}
Reasm == {r \in [size : {0, MaxReasm}, have : Nat, seq : {0}, at : {0}] : r.have <= r.size}
IsEntry(c, t) ==
  /\ {"retrans", "l7", "host", "dp", "check", "ahCheck", "reasm",
      "delayed"} \subseteq DOMAIN t
  /\ t.retrans \in 0..Stop /\ t.l7 \in Protocols /\ t.host \in Hosts
  /\ t.dp \in 0..Len(Strategies) /\ t.reasm \in Reasm /\ t.delayed \in Seq(Captured(c))
Out == [p : Datagram, how : {"orig", "changed", "fake"}]
Steps == {"idle", "find", "payload", "replay", "discover", "check", "act", "done"}
TypeInv ==
  /\ rules \in Rules
  /\ DOMAIN table \subseteq Flows /\ \A c \in DOMAIN table : IsEntry(c, table[c])
  /\ plain \in [Flows -> Seq(Frame)]
  /\ pc \in Steps /\ cur \in Datagram /\ dp \in 0..Len(Strategies)
  /\ replay \in BOOLEAN /\ first \in BOOLEAN /\ out \in Seq(Out)
  /\ pc \notin {"idle", "done"} => Tracked /\ cur \in Captured(cur.conn)

\* What is known at each step of the path of a datagram.
PlaceInv ==
  /\ pc \in {"idle", "find", "done"} => ~replay
  /\ ~replay /\ pc = "payload" => T.dp # 0
  /\ ~replay /\ pc \in {"discover", "check", "act"} => T.delayed = <<>>
  /\ ~replay /\ pc \in {"find", "payload", "replay"} => out = <<>>
  /\ replay /\ first /\ pc \in {"payload", "discover", "check", "act"} => out = <<>>

\* What is known of every entry but the one that is replayed.
Whole(frames) ==
  LET d == Defrag(frames)
  IN d.found /\ d.full /\ d.len > 0 /\ d.buf[0] = "data" /\ d.len >= rules.hello.size
Settled(c) ==
  LET t == table[c]
  IN /\ t.delayed # <<>> <=> t.reasm.size # 0
     /\ plain[c] = FramesOf(t.delayed)
     /\ t.delayed # <<>> => t.dp # 0 /\ ~Whole(plain[c])
Replayed(c) == c = cur.conn /\ (replay \/ pc = "replay")
SettledInv == \A c \in DOMAIN table : ~Replayed(c) => Settled(c)

PathInv == TypeInv /\ PlaceInv /\ SettledInv /\ FakesLead

-----------------------------------------------------------------------------
\* The parts of an entry that counting and limits leave alone.
Like(t, u) ==
  /\ u.reasm = t.reasm /\ u.delayed = t.delayed /\ u.dp = t.dp /\ u.l7 = t.l7 /\ u.host = t.host
  /\ u.check = t.check /\ u.retrans \in {t.retrans, Stop}

\* The updates of an entry.
LEMMA NewEntry ==
  ASSUME NEW c
  PROVE  /\ IsEntry(c, UdpEntry) /\ UdpEntry.delayed = <<>> /\ UdpEntry.reasm = NoReasm
         /\ UdpEntry.retrans = 0 /\ ~UdpEntry.check.done
<1> DEFINE n == NewTrack(now)
<1>1. <<>> \in Seq(Captured(c)) /\ NoReasm \in Reasm /\ 0 \in 0..Len(Strategies) /\ 0 \in 0..Stop
      /\ "unknown" \in Protocols /\ NoHost \in Hosts
  BY DatagramAssumption DEF NoReasm, Reasm, Stop, Protocols, Hosts
<1>2. /\ {"retrans", "l7", "host", "dp", "check", "ahCheck", "reasm",
          "delayed"} \subseteq DOMAIN n
      /\ ~n.check.done /\ n.retrans = 0 /\ n.l7 = "unknown" /\ n.dp = 0 /\ n.reasm = NoReasm /\ n.delayed = <<>>
  BY DEF NewTrack
<1>3. UdpEntry = [n EXCEPT !.host = NoHost]
  BY DEF UdpEntry
<1> HIDE DEF n
<1> QED
  BY <1>1, <1>2, <1>3 DEF IsEntry

LEMMA CountedEntry ==
  ASSUME NEW c, NEW t, IsEntry(c, t), NEW p
  PROVE  IsEntry(c, UdpFedEntry(t, p)) /\ Like(t, UdpFedEntry(t, p))
<1> DEFINE u == Counted(t, p)
<1>1. IsEntry(c, u) /\ Like(t, u)
  BY DEF IsEntry, Like, Counted
<1>2. UdpFedEntry(t, p) = [u EXCEPT !.last = now]
  BY DEF UdpFedEntry
<1> HIDE DEF u
<1> QED
  BY <1>1, <1>2 DEF IsEntry, Like

LEMMA CutoffEntry ==
  ASSUME NEW c, NEW t, IsEntry(c, t), NEW s
  PROVE  IsEntry(c, MaybeCutoff(t, s)) /\ Like(t, MaybeCutoff(t, s))
  BY DEF IsEntry, Like, MaybeCutoff

LEMMA StopEntry ==
  ASSUME NEW c, NEW t, IsEntry(c, t), NEW s
  PROVE  IsEntry(c, StopRetrans(t, s)) /\ Like(t, StopRetrans(t, s))
<1> DEFINE u == [t EXCEPT !.retrans = Stop]
<1>1. IsEntry(c, u) /\ Like(t, u)
  BY DEF IsEntry, Like, Stop
<1> HIDE DEF u
<1>2. StopRetrans(t, s) = IF t.ahCheck THEN MaybeCutoff(u, s) ELSE t
  BY DEF StopRetrans, u
<1> QED
  BY <1>1, <1>2, CutoffEntry DEF Like

\* Frames of the held datagrams, and what was sent, grow at their end.
LEMMA FramesFacts ==
  /\ FramesOf(<<>>) = <<>>
  /\ \A q \in Seq(Datagram) : FramesOf(q) \in Seq(Frame)
  /\ \A q \in Seq(Datagram), p \in Datagram : FramesOf(Append(q, p)) = FramesOf(q) \o p.frames
<1> DEFINE f == [p \in Datagram |-> p.frames]
<1>1. f \in [Datagram -> Seq(Frame)] /\ \A p \in Datagram : f[p] = p.frames
  BY DEF Datagram
<1>2. ASSUME NEW q \in Seq(Datagram) PROVE FramesOf(q) = MapFlat(f, q)
  <2>1. \A i \in DOMAIN q : q[i].frames = f[q[i]]
    OBVIOUS
  <2> HIDE DEF f
  <2>2. [i \in DOMAIN q |-> q[i].frames] = [i \in DOMAIN q |-> f[q[i]]]
    BY <2>1
  <2> QED
    BY <2>2 DEF FramesOf, MapFlat
<1> HIDE DEF f
<1>3. <<>> \in Seq(Datagram) /\ \A q \in Seq(Datagram), p \in Datagram : Append(q, p) \in Seq(Datagram)
  OBVIOUS
<1>4. /\ MapFlat(f, <<>>) = <<>>
      /\ \A q \in Seq(Datagram) : MapFlat(f, q) \in Seq(Frame)
      /\ \A q \in Seq(Datagram), p \in Datagram : MapFlat(f, Append(q, p)) = MapFlat(f, q) \o f[p]
  BY <1>1, MapFlatFacts
<1> QED
  BY <1>1, <1>2, <1>3, <1>4

LEMMA SendsFacts ==
  /\ Sends(<<>>) = <<>>
  /\ \A q \in Seq(Out) : Sends(q) \in Seq(Datagram)
  /\ \A q \in Seq(Out), o \in Out : Sends(Append(q, o)) = Sends(q) \o Leaving(o)
<1> DEFINE f == [o \in Out |-> Leaving(o)]
<1>1. f \in [Out -> Seq(Datagram)] /\ \A o \in Out : f[o] = Leaving(o)
  BY DEF Out, Leaving
<1>2. ASSUME NEW q \in Seq(Out) PROVE Sends(q) = MapFlat(f, q)
  <2>1. \A i \in DOMAIN q : Leaving(q[i]) = f[q[i]]
    OBVIOUS
  <2> HIDE DEF f
  <2>2. [i \in DOMAIN q |-> Leaving(q[i])] = [i \in DOMAIN q |-> f[q[i]]]
    BY <2>1
  <2> QED
    BY <2>2 DEF Sends, MapFlat
<1> HIDE DEF f
<1>3. <<>> \in Seq(Out) /\ \A q \in Seq(Out), o \in Out : Append(q, o) \in Seq(Out)
  OBVIOUS
<1>4. /\ MapFlat(f, <<>>) = <<>>
      /\ \A q \in Seq(Out) : MapFlat(f, q) \in Seq(Datagram)
      /\ \A q \in Seq(Out), o \in Out : MapFlat(f, Append(q, o)) = MapFlat(f, q) \o f[o]
  BY <1>1, MapFlatFacts
<1> QED
  BY <1>1, <1>2, <1>3, <1>4

\* Held datagrams that are sent one after the other.
LEMMA AllOrigTyped == \A d \in Seq(Datagram) : AllOrig(d) \in Seq(Out) /\ Len(AllOrig(d)) = Len(d)
<1> SUFFICES ASSUME NEW d \in Seq(Datagram) PROVE AllOrig(d) \in Seq(Out) /\ Len(AllOrig(d)) = Len(d)
  OBVIOUS
<1>1. AllOrig(d) = [i \in 1..Len(d) |-> As(d[i], "orig")] /\ Len(d) \in Nat
  BY DEF AllOrig
<1>2. \A i \in 1..Len(d) : As(d[i], "orig") \in Out
  BY DEF As, Out
<1> QED
  BY <1>1, <1>2

LEMMA AllOrigAppend ==
  ASSUME NEW d \in Seq(Datagram), NEW p \in Datagram
  PROVE  AllOrig(Append(d, p)) = Append(AllOrig(d), As(p, "orig"))
<1> DEFINE t == Append(d, p)
<1>1. /\ t \in Seq(Datagram) /\ Len(t) = Len(d) + 1 /\ t[Len(d) + 1] = p
      /\ \A i \in 1..Len(d) : t[i] = d[i]
  OBVIOUS
<1> HIDE DEF t
<1>2. AllOrig(t) \in Seq(Out) /\ Len(AllOrig(t)) = Len(d) + 1
  BY <1>1, AllOrigTyped
<1>3. \A i \in 1..(Len(d) + 1) : AllOrig(t)[i] = As(t[i], "orig")
  BY <1>1 DEF AllOrig
<1> DEFINE a == AllOrig(d)
           b == As(p, "orig")
<1>4. /\ a \in Seq(Out) /\ Len(a) = Len(d) /\ b \in Out
      /\ \A i \in 1..Len(d) : a[i] = As(d[i], "orig")
  <2>1. \A i \in 1..Len(d) : a[i] = As(d[i], "orig")
    BY DEF AllOrig
  <2>2. b \in Out
    BY DEF As, Out
  <2> QED
    BY <2>1, <2>2, AllOrigTyped
<1> HIDE DEF a, b
<1>5. /\ Append(a, b) \in Seq(Out) /\ Len(Append(a, b)) = Len(d) + 1 /\ Append(a, b)[Len(d) + 1] = b
      /\ \A i \in 1..Len(d) : Append(a, b)[i] = a[i]
  BY <1>4
<1>6. \A i \in 1..Len(AllOrig(t)) : AllOrig(t)[i] = Append(a, b)[i]
  BY <1>1, <1>2, <1>3, <1>4, <1>5 DEF b
<1>7. AllOrig(t) = Append(a, b)
  BY <1>2, <1>5, <1>6, SeqEqual
<1> QED
  BY <1>7 DEF a, b, t

LEMMA SendsAll ==
  ASSUME NEW q \in Seq(Out) PROVE \A d \in Seq(Datagram) : Sends(q \o AllOrig(d)) = Sends(q) \o d
<1> DEFINE S == {d \in Seq(Datagram) : Sends(q \o AllOrig(d)) = Sends(q) \o d}
<1>1. <<>> \in S
  <2>1. AllOrig(<<>>) = <<>> /\ <<>> \in Seq(Datagram)
    BY DEF AllOrig
  <2>2. q \o <<>> = q /\ Sends(q) \o <<>> = Sends(q)
    BY SendsFacts
  <2> QED
    BY <2>1, <2>2
<1>2. ASSUME NEW d \in Seq(Datagram), NEW p \in Datagram, d \in S PROVE Append(d, p) \in S
  <2> DEFINE a == AllOrig(d)
             b == As(p, "orig")
  <2>1. a \in Seq(Out) /\ b \in Out /\ AllOrig(Append(d, p)) = Append(a, b) /\ Leaving(b) = <<p>>
    BY AllOrigTyped, AllOrigAppend DEF As, Out, Leaving
  <2>2. Sends(q \o a) = Sends(q) \o d /\ Sends(q) \in Seq(Datagram)
    BY <1>2, SendsFacts
  <2> HIDE DEF a, b
  <2>3. q \o a \in Seq(Out) /\ q \o Append(a, b) = Append(q \o a, b)
    BY <2>1
  <2>4. Sends(q \o Append(a, b)) = Sends(q \o a) \o <<p>>
    BY <2>1, <2>3, SendsFacts
  <2>5. (Sends(q) \o d) \o <<p>> = Sends(q) \o Append(d, p)
    <3> DEFINE r == Sends(q)
    <3>1. r \in Seq(Datagram)
      BY <2>2
    <3> HIDE DEF r
    <3>2. Append(d, p) = d \o <<p>> /\ <<p>> \in Seq(Datagram)
      BY AppendIsConcat
    <3>3. (r \o d) \o <<p>> = r \o (d \o <<p>>)
      BY <3>1, <3>2, ConcatAssociative
    <3> QED
      BY <3>2, <3>3 DEF r
  <2>6. Sends(q \o AllOrig(Append(d, p))) = Sends(q) \o Append(d, p)
    BY <2>1, <2>2, <2>3, <2>4, <2>5
  <2>7. Append(d, p) \in Seq(Datagram)
    OBVIOUS
  <2> QED
    BY <2>6, <2>7
<1>3. Seq(Datagram) \subseteq S
  <2> HIDE DEF S
  <2> QED
    BY <1>1, <1>2, SeqSets
<1> QED
  BY <1>3

-----------------------------------------------------------------------------
\* What a step of the engine may do to the entry and to what was sent.
Only(tbl) == DOMAIN tbl = DOMAIN table /\ \A c \in DOMAIN table : c # cur.conn => tbl[c] = table[c]
N == table'[cur.conn]
Quiet(tbl) ==
  /\ Only(tbl) /\ IsEntry(cur.conn, tbl[cur.conn])
  /\ tbl[cur.conn].reasm = T.reasm /\ tbl[cur.conn].delayed = T.delayed
Shut(tbl) ==
  /\ Only(tbl) /\ IsEntry(cur.conn, tbl[cur.conn])
  /\ tbl[cur.conn].reasm = (IF replay THEN T.reasm ELSE NoReasm)
  /\ tbl[cur.conn].delayed = (IF replay THEN T.delayed ELSE <<>>)
SendsAsIs == Quiet(table') /\ plain' = plain /\ SendOrig
GivesUp ==
  /\ Shut(table') /\ plain' = CancelledPlain
  /\ out' = Append(out \o AllOrig(Held), As(cur, "orig")) /\ pc' = After
GoesOn == Quiet(table') /\ plain' = plain /\ out' = out
\* The parts of the entry that reports depend on.
Alike(t, u) == u.check = t.check /\ u.retrans \in {t.retrans, Stop}
ClosesAndGoesOn == Shut(table') /\ plain' = CancelledPlain /\ out' = out \o AllOrig(Held) /\ pc' = "discover"
HoldsIt ==
  /\ Real /\ Only(table') /\ IsEntry(cur.conn, N) /\ out' = out
  /\ N.delayed = Append(T.delayed, cur) /\ N.reasm.size = MaxReasm /\ N.dp = T.dp
  /\ plain' = [plain EXCEPT ![cur.conn] = IF Joins THEN @ \o cur.frames ELSE cur.frames]
  /\ pc' = "replay" \/ (pc' = "done" /\ ~Whole(plain'[cur.conn]))

LEMMA CancelledFacts ==
  ASSUME NEW tbl, Tracked, Quiet(tbl)
  PROVE  /\ Shut(Cancelled(tbl)) /\ Cancelled(tbl)[cur.conn].dp = tbl[cur.conn].dp
         /\ Alike(tbl[cur.conn], Cancelled(tbl)[cur.conn])
<1> DEFINE c == cur.conn
           u == tbl[c]
           v == [u EXCEPT !.reasm = NoReasm, !.delayed = <<>>]
<1>1. NoReasm \in Reasm /\ <<>> \in Seq(Captured(c))
  BY DatagramAssumption DEF NoReasm, Reasm
<1>2. IsEntry(c, u) /\ Only(tbl) /\ u.reasm = T.reasm /\ u.delayed = T.delayed
  BY DEF Quiet
<1>3. IsEntry(c, v) /\ v.reasm = NoReasm /\ v.delayed = <<>> /\ v.dp = u.dp /\ Alike(u, v)
  <2> HIDE DEF u
  <2> QED
    BY <1>1, <1>2 DEF IsEntry, Alike
<1>4. CASE replay
  BY <1>2, <1>4 DEF Cancelled, Shut, Alike
<1>5. CASE ~replay
  <2> DEFINE w == [tbl EXCEPT ![c].reasm = NoReasm, ![c].delayed = <<>>]
  <2>1. Cancelled(tbl) = w
    BY <1>5 DEF Cancelled
  <2>2. c \in DOMAIN tbl
    BY <1>2 DEF Only, Tracked
  <2>3. w[c] = v /\ DOMAIN w = DOMAIN tbl /\ \A d \in DOMAIN tbl : d # c => w[d] = tbl[d]
    BY <2>2
  <2> HIDE DEF w, v, u
  <2> QED
    BY <1>2, <1>3, <1>5, <2>1, <2>3 DEF Shut, Only, u
<1> QED
  BY <1>4, <1>5

LEMMA WithL7Facts ==
  ASSUME Tracked, IsEntry(cur.conn, T)
  PROVE  /\ Quiet(WithL7(table)) /\ WithL7(table)[cur.conn].dp = T.dp
         /\ Alike(T, WithL7(table)[cur.conn])
<1> DEFINE c == cur.conn
           v == [T EXCEPT !.l7 = "quic"]
           w == [table EXCEPT ![c].l7 = "quic"]
<1>1. IsEntry(c, v) /\ v.reasm = T.reasm /\ v.delayed = T.delayed /\ v.dp = T.dp /\ Alike(T, v)
  BY DEF IsEntry, Protocols, Alike
<1>2. w[c] = v /\ DOMAIN w = DOMAIN table /\ \A d \in DOMAIN table : d # c => w[d] = table[d]
  BY DEF Tracked, T
<1>3. Quiet(w) /\ w[c].dp = T.dp /\ Alike(T, w[c])
  <2> HIDE DEF v, w
  <2> QED
    BY <1>1, <1>2 DEF Quiet, Only
<1>4. Quiet(table) /\ Alike(T, T)
  BY DEF Quiet, Only, T, Alike
<1> QED
  BY <1>3, <1>4 DEF WithL7, T

LEMMA EnteredFacts ==
  ASSUME Tracked, NEW u, IsEntry(cur.conn, u), u.reasm = T.reasm, u.delayed = T.delayed
  PROVE  Quiet([table EXCEPT ![cur.conn] = u]) /\ [table EXCEPT ![cur.conn] = u][cur.conn] = u
  BY DEF Quiet, Only, Tracked

LEMMA GivesUpFacts ==
  ASSUME NEW tbl, Tracked, Quiet(tbl), CancelAndSendOrig(tbl)
  PROVE  GivesUp /\ N.dp = tbl[cur.conn].dp /\ Alike(tbl[cur.conn], N)
  BY CancelledFacts DEF CancelAndSendOrig, GivesUp, N

-----------------------------------------------------------------------------
\* One lemma for each action: which of these it does.
Here == Tracked /\ IsEntry(cur.conn, T) /\ rules \in Rules
Stays == cur' = cur /\ replay' = replay /\ first' = first

LEMMA EnterAsFacts ==
  ASSUME Here, NEW i \in 0..Len(Strategies), EnterAs(i)
  PROVE  /\ dp' = i /\ N.dp = i /\ Alike(T, N)
         /\ \/ SendsAsIs /\ (cur.dir = "reply" \/ i = 0)
            \/ GoesOn /\ pc' = "payload" /\ N.dp # 0
            \/ GivesUp
<1> DEFINE t == [T EXCEPT !.dp = i, !.dpSearched = TRUE]
           u == MaybeCutoff(t, Strategies[i])
<1>1. IsEntry(cur.conn, t) /\ t.reasm = T.reasm /\ t.delayed = T.delayed /\ t.dp = i /\ Alike(T, t)
  BY DEF Here, IsEntry, Alike
<1>2. IsEntry(cur.conn, u) /\ u.reasm = T.reasm /\ u.delayed = T.delayed /\ u.dp = i /\ Alike(T, u)
  <2> HIDE DEF t
  <2> QED
    BY <1>1, CutoffEntry DEF Like, Alike
<1>3. dp' = i
  BY DEF EnterAs
<1>4. /\ Quiet([table EXCEPT ![cur.conn] = t]) /\ [table EXCEPT ![cur.conn] = t][cur.conn] = t
      /\ Quiet([table EXCEPT ![cur.conn] = u]) /\ [table EXCEPT ![cur.conn] = u][cur.conn] = u
  <2> HIDE DEF t, u
  <2> QED
    BY <1>1, <1>2, EnteredFacts DEF Here
<1>5. \/ i = 0 /\ table' = [table EXCEPT ![cur.conn] = t] /\ SendOrig /\ plain' = plain
      \/ cur.dir = "reply" /\ table' = [table EXCEPT ![cur.conn] = u] /\ SendOrig /\ plain' = plain
      \/ /\ i # 0 /\ table' = [table EXCEPT ![cur.conn] = u] /\ pc' = "payload"
         /\ plain' = plain /\ out' = out
      \/ CancelAndSendOrig([table EXCEPT ![cur.conn] = u])
  BY DEF EnterAs
<1> HIDE DEF t, u
<1>6. CASE CancelAndSendOrig([table EXCEPT ![cur.conn] = u])
  <2>1. GivesUp /\ N.dp = u.dp /\ Alike(u, N)
    BY <1>4, <1>6, GivesUpFacts DEF Here
  <2> QED
    BY <1>2, <1>3, <2>1 DEF Alike
<1> QED
  BY <1>1, <1>2, <1>3, <1>4, <1>5, <1>6 DEF SendsAsIs, GoesOn, N

LEMMA EnterFacts ==
  ASSUME Here, Enter
  PROVE  /\ Stays /\ reports' = reports /\ dp' \in 0..Len(Strategies) /\ N.dp = dp'
         /\ T.dp # 0 => N.dp = T.dp
         /\ Alike(T, N) /\ pc' # "discover" /\ pc' # "check" /\ pc' # "act"
         /\ \/ SendsAsIs /\ (cur.dir = "reply" \/ T.dp = 0)
            \/ GoesOn /\ pc' = "payload" /\ N.dp # 0
            \/ GivesUp
<1>1. Stays /\ reports' = reports
  BY DEF Enter, Stays
<1>2. T.dp \in 0..Len(Strategies)
  BY DEF Here, IsEntry
<1>3. PICK i \in 0..Len(Strategies) : EnterAs(i) /\ (T.dp # 0 => i = T.dp)
  BY <1>2 DEF Enter
<1>4. pc' # "discover" /\ pc' # "check" /\ pc' # "act"
  BY <1>3 DEF EnterAs, SendOrig, CancelAndSendOrig, After
<1> QED
  BY <1>1, <1>3, <1>4, EnterAsFacts

LEMMA EmptyFacts ==
  ASSUME Here, Empty
  PROVE  /\ Stays /\ reports' = reports /\ dp' = dp /\ N.dp = T.dp /\ Alike(T, N)
         /\ SendsAsIs /\ cur.len = 0
  BY DEF Empty, Stays, SendsAsIs, Quiet, Only, Here, T, N, Alike

LEMMA NotInitialFacts ==
  ASSUME Here, NotInitial
  PROVE  /\ Stays /\ reports' = reports /\ dp' = dp /\ N.dp = T.dp
         /\ Alike(T, N) /\ (pc' = "discover" => ~loc'.have)
         /\ GivesUp \/ ClosesAndGoesOn
<1> DEFINE s == StopRetrans(T, DP)
           t == [s EXCEPT !.l7 = IF @ = "unknown" /\ cur.kind \in Known THEN cur.kind ELSE @]
           tbl == [table EXCEPT ![cur.conn] = t]
<1>1. IsEntry(cur.conn, s) /\ s.reasm = T.reasm /\ s.delayed = T.delayed /\ s.dp = T.dp /\ Alike(T, s)
  BY StopEntry DEF Here, Like, Alike
<1>2. IsEntry(cur.conn, t) /\ t.reasm = T.reasm /\ t.delayed = T.delayed /\ t.dp = T.dp /\ Alike(T, t)
  <2> HIDE DEF s
  <2> QED
    BY <1>1 DEF IsEntry, Protocols, Alike
<1>3. Quiet(tbl) /\ tbl[cur.conn] = t
  <2> HIDE DEF t
  <2> QED
    BY <1>2, EnteredFacts DEF Here
<1>4. Stays /\ reports' = reports /\ dp' = dp /\ (pc' = "discover" => ~loc'.have)
  BY DEF NotInitial, Stays, NoLoc, CancelAndSendOrig, After
<1>5. \/ table' = Cancelled(tbl) /\ plain' = CancelledPlain /\ out' = out \o AllOrig(Held) /\ pc' = "discover"
      \/ CancelAndSendOrig(tbl)
  BY DEF NotInitial
<1> HIDE DEF t, tbl
<1>6. CASE CancelAndSendOrig(tbl)
  BY <1>2, <1>3, <1>4, <1>6, GivesUpFacts DEF Here, Alike
<1> QED
  BY <1>2, <1>3, <1>4, <1>5, <1>6, CancelledFacts DEF Here, ClosesAndGoesOn, N, Alike

LEMMA GiveUpReadingFacts ==
  ASSUME NEW tbl, Tracked, Quiet(tbl), GiveUpReading(tbl)
  PROVE  /\ N.dp = tbl[cur.conn].dp /\ Alike(tbl[cur.conn], N) /\ (pc' = "discover" => ~loc'.have)
         /\ GivesUp \/ ClosesAndGoesOn
<1>1. CASE CancelAndSendOrig(tbl)
  <2>1. pc' # "discover"
    BY <1>1 DEF CancelAndSendOrig, After
  <2> QED
    BY <1>1, <2>1, GivesUpFacts
<1>2. CASE /\ table' = Cancelled(tbl) /\ plain' = CancelledPlain /\ ~loc'.have
           /\ out' = out \o AllOrig(Held) /\ pc' = "discover"
  BY <1>2, CancelledFacts DEF ClosesAndGoesOn, N
<1> QED
  BY <1>1, <1>2 DEF GiveUpReading, NoLoc

LEMMA HoldFacts ==
  ASSUME Here, cur \in Captured(cur.conn), Real, ~(Joins /\ ~HasSpace), NEW b, Hold(b),
         plain \in [Flows -> Seq(Frame)], DOMAIN table \subseteq Flows,
         b \/ ~Whole(Frames)
  PROVE  HoldsIt /\ Alike(T, N)
<1> DEFINE c == cur.conn
           r == IF Joins THEN JoinedReasm ELSE Opened
           w == WithL7(table)
           h == HeldWith(r)
           v == [w[c] EXCEPT !.reasm = r, !.delayed = Append(@, cur)]
<1>1. Quiet(w) /\ w[c].dp = T.dp /\ Alike(T, w[c])
  BY WithL7Facts DEF Here
<1>2. r \in Reasm /\ r.size = MaxReasm
  <2>1. cur.len \in Nat /\ cur.len <= MaxReasm
    BY DEF Captured, Datagram
  <2>2. T.reasm \in Reasm
    BY DEF Here, IsEntry
  <2>3. CASE Joins
    <3>1. T.reasm.have + cur.len <= T.reasm.size /\ T.reasm.size = MaxReasm
      BY <2>2, <2>3 DEF HasSpace, Joins, ReasmIsEmpty, Reasm
    <3>2. JoinedReasm \in Reasm /\ JoinedReasm.size = MaxReasm
      <4> DEFINE x == T.reasm
      <4>1. JoinedReasm = [x EXCEPT !.have = x.have + cur.len]
        BY DEF JoinedReasm
      <4> HIDE DEF x
      <4>2. x \in Reasm /\ x.have + cur.len <= x.size /\ x.size = MaxReasm
        BY <2>2, <3>1 DEF x
      <4> QED
        BY <2>1, <4>1, <4>2 DEF Reasm
    <3> QED
      BY <2>3, <3>2
  <2>4. CASE ~Joins
    BY <2>1, <2>4, DatagramAssumption DEF Opened, NoReasm, Reasm
  <2> QED
    BY <2>3, <2>4
<1>3. cur \in Captured(c) /\ w[c].delayed \in Seq(Captured(c)) /\ w[c].delayed = T.delayed
  BY <1>1 DEF Quiet, IsEntry
<1>4. IsEntry(c, v) /\ v.delayed = Append(T.delayed, cur) /\ v.reasm = r /\ v.dp = T.dp /\ Alike(T, v)
  <2>1. Append(w[c].delayed, cur) \in Seq(Captured(c))
    BY <1>3
  <2> DEFINE x == w[c]
  <2>2. IsEntry(c, x) /\ Alike(T, x)
    BY <1>1 DEF Quiet
  <2>3. x.delayed = T.delayed /\ x.dp = T.dp /\ Append(x.delayed, cur) \in Seq(Captured(c))
    BY <1>1, <1>3, <2>1
  <2>4. v = [x EXCEPT !.reasm = r, !.delayed = Append(x.delayed, cur)]
    OBVIOUS
  <2> HIDE DEF x, r, v
  <2> QED
    BY <1>2, <2>2, <2>3, <2>4 DEF IsEntry, Alike
<1>5. h[c] = v /\ DOMAIN h = DOMAIN w /\ \A d \in DOMAIN w : d # c => h[d] = w[d]
  <2>1. h = [w EXCEPT ![c].reasm = r, ![c].delayed = Append(@, cur)]
    BY DEF HeldWith
  <2>2. c \in DOMAIN w
    BY <1>1 DEF Quiet, Only, Here, Tracked
  <2> HIDE DEF h, w, r
  <2> QED
    BY <2>1, <2>2
<1>6. Only(h) /\ IsEntry(c, h[c]) /\ h[c].delayed = Append(T.delayed, cur) /\ h[c].reasm.size = MaxReasm /\ h[c].dp = T.dp
      /\ Alike(T, h[c])
  <2> HIDE DEF h, v, w, r
  <2> QED
    BY <1>1, <1>2, <1>4, <1>5 DEF Quiet, Only
<1>7. /\ table' = h /\ plain' = [plain EXCEPT ![c] = Frames] /\ out' = out
      /\ pc' = IF b THEN "replay" ELSE "done"
  BY DEF Hold
<1>8. Frames = (IF Joins THEN plain[c] \o cur.frames ELSE cur.frames) /\ plain'[c] = Frames
  <2>1. c \in Flows
    BY DEF Here, Tracked
  <2> QED
    BY <1>7, <2>1 DEF Frames, Real
<1> HIDE DEF h
<1> QED
  BY <1>6, <1>7, <1>8 DEF HoldsIt, N

LEMMA InitialFacts ==
  ASSUME Here, cur \in Captured(cur.conn), plain \in [Flows -> Seq(Frame)], DOMAIN table \subseteq Flows,
         Initial
  PROVE  /\ Stays /\ reports' = reports /\ dp' = dp /\ N.dp = T.dp /\ Alike(T, N)
         /\ pc' = "discover" /\ loc'.have => out' = out
         /\ \/ GivesUp
            \/ ClosesAndGoesOn
            \/ GoesOn /\ pc' = "discover" /\ ~Joins
            \/ HoldsIt
<1>1. Stays /\ reports' = reports /\ dp' = dp
  BY DEF Initial, Stays
<1>2. /\ Tracked /\ Quiet(WithL7(table)) /\ WithL7(table)[cur.conn].dp = T.dp
      /\ Alike(T, WithL7(table)[cur.conn])
  BY WithL7Facts DEF Here
<1>3. CASE GiveUpReading(WithL7(table))
  BY <1>1, <1>2, <1>3, GiveUpReadingFacts DEF Alike
<1>4. CASE CancelAndSendOrig(WithL7(table))
  <2>1. pc' # "discover"
    BY <1>4 DEF CancelAndSendOrig, After
  <2> QED
    BY <1>1, <1>2, <1>4, <2>1, GivesUpFacts DEF Alike
<1>5. CASE ~(Joins /\ ~HasSpace) /\ Decrypted(Defrag(Frames))
  <2> DEFINE d == Defrag(Frames)
  <2>1. CASE HelloAtHand(d) /\ (Real => ~Joins)
    <3>1. CASE table' = WithL7(table) /\ pc' = "discover" /\ plain' = plain /\ out' = out
      BY <1>1, <1>2, <2>1, <3>1 DEF GoesOn, Joins, N
    <3> QED
      BY <1>4, <2>1, <3>1 DEF HelloAtHand
  <2>2. ASSUME NEW b, Real, Hold(b), b \/ ~Whole(Frames)
        PROVE  HoldsIt /\ Alike(T, N) /\ N.dp = T.dp /\ pc' # "discover"
    <3>1. pc' # "discover"
      BY <2>2 DEF Hold
    <3> QED
      BY <1>5, <2>2, <3>1, HoldFacts DEF HoldsIt
  <2>3. CASE d.found /\ ~d.full /\ Real /\ Hold(FALSE)
    <3>1. ~Whole(Frames)
      BY <2>3 DEF Whole
    <3> QED
      BY <1>1, <2>2, <2>3, <3>1
  <2>4. CASE Real /\ Hold(HelloFull(d))
    <3>1. HelloFull(d) \/ ~Whole(Frames)
      BY DEF Whole, HelloFull, IsHello, H
    <3> QED
      BY <1>1, <2>2, <2>4, <3>1
  <2> HIDE DEF d
  <2> QED
    BY <1>3, <1>5, <2>1, <2>3, <2>4 DEF Decrypted, FullCoverage, d
<1>6. CASE Garbled
  BY <1>3, <1>6 DEF Garbled
<1>7. CASE TooMuch
  BY <1>4, <1>7 DEF TooMuch
<1> QED
  BY <1>5, <1>6, <1>7 DEF Initial

\* A kept verdict is never one of an automatic profile.
Checked(t) == t.check.done => t.dp \in DOMAIN Strategies /\ ~Strategies[t.dp].auto

LEMMA RediscoverAsFacts ==
  ASSUME Here, NEW i \in 0..Len(Strategies), RediscoverAs(Found, i)
  PROVE  /\ dp' = i /\ N.dp = i /\ Checked(N) /\ N.retrans \in {T.retrans, Stop}
         /\ GivesUp \/ (GoesOn /\ pc' = "check" /\ i # 0)
<1> DEFINE t == Found
           u == [t EXCEPT !.dp = i, !.dpSearched = TRUE, !.check = CheckDone(i, t.host)]
           v == IF Real /\ i \notin {0, dp} THEN MaybeCutoff(u, Strategies[i]) ELSE u
           tbl == [table EXCEPT ![cur.conn] = v]
<1>1. IsEntry(cur.conn, t) /\ t.reasm = T.reasm /\ t.delayed = T.delayed /\ t.retrans = T.retrans
  BY DEF Here, IsEntry, Found, Hosts, H
<1>2. CheckDone(i, t.host).done => i \in DOMAIN Strategies /\ ~Strategies[i].auto
  BY DatagramAssumption DEF CheckDone, NoCheck
<1>3. /\ IsEntry(cur.conn, u) /\ u.reasm = T.reasm /\ u.delayed = T.delayed /\ u.retrans = T.retrans
      /\ u.dp = i /\ Checked(u)
  <2> DEFINE k == CheckDone(i, t.host)
  <2>1. k.done => i \in DOMAIN Strategies /\ ~Strategies[i].auto
    BY <1>2
  <2> HIDE DEF t, k
  <2>2. u = [t EXCEPT !.dp = i, !.dpSearched = TRUE, !.check = k]
    BY DEF k
  <2> HIDE DEF u
  <2> QED
    BY <1>1, <2>1, <2>2 DEF IsEntry, Checked
<1>4. /\ IsEntry(cur.conn, v) /\ v.reasm = T.reasm /\ v.delayed = T.delayed /\ v.dp = i /\ Checked(v)
      /\ v.retrans \in {T.retrans, Stop}
  <2> HIDE DEF u
  <2> QED
    BY <1>3, CutoffEntry DEF Like, Checked
<1>5. Quiet(tbl) /\ tbl[cur.conn] = v
  <2> HIDE DEF v
  <2> QED
    BY <1>4, EnteredFacts DEF Here
<1>6. dp' = i
  BY DEF RediscoverAs
<1>7. CASE CancelAndSendOrig(tbl)
  <2> HIDE DEF tbl, v
  <2>1. GivesUp /\ N.dp = tbl[cur.conn].dp /\ Alike(tbl[cur.conn], N)
    BY <1>5, <1>7, GivesUpFacts DEF Here
  <2> QED
    BY <1>4, <1>5, <1>6, <2>1 DEF Alike, Checked
<1>8. CASE table' = tbl /\ pc' = "check" /\ plain' = plain /\ out' = out /\ i # 0
  <2> HIDE DEF tbl, v
  <2> QED
    BY <1>4, <1>5, <1>6, <1>8 DEF GoesOn, N
<1> QED
  BY <1>7, <1>8 DEF RediscoverAs

LEMMA DiscoverFacts ==
  ASSUME Here, dp \in 0..Len(Strategies), Discover
  PROVE  /\ Stays /\ reports' = reports /\ dp' \in 0..Len(Strategies)
         /\ N.retrans \in {T.retrans, Stop} /\ loc'.have = loc.have
         /\ \/ dp' = N.dp /\ Checked(N) /\ (pc' = "check" => dp' # 0)
            \/ dp' = dp /\ N.dp = T.dp /\ N.check = T.check
         /\ GivesUp \/ (GoesOn /\ pc' = "check")
<1>1. Stays /\ reports' = reports
  BY DEF Discover, Stays
<1>2. loc'.have = loc.have
  BY DEF Discover
<1>3. CASE \E i \in 0..Len(Strategies) : RediscoverAs(Found, i)
  <2>1. GivesUp => pc' # "check"
    BY DEF GivesUp, After
  <2> QED
    BY <1>1, <1>2, <1>3, <2>1, RediscoverAsFacts
<1>4. CASE pc' = "check" /\ table' = table /\ plain' = plain /\ dp' = dp /\ out' = out
  <2>1. Quiet(table) /\ N = T
    BY <1>1, <1>4 DEF Quiet, Only, Here, T, N, Stays
  <2> QED
    BY <1>1, <1>2, <1>4, <2>1 DEF GoesOn
<1> QED
  BY <1>3, <1>4 DEF Discover

\* What CheckHost does to the reports: nothing, or it counts a request that came
\* again, and reports when those are enough.
Counts ==
  /\ loc.have /\ says[dp] # "empty" /\ ~Verdict.result /\ CountsAsRepeat /\ T.retrans # Stop
  /\ repeats' = Repeated
  /\ \/ ~Fires(T) /\ N.retrans = T.retrans + 1 /\ reported' = reported
     \/ Fires(T) /\ N.retrans = Stop /\ reported' = [reported EXCEPT ![cur.conn] = Append(@, dp)]
CountsNot == N.retrans \in {T.retrans, Stop} /\ reported' = reported /\ repeats' \in {repeats, Repeated}

LEMMA CheckHostFacts ==
  ASSUME Here, CheckHost
  PROVE  /\ Stays /\ dp' = dp /\ N.dp = T.dp /\ N.check = T.check
         /\ Counts \/ CountsNot
         /\ SendsAsIs \/ (GoesOn /\ pc' = "act")
<1>1. Stays /\ dp' = dp /\ plain' = plain
  BY DEF CheckHost, Stays
<1>2. CASE loc.have /\ says[dp] # "empty" /\ ~Verdict.result /\ Unlisted /\ repeats' = Repeated
  <2> DEFINE b == DP.auto /\ ~Verdict.excluded
             t == [T EXCEPT !.ahCheck = b]
             s == StopRetrans(t, DP)
             u == IF ~CountsAsRepeat \/ t.retrans = Stop THEN t
                  ELSE IF Fires(t) THEN s ELSE Asked(t)
  <2>1. /\ IsEntry(cur.conn, t) /\ t.reasm = T.reasm /\ t.delayed = T.delayed /\ t.retrans = T.retrans
        /\ t.dp = T.dp /\ t.check = T.check /\ t.ahCheck = b
    <3> HIDE DEF b
    <3> QED
      BY DEF Here, IsEntry
  <2>2. t.retrans # Stop => /\ IsEntry(cur.conn, Asked(t)) /\ Asked(t).reasm = T.reasm
                            /\ Asked(t).delayed = T.delayed /\ Asked(t).retrans = T.retrans + 1
                            /\ Asked(t).dp = T.dp /\ Asked(t).check = T.check
    <3> HIDE DEF t
    <3>1. t.retrans \in 0..Stop
      BY <2>1 DEF IsEntry
    <3> DEFINE n == t.retrans + 1
    <3>2. Asked(t) = [t EXCEPT !.retrans = n]
      BY DEF Asked
    <3>3. t.retrans # Stop => n \in 0..Stop /\ n = T.retrans + 1
      <4> DEFINE x == t.retrans
      <4>1. x \in 0..Stop /\ n = T.retrans + 1
        BY <2>1, <3>1
      <4> HIDE DEF x
      <4>2. x # Stop => x + 1 \in 0..Stop
        BY <4>1 DEF Stop
      <4> QED
        BY <4>1, <4>2 DEF x
    <3> HIDE DEF n
    <3> QED
      BY <2>1, <3>2, <3>3 DEF IsEntry
  <2>3. /\ IsEntry(cur.conn, s) /\ s.reasm = T.reasm /\ s.delayed = T.delayed /\ s.dp = T.dp
        /\ s.check = T.check /\ s.retrans \in {T.retrans, Stop} /\ (b => s.retrans = Stop)
    <3> DEFINE r == [t EXCEPT !.retrans = Stop]
    <3> HIDE DEF t, b
    <3>1. r.retrans = Stop /\ IsEntry(cur.conn, r)
      BY <2>1 DEF IsEntry, Stop
    <3> HIDE DEF r
    <3>2. MaybeCutoff(r, DP).retrans = Stop
      BY <3>1, CutoffEntry DEF Like
    <3>3. b => s = MaybeCutoff(r, DP)
      BY <2>1 DEF StopRetrans, r
    <3> QED
      BY <2>1, <3>2, <3>3, StopEntry DEF Like
  <2>4. /\ table' = [table EXCEPT ![cur.conn] = u] /\ SendOrig
        /\ reported' = IF CountsAsRepeat /\ Fires(t) THEN [reported EXCEPT ![cur.conn] = Append(@, dp)]
                       ELSE reported
    BY <1>2 DEF Unlisted
  <2>5. (CountsAsRepeat => b) /\ (Fires(t) <=> Fires(T)) /\ (Fires(T) => T.retrans # Stop)
    BY <2>1 DEF CountsAsRepeat, Fires
  <2> HIDE DEF t, s, b
  <2>6. /\ IsEntry(cur.conn, u) /\ u.reasm = T.reasm /\ u.delayed = T.delayed /\ u.dp = T.dp
        /\ u.check = T.check
        /\ IF CountsAsRepeat /\ T.retrans # Stop
           THEN u.retrans = IF Fires(T) THEN Stop ELSE T.retrans + 1
           ELSE u.retrans = T.retrans
    BY <2>1, <2>2, <2>3, <2>5
  <2> HIDE DEF u
  <2>7. Quiet(table') /\ N = u
    BY <2>4, <2>6, EnteredFacts DEF Here, N
  <2>8. Counts \/ CountsNot
    BY <1>2, <2>4, <2>5, <2>6, <2>7 DEF Counts, CountsNot
  <2> QED
    BY <1>1, <2>4, <2>6, <2>7, <2>8 DEF SendsAsIs
<1>3. CASE /\ table' = IF loc.have /\ says[dp] # "empty" THEN [table EXCEPT ![cur.conn] = StopRetrans(@, DP)]
                      ELSE table
           /\ pc' = "act" /\ out' = out /\ reports' = reports
  <2> DEFINE u == StopRetrans(T, DP)
  <2>1. IsEntry(cur.conn, u) /\ u.reasm = T.reasm /\ u.delayed = T.delayed /\ Like(T, u)
    BY StopEntry DEF Here, Like
  <2>2. table' = [table EXCEPT ![cur.conn] = u] \/ table' = table
    BY <1>3 DEF T
  <2>3. Quiet(table)
    BY DEF Quiet, Only, Here, T
  <2> HIDE DEF u
  <2>4. Quiet([table EXCEPT ![cur.conn] = u]) /\ [table EXCEPT ![cur.conn] = u][cur.conn] = u
    BY <2>1, EnteredFacts DEF Here
  <2>5. N \in {u, T}
    BY <2>2, <2>4 DEF N, T
  <2>6. reported' = reported /\ repeats' = repeats
    BY <1>3 DEF reports
  <2> QED
    BY <1>1, <1>3, <2>1, <2>2, <2>3, <2>4, <2>5, <2>6 DEF GoesOn, Like, CountsNot
<1> QED
  BY <1>2, <1>3 DEF CheckHost

Acts ==
  /\ Quiet(table') /\ plain' = plain /\ N.dp = T.dp /\ pc' = After
  /\ \E how \in {"orig", "changed"} :
       \/ out' = Append(out, As(cur, how))
       \/ first /\ out' = Append(Append(out, As(cur, "fake")), As(cur, how))
LEMMA ActFacts ==
  ASSUME Here, cur \in Datagram, out \in Seq(Out), Act
  PROVE  Stays /\ reports' = reports /\ dp' = dp /\ N = T /\ Acts
<1>1. Stays /\ reports' = reports /\ dp' = dp /\ pc' = After /\ plain' = plain /\ table' = table
  BY DEF Act, Stays
<1>2. Quiet(table') /\ N = T
  BY <1>1 DEF Quiet, Only, Here, T, N, Stays
<1>3. SecondStage \subseteq {"orig", "changed"}
  BY DEF SecondStage
<1>4. CASE \E how \in SecondStage : out' = Append(out, As(cur, how))
  BY <1>1, <1>2, <1>3, <1>4 DEF Acts
<1>5. CASE Fakes /\ \E how \in SecondStage : out' = out \o <<As(cur, "fake"), As(cur, how)>>
  <2>1. PICK how \in SecondStage : out' = out \o <<As(cur, "fake"), As(cur, how)>>
    BY <1>5
  <2> DEFINE a == As(cur, "fake")
             b == As(cur, how)
  <2>2. a \in Out /\ b \in Out
    BY <1>3 DEF As, Out
  <2> HIDE DEF a, b
  <2>3. out \o <<a, b>> = Append(Append(out, a), b)
    BY <2>2
  <2>4. first
    BY <1>5 DEF Fakes
  <2> QED
    BY <1>1, <1>2, <1>3, <2>1, <2>3, <2>4 DEF Acts, a, b
<1>6. CASE out' = Append(out, As(cur, "orig"))
  BY <1>1, <1>2, <1>6 DEF Acts
<1> QED
  BY <1>1, <1>4, <1>5, <1>6 DEF Act

\* All of them.
Works == Enter \/ Initial \/ NotInitial \/ Empty \/ Discover \/ CheckHost \/ Act
Open == T.delayed = <<>>
StepShape ==
  \/ SendsAsIs /\ (Real => Open \/ ((cur.dir = "reply" \/ cur.len = 0) /\ N.dp # 0))
  \/ GoesOn /\ pc = "find" /\ pc' = "payload" /\ N.dp # 0
  \/ GoesOn /\ pc # "find" /\ pc' \in {"discover", "check", "act"} /\ (Real => Open)
  \/ GivesUp
  \/ ClosesAndGoesOn /\ pc # "find"
  \/ HoldsIt /\ pc = "payload" /\ N.dp # 0
  \/ Acts /\ pc = "act" /\ (Real => Open)

LEMMA StepShaped ==
  ASSUME PathInv, Works
  PROVE  /\ Stays /\ dp' \in 0..Len(Strategies) /\ pc \in {"find", "payload", "discover", "check", "act"}
         /\ StepShape
<1>1. pc \in {"find", "payload", "discover", "check", "act"}
  BY DEF Works, Enter, Initial, NotInitial, Empty, Discover, CheckHost, Act
<1>2. /\ Here /\ cur \in Captured(cur.conn) /\ plain \in [Flows -> Seq(Frame)] /\ DOMAIN table \subseteq Flows
      /\ dp \in 0..Len(Strategies) /\ cur \in Datagram /\ out \in Seq(Out)
  BY <1>1 DEF PathInv, TypeInv, Here, Tracked, T
<1>3. Real => Settled(cur.conn)
  BY <1>1, <1>2 DEF PathInv, SettledInv, Replayed, Here, Tracked, Real
<1>4. Real /\ T.delayed # <<>> => T.dp # 0 /\ T.reasm.size # 0
  BY <1>3 DEF Settled, T
<1>5. CASE Enter
  <2>1. pc = "find"
    BY <1>5 DEF Enter
  <2> QED
    BY <1>1, <1>2, <1>4, <1>5, <2>1, EnterFacts DEF StepShape, Open
<1>6. CASE Initial
  <2>1. pc = "payload" /\ (Real => T.dp # 0)
    BY <1>6 DEF Initial, PathInv, PlaceInv, Real
  <2>2. ~Joins /\ Real => Open
    BY <1>4 DEF Joins, ReasmIsEmpty, Open
  <2>3. HoldsIt => Real /\ N.dp = T.dp
    BY DEF HoldsIt
  <2> QED
    BY <1>1, <1>2, <1>6, <2>1, <2>2, <2>3, InitialFacts DEF StepShape
<1>7. CASE NotInitial
  <2>1. pc = "payload"
    BY <1>7 DEF NotInitial
  <2> QED
    BY <1>1, <1>2, <1>7, <2>1, NotInitialFacts DEF StepShape
<1>8. CASE Discover
  <2>1. pc = "discover" /\ (Real => Open)
    BY <1>8 DEF Discover, PathInv, PlaceInv, Real, Open
  <2> QED
    BY <1>1, <1>2, <1>8, <2>1, DiscoverFacts DEF StepShape
<1>9. CASE CheckHost
  <2>1. pc = "check" /\ (Real => Open)
    BY <1>9 DEF CheckHost, PathInv, PlaceInv, Real, Open
  <2> QED
    BY <1>1, <1>2, <1>9, <2>1, CheckHostFacts DEF StepShape
<1>10. CASE Act
  <2>1. pc = "act" /\ (Real => Open)
    BY <1>10 DEF Act, PathInv, PlaceInv, Real, Open
  <2> QED
    BY <1>1, <1>2, <1>10, <2>1, ActFacts DEF StepShape
<1>11. CASE Empty
  <2>1. pc = "payload" /\ (Real => T.dp # 0)
    BY <1>11 DEF Empty, PathInv, PlaceInv, Real
  <2> QED
    BY <1>1, <1>2, <1>11, <2>1, EmptyFacts DEF StepShape
<1> QED
  BY <1>5, <1>6, <1>7, <1>8, <1>9, <1>10, <1>11 DEF Works

-----------------------------------------------------------------------------
\* Every such step keeps the invariant.
LEMMA OutTyped ==
  ASSUME PathInv, Works PROVE out' \in Seq(Out)
<1>1. cur \in Datagram /\ out \in Seq(Out) /\ pc \notin {"idle", "done"}
  BY StepShaped DEF PathInv, TypeInv
<1>2. Held \in Seq(Datagram)
  <2>1. T.delayed \in Seq(Captured(cur.conn)) /\ Captured(cur.conn) \subseteq Datagram
    BY <1>1 DEF PathInv, TypeInv, IsEntry, Tracked, T, Captured
  <2>2. T.delayed \in Seq(Datagram) /\ <<>> \in Seq(Datagram)
    BY <2>1, SeqMonotonic
  <2> QED
    BY <2>2 DEF Held
<1>3. AllOrig(Held) \in Seq(Out)
  BY <1>2, AllOrigTyped
<1>4. \A how \in {"orig", "changed", "fake"} : As(cur, how) \in Out
  BY <1>1 DEF As, Out
<1> DEFINE h == AllOrig(Held)
<1> HIDE DEF h
<1>5. out \o h \in Seq(Out)
  BY <1>1, <1>3 DEF h
<1>6. \/ out' = out \/ out' = out \o h \/ out' = Append(out \o h, As(cur, "orig"))
      \/ \E how \in {"orig", "changed"} :
           \/ out' = Append(out, As(cur, how))
           \/ out' = Append(Append(out, As(cur, "fake")), As(cur, how))
  BY StepShaped DEF StepShape, SendsAsIs, SendOrig, GoesOn, GivesUp, ClosesAndGoesOn, HoldsIt, Acts, h
<1>7. ASSUME NEW how \in {"orig", "changed"}
      PROVE  /\ Append(out, As(cur, how)) \in Seq(Out)
             /\ Append(Append(out, As(cur, "fake")), As(cur, how)) \in Seq(Out)
  <2>1. As(cur, how) \in Out /\ As(cur, "fake") \in Out
    BY <1>4
  <2> QED
    BY <1>1, <2>1
<1>8. Append(out \o h, As(cur, "orig")) \in Seq(Out)
  BY <1>4, <1>5
<1> QED
  BY <1>1, <1>5, <1>6, <1>7, <1>8

LEMMA WorksTyped ==
  ASSUME PathInv, Works, rules' = rules PROVE TypeInv'
<1>1. Stays /\ dp' \in 0..Len(Strategies) /\ pc \in {"find", "payload", "discover", "check", "act"} /\ StepShape
  BY StepShaped
<1>2. TypeInv
  BY DEF PathInv
<1>3. Tracked /\ cur \in Captured(cur.conn) /\ cur.conn \in Flows
  BY <1>1, <1>2 DEF TypeInv, Tracked
<1>4. Only(table') /\ IsEntry(cur.conn, N)
  BY <1>1 DEF StepShape, SendsAsIs, GoesOn, GivesUp, ClosesAndGoesOn, HoldsIt, Acts, Quiet, Shut, N
<1>5. DOMAIN table' = DOMAIN table /\ \A c \in DOMAIN table : IsEntry(c, table'[c])
  BY <1>2, <1>4 DEF Only, N, TypeInv
<1>6. plain' \in [Flows -> Seq(Frame)]
  <2>1. cur.frames \in Seq(Frame) /\ <<>> \in Seq(Frame) /\ plain \in [Flows -> Seq(Frame)]
    BY <1>2, <1>3 DEF Captured, Datagram, TypeInv
  <2>2. plain[cur.conn] \o cur.frames \in Seq(Frame)
    BY <1>3, <2>1
  <2>3. \/ plain' = plain \/ plain' = [plain EXCEPT ![cur.conn] = <<>>]
        \/ plain' = [plain EXCEPT ![cur.conn] = @ \o cur.frames]
        \/ plain' = [plain EXCEPT ![cur.conn] = cur.frames]
    BY <1>1 DEF StepShape, SendsAsIs, GoesOn, GivesUp, ClosesAndGoesOn, HoldsIt, Acts, CancelledPlain
  <2> QED
    BY <2>1, <2>2, <2>3
<1>7. pc' \in Steps
  BY <1>1 DEF StepShape, SendsAsIs, SendOrig, GoesOn, GivesUp, ClosesAndGoesOn, HoldsIt, Acts, Steps, After
<1>8. Tracked' /\ (cur \in Captured(cur.conn))'
  BY <1>1, <1>3, <1>5 DEF Tracked, Stays, Captured
<1>9. (\A c \in DOMAIN table : IsEntry(c, table[c]))'
  BY <1>5 DEF IsEntry, Hosts
<1> QED
  BY <1>1, <1>2, <1>5, <1>6, <1>7, <1>8, <1>9, OutTyped DEF TypeInv, Stays

LEMMA WorksPlaced ==
  ASSUME PathInv, Works PROVE PlaceInv'
<1>1. Stays /\ pc \in {"find", "payload", "discover", "check", "act"} /\ StepShape
  BY StepShaped
<1>2. PlaceInv /\ replay \in BOOLEAN /\ out \in Seq(Out)
  BY DEF PathInv, TypeInv
<1>3. T' = N
  BY <1>1 DEF Stays, N, T
<1>4. CASE pc' = "done" /\ Real
  BY <1>1, <1>4 DEF PlaceInv, Stays, Real
<1>5. CASE pc' = "replay" /\ replay
  BY <1>1, <1>5 DEF PlaceInv, Stays
<1>6. CASE GoesOn /\ pc = "find" /\ pc' = "payload" /\ N.dp # 0
  BY <1>1, <1>2, <1>3, <1>6 DEF PlaceInv, Stays, GoesOn
<1>7. CASE GoesOn /\ pc # "find" /\ pc' \in {"discover", "check", "act"} /\ (Real => Open)
  BY <1>1, <1>2, <1>3, <1>7 DEF PlaceInv, Stays, GoesOn, Quiet, N, Open, Real
<1>8. CASE ClosesAndGoesOn /\ pc # "find"
  <2>1. replay => out' = out
    <3>1. replay => AllOrig(Held) = <<>>
      BY DEF AllOrig, Held
    <3> QED
      BY <1>2, <1>8, <3>1, ConcatEmptySeq DEF ClosesAndGoesOn
  <2> QED
    BY <1>1, <1>2, <1>3, <1>8, <2>1 DEF PlaceInv, Stays, ClosesAndGoesOn, Shut, N, Real
<1>9. CASE HoldsIt /\ pc = "payload"
  BY <1>1, <1>2, <1>3, <1>9 DEF PlaceInv, Stays, HoldsIt, Real
<1> QED
  BY <1>1, <1>2, <1>4, <1>5, <1>6, <1>7, <1>8, <1>9
     DEF StepShape, SendsAsIs, SendOrig, GivesUp, Acts, After, Real

LEMMA WorksSettled ==
  ASSUME PathInv, Works, rules' = rules PROVE SettledInv'
<1>1. Stays /\ pc \in {"find", "payload", "discover", "check", "act"} /\ StepShape
  BY StepShaped
<1>2. TypeInv /\ PlaceInv /\ SettledInv
  BY DEF PathInv
<1>3. Only(table')
  BY <1>1 DEF StepShape, SendsAsIs, GoesOn, GivesUp, ClosesAndGoesOn, HoldsIt, Acts, Quiet, Shut
<1>4. \A c \in Flows : c # cur.conn => plain'[c] = plain[c]
  BY <1>1, <1>2 DEF TypeInv, StepShape, SendsAsIs, GoesOn, GivesUp, ClosesAndGoesOn, HoldsIt, Acts, CancelledPlain
<1>5. ASSUME NEW c \in DOMAIN table, c # cur.conn PROVE Settled(c)'
  <2>1. table'[c] = table[c] /\ plain'[c] = plain[c] /\ Settled(c)
    BY <1>2, <1>3, <1>4, <1>5 DEF Only, SettledInv, Replayed, TypeInv
  <2> QED
    BY <2>1 DEF Settled, Whole
<1>6. ASSUME Real, pc' # "replay" PROVE Settled(cur.conn)'
  <2> DEFINE c == cur.conn
  <2>1. c \in DOMAIN table /\ c \in Flows /\ cur \in Captured(c) /\ T.delayed \in Seq(Captured(c))
    BY <1>1, <1>2 DEF TypeInv, Tracked, IsEntry, T
  <2>2. Settled(c)
    BY <1>1, <1>2, <1>6, <2>1 DEF SettledInv, Replayed, Real
  <2>3. c' = c
    BY <1>1 DEF Stays
  <2>4. CASE Quiet(table') /\ plain' = plain /\ (Open \/ N.dp # 0)
    <3>1. N.delayed = T.delayed /\ N.reasm = T.reasm
      BY <2>4 DEF Quiet, N
    <3> QED
      BY <2>2, <2>3, <2>4, <3>1 DEF Settled, Whole, N, T, Open
  <2>5. CASE Shut(table') /\ plain' = CancelledPlain
    <3>1. N.delayed = <<>> /\ N.reasm = NoReasm /\ plain'[c] = <<>>
      BY <1>2, <1>6, <2>1, <2>5 DEF Shut, N, Real, CancelledPlain, TypeInv
    <3> QED
      BY <2>3, <3>1, FramesFacts DEF Settled, N, NoReasm
  <2>6. CASE HoldsIt /\ N.dp # 0
    <3> DEFINE d == T.delayed
    <3>1. d \in Seq(Datagram) /\ cur \in Datagram /\ cur.frames \in Seq(Frame)
      <4>1. Captured(c) \subseteq Datagram
        BY DEF Captured
      <4>2. \A p \in Datagram : p.frames \in Seq(Frame)
        BY DEF Datagram
      <4> QED
        BY <2>1, <4>1, <4>2, SeqMonotonic
    <3>2. N.delayed = Append(d, cur) /\ N.reasm.size = MaxReasm
      BY <2>6 DEF HoldsIt
    <3>3. plain'[c] = IF Joins THEN plain[c] \o cur.frames ELSE cur.frames
      BY <1>2, <2>1, <2>6 DEF HoldsIt, TypeInv
    <3>4. plain[c] = FramesOf(d) /\ (~Joins => d = <<>>)
      BY <1>6, <2>2 DEF Settled, Joins, ReasmIsEmpty, T, Real
    <3>5. plain'[c] = FramesOf(d) \o cur.frames
      <4>1. FramesOf(<<>>) \o cur.frames = cur.frames
        BY <3>1, FramesFacts, ConcatEmptySeq
      <4> HIDE DEF d
      <4> QED
        BY <3>3, <3>4, <4>1
    <3>6. plain'[c] = FramesOf(N.delayed)
      <4> HIDE DEF d
      <4> QED
        BY <3>1, <3>2, <3>5, FramesFacts
    <3>7. N.delayed # <<>>
      <4> HIDE DEF d
      <4> QED
        BY <3>1, <3>2
    <3>8. ~Whole(plain'[c]) /\ MaxReasm # 0
      BY <1>6, <2>6, DatagramAssumption DEF HoldsIt
    <3>9. (~Whole(plain[cur.conn]))'
      BY <2>3, <3>8 DEF Whole
    <3> HIDE DEF d
    <3> QED
      BY <2>3, <2>6, <3>2, <3>6, <3>7, <3>8, <3>9 DEF Settled, N
  <2> QED
    BY <1>1, <1>6, <2>4, <2>5, <2>6
       DEF StepShape, SendsAsIs, GoesOn, GivesUp, ClosesAndGoesOn, Acts, Real
<1> QED
  <2>1. DOMAIN table' = DOMAIN table /\ cur' = cur /\ replay' = replay /\ replay \in BOOLEAN
    BY <1>1, <1>2, <1>3 DEF Only, Stays, TypeInv
  <2> QED
    BY <1>5, <1>6, <2>1 DEF SettledInv, Replayed, Real

Leading(q) == \A i \in DOMAIN q : q[i].how = "fake" => \A j \in 1..(i - 1) : q[j].how = "fake"
LEMMA LeadingFacts ==
  /\ Leading(<<>>)
  /\ \A q \in Seq(Out), o \in Out : o.how # "fake" /\ Leading(q) => Leading(Append(q, o))
  /\ \A o \in Out : Leading(<<o>>)
<1>1. Leading(<<>>) /\ \A o \in Out : Leading(<<o>>)
  BY DEF Leading
<1>2. ASSUME NEW q \in Seq(Out), NEW o \in Out, o.how # "fake", Leading(q) PROVE Leading(Append(q, o))
  <2> DEFINE t == Append(q, o)
  <2>1. /\ DOMAIN t = 1..(Len(q) + 1) /\ t[Len(q) + 1] = o /\ DOMAIN q = 1..Len(q) /\ Len(q) \in Nat
        /\ \A i \in 1..Len(q) : t[i] = q[i]
    OBVIOUS
  <2> HIDE DEF t
  <2>2. Leading(t)
    BY <1>2, <2>1 DEF Leading
  <2> QED
    BY <2>2 DEF t
<1> QED
  BY <1>1, <1>2

LEMMA WorksLead ==
  ASSUME PathInv, Works PROVE FakesLead'
<1>1. Stays /\ pc \in {"find", "payload", "discover", "check", "act"} /\ StepShape
  BY StepShaped
<1>2. PlaceInv /\ out \in Seq(Out) /\ cur \in Datagram /\ FakesLead
  BY DEF PathInv, TypeInv
<1>3. SUFFICES ASSUME replay PROVE Leading(out')
  BY <1>1 DEF FakesLead, Leading, Stays
<1>4. Leading(out)
  BY <1>2, <1>3 DEF FakesLead, Leading
<1>5. \A how \in {"orig", "changed", "fake"} : As(cur, how) \in Out /\ As(cur, how).how = how
  BY <1>2 DEF As, Out
<1>6. out \o AllOrig(Held) = out
  <2>1. AllOrig(Held) = <<>>
    BY <1>3 DEF AllOrig, Held
  <2> QED
    BY <1>2, <2>1, ConcatEmptySeq
<1>7. \A how \in {"orig", "changed"} : Leading(Append(out, As(cur, how)))
  BY <1>2, <1>4, <1>5, LeadingFacts
<1>8. ASSUME first, pc = "act", NEW how \in {"orig", "changed"}
      PROVE  Leading(Append(Append(out, As(cur, "fake")), As(cur, how)))
  <2>1. Append(out, As(cur, "fake")) = <<As(cur, "fake")>>
    BY <1>2, <1>3, <1>8 DEF PlaceInv
  <2>2. <<As(cur, "fake")>> \in Seq(Out) /\ Leading(<<As(cur, "fake")>>)
    BY <1>5, LeadingFacts
  <2> QED
    BY <1>5, <2>1, <2>2, LeadingFacts
<1> QED
  BY <1>1, <1>3, <1>4, <1>6, <1>7, <1>8
     DEF StepShape, SendsAsIs, SendOrig, GoesOn, GivesUp, ClosesAndGoesOn, HoldsIt, Acts, Real

-----------------------------------------------------------------------------
\* The replay of the held datagrams.
LEMMA NextHeldKeeps ==
  ASSUME PathInv, NextHeld, rules' = rules PROVE PathInv'
<1> DEFINE c == cur.conn
           p == Head(T.delayed)
<1>1. TypeInv /\ PlaceInv /\ SettledInv /\ FakesLead
  BY DEF PathInv
<1>2. /\ pc = "replay" /\ T.delayed # <<>> /\ cur' = p /\ replay' = TRUE /\ first' = ~replay
      /\ table' = [table EXCEPT ![c].delayed = Tail(@)] /\ dp' = T.dp
      /\ plain' = plain
      /\ \/ T.dp = 0 /\ out' = Append(out, As(p, "orig")) /\ pc' = "replay"
         \/ pc' = "payload" /\ out' = out
  BY DEF NextHeld
<1>3. /\ c \in DOMAIN table /\ c \in Flows /\ IsEntry(c, T) /\ T.delayed \in Seq(Captured(c))
      /\ out \in Seq(Out)
  BY <1>1, <1>2 DEF TypeInv, Tracked, IsEntry, T
<1>4. p \in Captured(c) /\ p \in Datagram /\ p.conn = c /\ Tail(T.delayed) \in Seq(Captured(c))
  BY <1>2, <1>3 DEF Captured
<1>5. As(p, "orig") \in Out /\ As(p, "orig").how = "orig"
  BY <1>4 DEF As, Out
<1> DEFINE u == [T EXCEPT !.delayed = Tail(T.delayed)]
<1>6. DOMAIN table' = DOMAIN table /\ table'[c] = u /\ \A d \in DOMAIN table : d # c => table'[d] = table[d]
  BY <1>2, <1>3 DEF T
<1>7. IsEntry(c, u) /\ u.dp = T.dp
  BY <1>3, <1>4 DEF IsEntry
<1> HIDE DEF p, u
<1>8. TypeInv'
  <2>1. out' \in Seq(Out)
    BY <1>2, <1>3, <1>5
  <2>2. \A d \in DOMAIN table' : IsEntry(d, table'[d])
    BY <1>1, <1>6, <1>7 DEF TypeInv
  <2>3. (\A d \in DOMAIN table : IsEntry(d, table[d]))'
    BY <2>2 DEF IsEntry, Hosts
  <2>4. replay' \in BOOLEAN /\ first' \in BOOLEAN /\ pc' \in Steps /\ dp' \in 0..Len(Strategies)
    BY <1>1, <1>2, <1>3 DEF TypeInv, Steps, IsEntry
  <2>5. Tracked' /\ (cur \in Captured(cur.conn))' /\ cur' \in Datagram
    BY <1>2, <1>3, <1>4, <1>6 DEF Tracked, Captured
  <2> QED
    BY <1>1, <1>2, <1>6, <2>1, <2>3, <2>4, <2>5 DEF TypeInv
<1>9. PlaceInv'
  BY <1>1, <1>2 DEF PlaceInv
<1>10. SettledInv'
  <2>1. ASSUME NEW d \in DOMAIN table, d # c PROVE Settled(d)'
    <3>1. Settled(d) /\ table'[d] = table[d] /\ plain'[d] = plain[d]
      BY <1>1, <1>2, <1>6, <2>1 DEF SettledInv, Replayed
    <3> QED
      BY <3>1 DEF Settled, Whole
  <2> QED
    BY <1>2, <1>4, <1>6, <2>1 DEF SettledInv, Replayed
<1>11. FakesLead'
  <2>1. Leading(out)
    BY <1>1, <1>2, LeadingFacts DEF FakesLead, PlaceInv, Leading, TypeInv
  <2>2. Leading(out')
    BY <1>2, <1>3, <1>5, <2>1, LeadingFacts
  <2> QED
    BY <2>2 DEF FakesLead, Leading
<1> QED
  BY <1>8, <1>9, <1>10, <1>11 DEF PathInv

LEMMA ReplayOverKeeps ==
  ASSUME PathInv, ReplayOver, rules' = rules PROVE PathInv'
<1> DEFINE c == cur.conn
           u == [T EXCEPT !.reasm = NoReasm]
<1>1. TypeInv /\ PlaceInv /\ SettledInv /\ FakesLead
  BY DEF PathInv
<1>2. /\ pc = "replay" /\ T.delayed = <<>> /\ cur' = cur /\ replay' = FALSE /\ first' = first
      /\ table' = [table EXCEPT ![c].reasm = NoReasm] /\ dp' = dp /\ pc' = "done"
      /\ plain' = [plain EXCEPT ![c] = <<>>] /\ out' = out
  BY DEF ReplayOver
<1>3. c \in DOMAIN table /\ c \in Flows /\ IsEntry(c, T)
  BY <1>1, <1>2 DEF TypeInv, Tracked, T
<1>4. DOMAIN table' = DOMAIN table /\ table'[c] = u /\ \A d \in DOMAIN table : d # c => table'[d] = table[d]
  BY <1>2, <1>3 DEF T
<1>5. IsEntry(c, u) /\ u.delayed = <<>> /\ u.reasm = NoReasm
  <2>1. NoReasm \in Reasm
    BY DatagramAssumption DEF NoReasm, Reasm
  <2> QED
    BY <1>2, <1>3, <2>1 DEF IsEntry
<1> HIDE DEF u
<1>6. plain' \in [Flows -> Seq(Frame)] /\ plain'[c] = <<>> /\ \A d \in Flows : d # c => plain'[d] = plain[d]
  <2>1. <<>> \in Seq(Frame) /\ plain \in [Flows -> Seq(Frame)]
    BY <1>1 DEF TypeInv
  <2> QED
    BY <1>2, <1>3, <2>1
<1>7. TypeInv'
  <2>1. \A d \in DOMAIN table' : IsEntry(d, table'[d])
    BY <1>1, <1>4, <1>5 DEF TypeInv
  <2>2. (\A d \in DOMAIN table : IsEntry(d, table[d]))'
    BY <2>1 DEF IsEntry, Hosts
  <2> QED
    BY <1>1, <1>2, <1>4, <1>6, <2>2 DEF TypeInv, Steps
<1>8. PlaceInv' /\ FakesLead'
  BY <1>1, <1>2 DEF PlaceInv, FakesLead
<1>9. SettledInv'
  <2>1. ASSUME NEW d \in DOMAIN table, d # c PROVE Settled(d)'
    <3>1. Settled(d) /\ table'[d] = table[d] /\ plain'[d] = plain[d]
      BY <1>1, <1>4, <1>6, <2>1 DEF SettledInv, Replayed, TypeInv
    <3> QED
      BY <3>1 DEF Settled, Whole
  <2>2. Settled(cur.conn)'
    <3>1. cur'.conn = c /\ table'[c].delayed = <<>> /\ table'[c].reasm.size = 0 /\ plain'[c] = FramesOf(<<>>)
      <4>1. cur'.conn = c
        BY <1>2
      <4>2. NoReasm.size = 0
        BY DEF NoReasm
      <4>3. table'[c].delayed = <<>> /\ table'[c].reasm = NoReasm
        BY <1>4, <1>5
      <4>4. plain'[c] = FramesOf(<<>>)
        BY <1>6, FramesFacts
      <4> QED
        BY <4>1, <4>2, <4>3, <4>4
    <3> QED
      BY <3>1 DEF Settled
  <2> QED
    BY <1>2, <1>4, <2>1, <2>2 DEF SettledInv
<1> QED
  BY <1>7, <1>8, <1>9 DEF PathInv

-----------------------------------------------------------------------------
\* A datagram is captured: an entry is as it was, or new.
LEMMA PurgedFacts ==
  DOMAIN UdpPurged \subseteq DOMAIN table /\ \A c \in DOMAIN UdpPurged : UdpPurged[c] = table[c]
  BY DEF UdpPurged

LEMMA FedFacts ==
  ASSUME NEW p, p.conn \in Flows, TypeInv
  PROVE  LET f == UdpFed(UdpPurged, p)
         IN /\ DOMAIN f = DOMAIN UdpPurged \cup {p.conn} /\ DOMAIN f \subseteq Flows
            /\ \A c \in DOMAIN f : IsEntry(c, f[c])
            /\ \A c \in DOMAIN UdpPurged : Like(table[c], f[c])
            /\ p.conn \notin DOMAIN UdpPurged =>
                 /\ f[p.conn].delayed = <<>> /\ f[p.conn].reasm = NoReasm
                 /\ f[p.conn].retrans \in {0, Stop} /\ ~f[p.conn].check.done
<1> DEFINE P == UdpPurged
           Old(c) == IF c \in DOMAIN P THEN P[c] ELSE UdpEntry
           f == UdpFed(P, p)
<1>1. DOMAIN P \subseteq DOMAIN table /\ \A c \in DOMAIN P : P[c] = table[c]
  BY PurgedFacts
<1>2. \A c \in DOMAIN table : IsEntry(c, table[c]) /\ c \in Flows
  BY DEF TypeInv
<1>3. /\ DOMAIN f = DOMAIN P \cup {p.conn}
      /\ \A c \in DOMAIN P : c # p.conn => f[c] = P[c]
      /\ f[p.conn] = UdpFedEntry(Old(p.conn), p)
  <2> HIDE DEF P
  <2> QED
    BY DEF UdpFed
<1> HIDE DEF P, f
<1>4. IsEntry(p.conn, Old(p.conn))
  BY <1>1, <1>2, NewEntry
<1>5. IsEntry(p.conn, f[p.conn]) /\ Like(Old(p.conn), f[p.conn])
  BY <1>3, <1>4, CountedEntry
<1>6. p.conn \notin DOMAIN P => /\ f[p.conn].delayed = <<>> /\ f[p.conn].reasm = NoReasm
                               /\ f[p.conn].retrans \in {0, Stop} /\ ~f[p.conn].check.done
  BY <1>5, NewEntry DEF Like
<1>7. \A c \in DOMAIN P : Like(table[c], f[c])
  BY <1>1, <1>3, <1>5 DEF Like
<1>8. \A c \in DOMAIN f : IsEntry(c, f[c])
  BY <1>1, <1>2, <1>3, <1>5
<1>9. DOMAIN f \subseteq Flows
  BY <1>1, <1>2, <1>3
<1> QED
  BY <1>3, <1>6, <1>7, <1>8, <1>9 DEF P, f

LEMMA CaptureKeeps ==
  ASSUME PathInv, NEW c \in Flows, NEW p \in Captured(c), Capture(p), rules' = rules PROVE PathInv'
<1> DEFINE P == UdpPurged
<1>1. TypeInv /\ PlaceInv /\ SettledInv
  BY DEF PathInv
<1>2. p \in Datagram /\ p.conn = c
  BY DEF Captured
<1>3. /\ pc = "idle" /\ cur' = p /\ replay' = FALSE /\ first' = TRUE /\ dp' = 0 /\ out' = <<>>
      /\ table' = UdpFed(P, p) /\ pc' = "find"
      /\ plain' = [d \in Flows |-> IF d \in DOMAIN P THEN plain[d] ELSE <<>>]
  BY DEF Capture
<1>4. /\ DOMAIN table' = DOMAIN P \cup {c} /\ DOMAIN table' \subseteq Flows
      /\ \A d \in DOMAIN table' : IsEntry(d, table'[d])
      /\ \A d \in DOMAIN P : Like(table[d], table'[d])
      /\ c \notin DOMAIN P => table'[c].delayed = <<>> /\ table'[c].reasm = NoReasm
  BY <1>1, <1>2, <1>3, FedFacts
<1>5. DOMAIN P \subseteq DOMAIN table
  BY PurgedFacts
<1> HIDE DEF P
<1>6. plain' \in [Flows -> Seq(Frame)]
  <2>1. <<>> \in Seq(Frame) /\ plain \in [Flows -> Seq(Frame)]
    BY <1>1 DEF TypeInv
  <2> QED
    BY <1>3, <2>1
<1>7. TypeInv'
  <2>1. (\A d \in DOMAIN table : IsEntry(d, table[d]))'
    BY <1>4 DEF IsEntry, Hosts
  <2>2. Tracked' /\ (cur \in Captured(cur.conn))' /\ cur' \in Datagram
    BY <1>2, <1>3, <1>4 DEF Tracked, Captured
  <2>3. dp' \in 0..Len(Strategies) /\ out' \in Seq(Out) /\ pc' \in Steps
    BY <1>3, DatagramAssumption DEF Steps
  <2> QED
    BY <1>1, <1>3, <1>4, <1>6, <2>1, <2>2, <2>3 DEF TypeInv
<1>8. PlaceInv' /\ FakesLead'
  BY <1>1, <1>3 DEF PlaceInv, FakesLead
<1>9. ASSUME NEW d \in DOMAIN table' PROVE Settled(d)'
  <2>1. CASE d \in DOMAIN P
    <3>1. d \in Flows /\ Settled(d)
      BY <1>1, <1>3, <1>4, <1>5, <2>1 DEF SettledInv, Replayed, PlaceInv
    <3>2. plain'[d] = plain[d] /\ Like(table[d], table'[d])
      BY <1>3, <1>4, <2>1, <3>1
    <3> QED
      BY <3>1, <3>2 DEF Settled, Whole, Like
  <2>2. CASE d \notin DOMAIN P
    <3>1. d = c /\ table'[d].delayed = <<>> /\ table'[d].reasm = NoReasm
      BY <1>4, <2>2
    <3>2. plain'[d] = FramesOf(<<>>)
      BY <1>3, <1>4, <2>2, FramesFacts
    <3>3. NoReasm.size = 0
      BY DEF NoReasm
    <3> QED
      BY <3>1, <3>2, <3>3 DEF Settled
  <2> QED
    BY <2>1, <2>2
<1>10. SettledInv'
  BY <1>9 DEF SettledInv
<1> QED
  BY <1>7, <1>8, <1>10 DEF PathInv

LEMMA FinishKeeps ==
  ASSUME PathInv, Finish, rules' = rules PROVE PathInv'
<1>1. TypeInv /\ PlaceInv /\ SettledInv
  BY DEF PathInv
<1>2. /\ pc = "done" /\ pc' = "idle" /\ cur' = NoDatagram /\ dp' = 0 /\ first' = TRUE /\ out' = <<>>
      /\ table' = table /\ plain' = plain /\ replay' = replay
  BY DEF Finish
<1>3. TypeInv'
  <2>1. NoDatagram \in Datagram
    BY DEF NoDatagram, Datagram, Kinds
  <2>2. (\A d \in DOMAIN table : IsEntry(d, table[d]))'
    BY <1>1, <1>2 DEF TypeInv, IsEntry, Hosts
  <2> QED
    BY <1>1, <1>2, <2>1, <2>2, DatagramAssumption DEF TypeInv, Steps
<1>4. PlaceInv' /\ FakesLead'
  BY <1>1, <1>2 DEF PlaceInv, FakesLead
<1>5. SettledInv'
  <2>1. ASSUME NEW d \in DOMAIN table PROVE Settled(d)'
    <3>1. Settled(d)
      BY <1>1, <1>2, <2>1 DEF SettledInv, Replayed, PlaceInv
    <3> QED
      BY <1>2, <3>1 DEF Settled, Whole
  <2> QED
    BY <1>2, <2>1 DEF SettledInv
<1> QED
  BY <1>3, <1>4, <1>5 DEF PathInv

LEMMA PathInvInit == Init => PathInv
<1> SUFFICES ASSUME Init PROVE PathInv
  OBVIOUS
<1>1. TypeInv
  <2>1. NoDatagram \in Datagram
    BY DEF NoDatagram, Datagram, Kinds
  <2>2. DOMAIN table = {}
    BY DEF Init
  <2>3. plain \in [Flows -> Seq(Frame)]
    BY DEF Init
  <2>4. 0 \in 0..Len(Strategies)
    BY DatagramAssumption
  <2>5. /\ rules \in Rules /\ pc = "idle" /\ cur = NoDatagram /\ replay = FALSE /\ first = TRUE /\ dp = 0
        /\ out = <<>>
    BY DEF Init
  <2>6. DOMAIN table \subseteq Flows /\ \A c \in DOMAIN table : IsEntry(c, table[c])
    BY <2>2
  <2>7. cur \in Datagram /\ dp \in 0..Len(Strategies) /\ out \in Seq(Out)
    BY <2>1, <2>4, <2>5
  <2> QED
    BY <2>3, <2>5, <2>6, <2>7 DEF TypeInv, Steps
<1>2. SettledInv
  BY DEF Init, SettledInv
<1> QED
  BY <1>1, <1>2 DEF Init, PathInv, PlaceInv, FakesLead

LEMMA AnswerCaptured == \A c \in Flows : Answer(c) \in Captured(c)
<1> SUFFICES ASSUME NEW c \in Flows PROVE Answer(c) \in Captured(c)
  OBVIOUS
<1>1. Answer(c) = [conn |-> c, dir |-> "reply", kind |-> "answer", len |-> 1, frames |-> <<>>]
  BY DEF Answer
<1>2. <<>> \in Seq(Frame) /\ 1 <= MaxReasm
  BY DatagramAssumption
<1> QED
  BY <1>1, <1>2 DEF Captured, Datagram, Kinds

LEMMA PathInvNext ==
  ASSUME PathInv, [Next]_vars PROVE PathInv'
<1>1. CASE \E c \in Flows : \E p : p \in Captured(c) /\ Capture(p) /\ rules' = rules
  BY <1>1, CaptureKeeps
<1>2. CASE Works /\ rules' = rules
  BY <1>2, WorksTyped, WorksPlaced, WorksSettled, WorksLead DEF PathInv
<1>3. CASE NextHeld /\ rules' = rules
  BY <1>3, NextHeldKeeps
<1>4. CASE ReplayOver /\ rules' = rules
  BY <1>4, ReplayOverKeeps
<1>5. CASE Finish /\ rules' = rules
  BY <1>5, FinishKeeps
<1>6. CASE UNCHANGED <<path, rules>>
  <2>1. UNCHANGED <<rules, table, plain, pc, cur, replay, first, dp, out>>
    BY <1>6 DEF path
  <2>2. TypeInv'
    BY <2>1 DEF PathInv, TypeInv, IsEntry, Hosts, Tracked
  <2>3. PlaceInv' /\ FakesLead'
    BY <2>1 DEF PathInv, PlaceInv, FakesLead, T
  <2>4. SettledInv'
    BY <2>1 DEF PathInv, SettledInv, Settled, Replayed, Whole
  <2> QED
    BY <2>2, <2>3, <2>4 DEF PathInv
<1>7. ASSUME NEW c \in Flows, (\E p \in Parts[c] : Send(c, p)) \/ (\E p \in Others[c] : SendOther(c, p)) \/ Reply(c)
      PROVE  \E p : p \in Captured(c) /\ Capture(p) /\ rules' = rules
  BY <1>7, DatagramAssumption, AnswerCaptured DEF Send, SendOther, Reply, world
<1>8. Engine => (Works \/ NextHeld \/ ReplayOver) /\ rules' = rules
  BY DEF Engine, Works, world
<1>9. Transmit \/ Lose => Finish /\ rules' = rules
  BY DEF Transmit, Lose, world
<1> QED
  BY <1>1, <1>2, <1>3, <1>4, <1>5, <1>6, <1>7, <1>8, <1>9 DEF Next, Tick, Edit, vars, world

\* The invariant holds of every behaviour.
THEOREM PathIsKept == Spec => []PathInv
<1>1. PathInv /\ [Next]_vars => PathInv'
  BY PathInvNext
<1> QED
  BY PathInvInit, <1>1, PTL DEF Spec

\* What the engine keeps is well formed; a buffer never counts more than it was
\* made for (conntrack.c, desync.c).
THEOREM DatagramTypes == Spec => []TypeOK
<1>1. PathInv => TypeOK
  BY DEF PathInv, TypeInv, TypeOK, IsEntry, Reasm, Steps
<1> QED
  BY PathIsKept, <1>1, PTL

\* Datagrams are held only for a session that is open and a ClientHello that is
\* not complete, and the buffer has exactly their frames (reasm_orig_start,
\* reasm_orig_fin, replay_queue).
THEOREM HeldStaysIncomplete == Spec => []HeldIsIncomplete
<1>1. PathInv => HeldIsIncomplete
  BY DEF PathInv, PlaceInv, SettledInv, Settled, Replayed, Whole, HeldIsIncomplete, ReasmIsEmpty
<1> QED
  BY PathIsKept, <1>1, PTL

\* A replayed request has its fakes before all of its datagrams (reasm_offset).
THEOREM FakesComeFirst == Spec => []FakesLead
  BY PathIsKept, PTL DEF PathInv

-----------------------------------------------------------------------------
\* Reports. What a tracked flow was counted for, by the lists as they were; a
\* request is counted before anything of it leaves.
Earned(c) ==
  /\ Len(reported[c]) <= 1
  /\ \A i \in DOMAIN reported[c] :
       Strategies[reported[c][i]].auto /\ repeats[c] >= Strategies[reported[c][i]].retrans
CountedFor(t, c) ==
  /\ t.retrans # Stop => reported[c] = <<>> /\ t.retrans <= repeats[c]
  /\ Checked(t)
RepeatsPlace ==
  /\ pc \in {"payload", "discover", "check"} => dp # 0 /\ dp = T.dp
  /\ pc \in {"discover", "check"} /\ loc.have /\ first => out = <<>>
RepeatsInv ==
  /\ says \in [DOMAIN Strategies -> Verdicts]
  /\ repeats \in [Flows -> Nat] /\ reported \in [Flows -> Seq(DOMAIN Strategies)]
  /\ \A c \in Flows : Earned(c)
  /\ \A c \in DOMAIN table : CountedFor(table[c], c)
  /\ RepeatsPlace

LEMMA RetransTyped ==
  ASSUME TypeInv, NEW c \in DOMAIN table PROVE c \in Flows /\ table[c].retrans \in Nat
<1>1. c \in Flows /\ IsEntry(c, table[c])
  BY DEF TypeInv
<1>2. 0..Stop \subseteq Nat
  BY DEF Stop
<1> QED
  BY <1>1, <1>2 DEF IsEntry

\* A step that reports nothing.
LEMMA NothingReported ==
  ASSUME RepeatsInv, Only(table'), Tracked, cur' = cur, says' = says, reports' = reports,
         N.retrans \in {T.retrans, Stop}, Checked(N), RepeatsPlace'
  PROVE  RepeatsInv'
<1>1. repeats' = repeats /\ reported' = reported
  BY DEF reports
<1>2. ASSUME NEW c \in DOMAIN table' PROVE CountedFor(table[c], c)'
  <2>1. CASE c = cur.conn
    <3>1. CountedFor(T, c)
      BY <2>1 DEF RepeatsInv, Tracked, T
    <3> QED
      BY <1>1, <2>1, <3>1 DEF CountedFor, Checked, N
  <2>2. CASE c # cur.conn
    <3>1. CountedFor(table[c], c) /\ table'[c] = table[c]
      BY <1>2, <2>2 DEF RepeatsInv, Only
    <3> QED
      BY <1>1, <3>1 DEF CountedFor, Checked
  <2> QED
    BY <2>1, <2>2
<1> QED
  BY <1>1, <1>2 DEF RepeatsInv, Earned

\* CheckHost counts only requests of a host that the lists neither have nor
\* exclude at that moment.
LEMMA CountsRepeats ==
  ASSUME RepeatsInv, TypeInv, Only(table'), Tracked, cur' = cur, says' = says, dp' = dp,
         pc = "check", Counts, N.check = T.check, N.dp = T.dp, RepeatsPlace'
  PROVE  RepeatsInv'
<1> DEFINE c == cur.conn
           n == repeats[c]
           r == T.retrans
           k == DP.retrans
<1>1. /\ dp # 0 /\ dp = T.dp /\ c \in DOMAIN table /\ c \in Flows /\ CountedFor(T, c)
      /\ dp \in DOMAIN Strategies /\ DP.auto /\ loc.have /\ first /\ ~loc.newHost
  BY DatagramAssumption DEF RepeatsInv, RepeatsPlace, TypeInv, Tracked, T, Counts, CountsAsRepeat
<1>2. Verdict = Check(says[dp])
  BY <1>1 DEF Verdict, CountedFor, Checked, DP
<1>3. says[dp] = "unlisted"
  <2>1. says[dp] \in Verdicts /\ says[dp] # "empty" /\ ~Verdict.result /\ ~Verdict.excluded
    BY <1>1 DEF RepeatsInv, Counts, CountsAsRepeat
  <2> QED
    BY <1>2, <2>1 DEF Check, Verdicts
<1>4. out = <<>>
  BY <1>1 DEF RepeatsInv, RepeatsPlace
<1>5. n \in Nat /\ r \in Nat /\ k \in Nat /\ r <= n /\ reported[c] = <<>> /\ r # Stop
  <2>1. k \in Nat
    BY <1>1, DatagramAssumption DEF DP
  <2>2. r \in Nat
    BY <1>1, RetransTyped DEF T
  <2> QED
    BY <1>1, <2>1, <2>2 DEF RepeatsInv, CountedFor, Counts
<1>6. repeats' = IF n < k THEN [repeats EXCEPT ![c] = n + 1] ELSE repeats
  BY <1>1, <1>3, <1>4 DEF Counts, Repeated
<1>7. \/ r + 1 < k /\ N.retrans = r + 1 /\ reported' = reported
      \/ r + 1 >= k /\ N.retrans = Stop /\ reported' = [reported EXCEPT ![c] = Append(@, dp)]
  <2>1. Fires(T) <=> r + 1 >= k
    BY <1>5 DEF Fires
  <2> QED
    BY <1>5, <2>1 DEF Counts
<1> HIDE DEF k
<1>8. /\ repeats' \in [Flows -> Nat] /\ \A d \in Flows : repeats'[d] >= repeats[d]
      /\ r + 1 < k => r + 1 <= repeats'[c]
      /\ r + 1 >= k => repeats'[c] >= k
  <2>1. repeats \in [Flows -> Nat]
    BY DEF RepeatsInv
  <2>2. CASE n < k
    <3>1. repeats' = [repeats EXCEPT ![c] = n + 1]
      BY <1>6, <2>2
    <3>2. repeats'[c] = n + 1 /\ \A d \in Flows : d # c => repeats'[d] = repeats[d]
      BY <1>1, <2>1, <3>1
    <3> DEFINE m == n + 1
    <3>3. repeats' \in [Flows -> Nat]
      <4>1. m \in Nat /\ repeats' = [repeats EXCEPT ![c] = m]
        BY <1>5, <3>1
      <4> HIDE DEF m
      <4> QED
        BY <2>1, <4>1
    <3>4. ASSUME NEW d \in Flows PROVE repeats'[d] >= repeats[d]
      BY <1>5, <2>1, <3>2
    <3> HIDE DEF n, r
    <3> QED
      BY <1>5, <3>2, <3>3, <3>4
  <2>3. CASE ~(n < k)
    <3>1. \A d \in Flows : repeats[d] >= repeats[d]
      BY <2>1
    <3> QED
      BY <1>5, <1>6, <2>1, <2>3, <3>1
  <2> QED
    BY <2>2, <2>3
<1>9. /\ reported' \in [Flows -> Seq(DOMAIN Strategies)] /\ \A d \in Flows : d # c => reported'[d] = reported[d]
      /\ reported'[c] = IF r + 1 >= k THEN <<dp>> ELSE <<>>
  <2>1. reported \in [Flows -> Seq(DOMAIN Strategies)] /\ Append(reported[c], dp) = <<dp>> /\ <<dp>> \in Seq(DOMAIN Strategies)
    BY <1>1, <1>5 DEF RepeatsInv
  <2>2. CASE r + 1 < k
    <3>1. reported' = reported /\ ~(r + 1 >= k)
      BY <1>5, <1>7, <2>2 DEF k
    <3> QED
      BY <1>5, <2>1, <3>1
  <2>3. CASE r + 1 >= k
    <3>1. reported' = [reported EXCEPT ![c] = Append(@, dp)]
      BY <1>5, <1>7, <2>3 DEF k
    <3> QED
      BY <1>1, <2>1, <2>3, <3>1
  <2> QED
    BY <1>5, <2>2, <2>3
<1>10. ASSUME NEW d \in Flows PROVE Earned(d)'
  <2>1. CASE d # c
    <3>1. Earned(d) /\ reported'[d] = reported[d] /\ repeats'[d] >= repeats[d]
      BY <1>8, <1>9, <2>1 DEF RepeatsInv
    <3>2. \A i \in DOMAIN reported[d] : Strategies[reported[d][i]].retrans \in Nat
      <4>1. reported[d] \in Seq(DOMAIN Strategies)
        BY DEF RepeatsInv
      <4> QED
        BY <4>1, DatagramAssumption
    <3>3. repeats[d] \in Nat /\ repeats'[d] \in Nat
      BY <1>8 DEF RepeatsInv
    <3> QED
      BY <3>1, <3>2, <3>3 DEF Earned
  <2>2. CASE d = c /\ ~(r + 1 >= k)
    BY <1>9, <2>2 DEF Earned
  <2>3. CASE d = c /\ r + 1 >= k
    <3>1. reported'[c] = <<dp>> /\ repeats'[c] >= k
      BY <1>8, <1>9, <2>3
    <3>2. Len(<<dp>>) = 1 /\ DOMAIN <<dp>> = {1} /\ <<dp>>[1] = dp
      OBVIOUS
    <3> QED
      BY <1>1, <2>3, <3>1, <3>2 DEF Earned, DP, k
  <2> QED
    BY <2>1, <2>2, <2>3
<1>11. ASSUME NEW d \in DOMAIN table' PROVE CountedFor(table[d], d)'
  <2>1. DOMAIN table' = DOMAIN table /\ d \in Flows
    BY DEF Only, TypeInv
  <2>2. CASE d # c
    <3>1. CountedFor(table[d], d) /\ table'[d] = table[d] /\ reported'[d] = reported[d] /\ repeats'[d] >= repeats[d]
      BY <1>8, <1>9, <2>1, <2>2 DEF RepeatsInv, Only
    <3>2. repeats[d] \in Nat /\ repeats'[d] \in Nat /\ table[d].retrans \in Nat
      BY <1>8, <2>1, RetransTyped DEF RepeatsInv
    <3> QED
      BY <3>1, <3>2 DEF CountedFor, Checked
  <2>3. CASE d = c
    <3>1. Checked(N)
      BY <1>1 DEF CountedFor, Checked
    <3>2. N.retrans # Stop => reported'[c] = <<>> /\ N.retrans <= repeats'[c]
      <4>1. N.retrans # Stop => r + 1 < k /\ N.retrans = r + 1
        BY <1>7 DEF k
      <4>2. r + 1 < k => ~(r + 1 >= k)
        BY <1>5
      <4> QED
        BY <1>8, <1>9, <4>1, <4>2
    <3> QED
      BY <2>3, <3>1, <3>2 DEF CountedFor, Checked, N
  <2> QED
    BY <2>2, <2>3
<1> QED
  BY <1>8, <1>9, <1>10, <1>11 DEF RepeatsInv

\* A request that the lists did not let count may still be one that came again.
LEMMA CountsNotRepeats ==
  ASSUME RepeatsInv, TypeInv, Only(table'), Tracked, cur' = cur, says' = says,
         CountsNot, N.check = T.check, N.dp = T.dp, RepeatsPlace'
  PROVE  RepeatsInv'
<1> DEFINE c == cur.conn
<1>1. c \in Flows /\ reported' = reported /\ N.retrans \in {T.retrans, Stop}
  BY DEF TypeInv, Tracked, CountsNot
<1>2. repeats' \in [Flows -> Nat] /\ \A d \in Flows : repeats'[d] >= repeats[d]
  <2>1. repeats \in [Flows -> Nat] /\ repeats' \in {repeats, [repeats EXCEPT ![c] = @ + 1]}
    BY DEF RepeatsInv, CountsNot, Repeated
  <2> QED
    BY <1>1, <2>1
<1>3. ASSUME NEW d \in Flows PROVE Earned(d)'
  <2>1. Earned(d) /\ repeats'[d] >= repeats[d] /\ repeats[d] \in Nat /\ repeats'[d] \in Nat
        /\ reported[d] \in Seq(DOMAIN Strategies)
    BY <1>2 DEF RepeatsInv
  <2>2. \A i \in DOMAIN reported[d] : Strategies[reported[d][i]].retrans \in Nat
    BY <2>1, DatagramAssumption
  <2> QED
    BY <1>1, <2>1, <2>2 DEF Earned
<1>4. ASSUME NEW d \in DOMAIN table' PROVE CountedFor(table[d], d)'
  <2>1. d \in DOMAIN table /\ d \in Flows /\ CountedFor(table[d], d) /\ table[d].retrans \in Nat
        /\ repeats[d] \in Nat /\ repeats'[d] \in Nat /\ repeats'[d] >= repeats[d]
    BY <1>2, RetransTyped DEF Only, RepeatsInv
  <2>2. /\ table'[d].check = table[d].check /\ table'[d].dp = table[d].dp
        /\ table'[d].retrans \in {table[d].retrans, Stop}
    <3>1. CASE d = c
      BY <1>1, <3>1 DEF N, T
    <3>2. CASE d # c
      BY <2>1, <3>2 DEF Only
    <3> QED
      BY <3>1, <3>2
  <2> QED
    BY <1>1, <2>1, <2>2 DEF CountedFor, Checked
<1> QED
  BY <1>1, <1>2, <1>3, <1>4 DEF RepeatsInv

LEMMA WorksRepeats ==
  ASSUME PathInv, RepeatsInv, Works, says' = says PROVE RepeatsInv'
<1>1. Stays /\ pc \in {"find", "payload", "discover", "check", "act"} /\ StepShape
  BY StepShaped
<1>2. /\ Here /\ cur \in Captured(cur.conn) /\ plain \in [Flows -> Seq(Frame)] /\ DOMAIN table \subseteq Flows
      /\ dp \in 0..Len(Strategies) /\ cur \in Datagram /\ out \in Seq(Out) /\ TypeInv /\ replay \in BOOLEAN
  BY <1>1 DEF PathInv, TypeInv, Here, Tracked, T
<1>3. Only(table') /\ Tracked /\ cur' = cur /\ first' = first /\ T' = N
  BY <1>1, <1>2 DEF StepShape, SendsAsIs, GoesOn, GivesUp, ClosesAndGoesOn, HoldsIt, Acts, Quiet, Shut,
                    Here, Stays, N, T
<1>4. Checked(T) /\ RepeatsPlace
  BY <1>2 DEF RepeatsInv, CountedFor, Here, Tracked, T
<1>5. Alike(T, N) /\ N.dp = T.dp => Checked(N) /\ N.retrans \in {T.retrans, Stop}
  BY <1>4 DEF Alike, Checked
<1>6. GivesUp \/ SendsAsIs \/ HoldsIt => pc' \notin {"payload", "discover", "check", "act"}
  BY DEF GivesUp, SendsAsIs, SendOrig, HoldsIt, After
<1>7. CASE Enter
  <2>1. /\ reports' = reports /\ Alike(T, N) /\ pc' \notin {"discover", "check"} /\ (T.dp # 0 => N.dp = T.dp)
        /\ N.dp = dp' /\ (pc' = "payload" => N.dp # 0)
    BY <1>2, <1>6, <1>7, EnterFacts
  <2>2. Checked(N)
    BY <1>4, <2>1, DatagramAssumption DEF Alike, Checked
  <2>3. RepeatsPlace'
    BY <1>3, <2>1 DEF RepeatsPlace
  <2> QED
    BY <1>3, <2>1, <2>2, <2>3, NothingReported DEF Alike
<1>8. CASE Initial
  <2>1. /\ reports' = reports /\ Alike(T, N) /\ N.dp = T.dp /\ dp' = dp /\ pc = "payload"
        /\ pc' = "discover" /\ loc'.have => out' = out
    BY <1>2, <1>8, InitialFacts DEF Initial
  <2>2. pc' # "check"
    BY <1>2, <1>6, <1>8, InitialFacts DEF ClosesAndGoesOn, GoesOn
  <2>3. first => out = <<>>
    BY <1>2, <2>1 DEF PathInv, PlaceInv
  <2>4. RepeatsPlace'
    BY <1>3, <1>4, <2>1, <2>2, <2>3 DEF RepeatsPlace
  <2> QED
    BY <1>3, <1>5, <2>1, <2>4, NothingReported
<1>9. CASE NotInitial
  <2>1. /\ reports' = reports /\ Alike(T, N) /\ N.dp = T.dp /\ dp' = dp /\ pc = "payload"
        /\ pc' = "discover" => ~loc'.have
    BY <1>2, <1>9, NotInitialFacts DEF NotInitial
  <2>2. pc' # "check"
    BY <1>2, <1>6, <1>9, NotInitialFacts DEF ClosesAndGoesOn
  <2>3. RepeatsPlace'
    BY <1>3, <1>4, <2>1, <2>2 DEF RepeatsPlace
  <2> QED
    BY <1>3, <1>5, <2>1, <2>3, NothingReported
<1>10. CASE Empty
  <2>1. reports' = reports /\ Alike(T, N) /\ N.dp = T.dp /\ pc' \notin {"payload", "discover", "check"}
    BY <1>2, <1>6, <1>10, EmptyFacts
  <2>2. RepeatsPlace'
    BY <2>1 DEF RepeatsPlace
  <2> QED
    BY <1>3, <1>5, <2>1, <2>2, NothingReported
<1>11. CASE Discover
  <2>1. /\ reports' = reports /\ N.retrans \in {T.retrans, Stop} /\ loc'.have = loc.have /\ pc = "discover"
        /\ \/ dp' = N.dp /\ Checked(N) /\ (pc' = "check" => dp' # 0)
           \/ dp' = dp /\ N.dp = T.dp /\ N.check = T.check
        /\ GivesUp \/ (GoesOn /\ pc' = "check")
    BY <1>2, <1>11, DiscoverFacts DEF Discover
  <2>2. Checked(N)
    BY <1>4, <2>1 DEF Checked
  <2>3. pc' \notin {"payload", "discover"} /\ (pc' = "check" => out' = out)
    BY <1>6, <2>1 DEF GoesOn
  <2>4. RepeatsPlace'
    BY <1>3, <1>4, <2>1, <2>3 DEF RepeatsPlace
  <2> QED
    BY <1>3, <2>1, <2>2, <2>4, NothingReported
<1>12. CASE CheckHost
  <2>1. /\ dp' = dp /\ N.dp = T.dp /\ N.check = T.check
        /\ Counts \/ CountsNot
        /\ SendsAsIs \/ pc' = "act"
    BY <1>2, <1>12, CheckHostFacts
  <2>2. RepeatsPlace'
    BY <1>6, <2>1 DEF RepeatsPlace
  <2>3. pc = "check"
    BY <1>12 DEF CheckHost
  <2>4. CASE Counts
    BY <1>2, <1>3, <2>1, <2>2, <2>3, <2>4, CountsRepeats
  <2>5. CASE CountsNot
    BY <1>2, <1>3, <2>1, <2>2, <2>5, CountsNotRepeats
  <2> QED
    BY <2>1, <2>4, <2>5
<1>13. CASE Act
  <2>1. reports' = reports /\ N = T /\ pc' = After
    BY <1>2, <1>13, ActFacts DEF Acts
  <2>2. RepeatsPlace'
    BY <2>1 DEF RepeatsPlace, After
  <2> QED
    BY <1>3, <1>4, <2>1, <2>2, NothingReported
<1> QED
  BY <1>7, <1>8, <1>9, <1>10, <1>11, <1>12, <1>13 DEF Works

\* A capture forgets what was counted and reported of the flows that expired.
LEMMA CaptureRepeats ==
  ASSUME PathInv, RepeatsInv, NEW c \in Flows, NEW p \in Captured(c), Capture(p), says' = says
  PROVE  RepeatsInv'
<1> DEFINE P == UdpPurged
<1>1. TypeInv /\ p.conn = c
  BY DEF PathInv, Captured
<1>2. /\ table' = UdpFed(P, p) /\ pc' = "find"
      /\ repeats' = [d \in Flows |-> IF d \in DOMAIN P THEN repeats[d] ELSE 0]
      /\ reported' = [d \in Flows |-> IF d \in DOMAIN P THEN reported[d] ELSE <<>>]
  BY DEF Capture
<1>3. /\ DOMAIN table' = DOMAIN P \cup {c} /\ DOMAIN table' \subseteq Flows
      /\ \A d \in DOMAIN P : Like(table[d], table'[d])
      /\ c \notin DOMAIN P => table'[c].retrans \in {0, Stop} /\ ~table'[c].check.done
  BY <1>1, <1>2, FedFacts
<1>4. DOMAIN P \subseteq DOMAIN table
  BY PurgedFacts
<1> HIDE DEF P
<1>5. repeats' \in [Flows -> Nat] /\ reported' \in [Flows -> Seq(DOMAIN Strategies)]
  <2>1. <<>> \in Seq(DOMAIN Strategies) /\ 0 \in Nat
    OBVIOUS
  <2> QED
    BY <1>2, <2>1 DEF RepeatsInv
<1>6. ASSUME NEW d \in Flows PROVE Earned(d)'
  <2>1. CASE d \in DOMAIN P
    BY <1>2, <2>1 DEF RepeatsInv, Earned
  <2>2. CASE d \notin DOMAIN P
    <3>1. reported'[d] = <<>>
      BY <1>2, <2>2
    <3> QED
      BY <3>1 DEF Earned
  <2> QED
    BY <2>1, <2>2
<1>7. ASSUME NEW d \in DOMAIN table' PROVE CountedFor(table[d], d)'
  <2>1. CASE d \in DOMAIN P
    <3>1. CountedFor(table[d], d) /\ Like(table[d], table'[d]) /\ repeats'[d] = repeats[d] /\ reported'[d] = reported[d]
      BY <1>2, <1>3, <1>4, <2>1 DEF RepeatsInv
    <3> QED
      BY <3>1 DEF CountedFor, Checked, Like
  <2>2. CASE d \notin DOMAIN P
    <3>1. d = c /\ reported'[d] = <<>> /\ repeats'[d] = 0
      BY <1>2, <1>3, <2>2
    <3> QED
      BY <1>3, <2>2, <3>1 DEF CountedFor, Checked
  <2> QED
    BY <2>1, <2>2
<1>8. RepeatsPlace'
  BY <1>2 DEF RepeatsPlace
<1> QED
  BY <1>5, <1>6, <1>7, <1>8 DEF RepeatsInv

\* The steps that are left: what CountedFor and Earned speak of stays.
LEMMA OthersRepeat ==
  ASSUME RepeatsInv, says' \in [DOMAIN Strategies -> Verdicts], reports' = reports, DOMAIN table' = DOMAIN table,
         \A c \in DOMAIN table : /\ table'[c].retrans = table[c].retrans /\ table'[c].dp = table[c].dp
                                 /\ table'[c].check = table[c].check,
         RepeatsPlace'
  PROVE  RepeatsInv'
<1>1. repeats' = repeats /\ reported' = reported
  BY DEF reports
<1>2. ASSUME NEW c \in DOMAIN table' PROVE CountedFor(table[c], c)'
  <2>1. CountedFor(table[c], c)
    BY <1>2 DEF RepeatsInv
  <2> QED
    BY <1>1, <1>2, <2>1 DEF CountedFor, Checked
<1> QED
  BY <1>1, <1>2 DEF RepeatsInv, Earned

LEMMA NextHeldRepeats ==
  ASSUME PathInv, RepeatsInv, NextHeld, says' = says PROVE RepeatsInv'
<1> DEFINE c == cur.conn
<1>1. /\ pc = "replay" /\ T.delayed # <<>> /\ cur' = Head(T.delayed) /\ dp' = T.dp /\ loc' = NoLoc
      /\ table' = [table EXCEPT ![c].delayed = Tail(@)] /\ reports' = reports
      /\ \/ pc' = "replay"
         \/ T.dp # 0 /\ pc' = "payload"
  BY DEF NextHeld
<1>2. c \in DOMAIN table /\ IsEntry(c, T)
  BY <1>1 DEF PathInv, TypeInv, Tracked, T
<1>3. Head(T.delayed).conn = c
  BY <1>1, <1>2 DEF IsEntry, Captured
<1>4. DOMAIN table' = DOMAIN table /\ \A d \in DOMAIN table :
        table'[d].retrans = table[d].retrans /\ table'[d].dp = table[d].dp /\ table'[d].check = table[d].check
  BY <1>1
<1>5. RepeatsPlace'
  BY <1>1, <1>2, <1>3, <1>4 DEF RepeatsPlace, T
<1> QED
  BY <1>1, <1>4, <1>5, OthersRepeat DEF RepeatsInv

LEMMA RepeatsInvNext ==
  ASSUME PathInv, RepeatsInv, [Next]_vars PROVE RepeatsInv'
<1>1. CASE \E c \in Flows : \E p : p \in Captured(c) /\ Capture(p) /\ says' = says
  BY <1>1, CaptureRepeats
<1>2. CASE Works /\ says' = says
  BY <1>2, WorksRepeats
<1>3. CASE NextHeld /\ says' = says
  BY <1>3, NextHeldRepeats
<1>4. CASE ReplayOver /\ says' = says
  <2>1. pc' = "done" /\ table' = [table EXCEPT ![cur.conn].reasm = NoReasm] /\ reports' = reports
    BY <1>4 DEF ReplayOver
  <2>2. RepeatsPlace'
    BY <2>1 DEF RepeatsPlace
  <2>3. DOMAIN table' = DOMAIN table /\ \A d \in DOMAIN table :
          table'[d].retrans = table[d].retrans /\ table'[d].dp = table[d].dp /\ table'[d].check = table[d].check
    BY <2>1
  <2> QED
    BY <1>4, <2>1, <2>2, <2>3, OthersRepeat DEF RepeatsInv
<1>5. CASE Finish /\ says' = says
  <2>1. pc' = "idle" /\ table' = table /\ reports' = reports
    BY <1>5 DEF Finish
  <2>2. RepeatsPlace'
    BY <2>1 DEF RepeatsPlace
  <2> QED
    BY <1>5, <2>1, <2>2, OthersRepeat DEF RepeatsInv
<1>6. CASE path' = path /\ says' \in [DOMAIN Strategies -> Verdicts]
  <2>1. UNCHANGED <<table, pc, cur, first, dp, loc, out>> /\ reports' = reports
    BY <1>6 DEF path, reports
  <2>2. RepeatsPlace'
    BY <2>1 DEF RepeatsInv, RepeatsPlace, T
  <2> QED
    BY <1>6, <2>1, <2>2, OthersRepeat
<1>7. ASSUME NEW c \in Flows, (\E p \in Parts[c] : Send(c, p)) \/ (\E p \in Others[c] : SendOther(c, p)) \/ Reply(c)
      PROVE  \E p : p \in Captured(c) /\ Capture(p) /\ says' = says
  BY <1>7, DatagramAssumption, AnswerCaptured DEF Send, SendOther, Reply, world
<1>8. Engine => (Works \/ NextHeld \/ ReplayOver) /\ says' = says
  BY DEF Engine, Works, world
<1>9. Transmit \/ Lose => Finish /\ says' = says
  BY DEF Transmit, Lose, world
<1>10. Edit => path' = path /\ says' \in [DOMAIN Strategies -> Verdicts]
  <2>1. ASSUME NEW e \in Edits PROVE [says EXCEPT ![e[1]] = e[2]] \in [DOMAIN Strategies -> Verdicts]
    <3>1. e[2] \in Verdicts /\ says \in [DOMAIN Strategies -> Verdicts]
      BY DatagramAssumption DEF RepeatsInv
    <3> QED
      BY <3>1
  <2> QED
    BY <2>1 DEF Edit
<1>11. Tick \/ vars' = vars => path' = path /\ says' \in [DOMAIN Strategies -> Verdicts]
  BY DEF Tick, vars, world, RepeatsInv
<1> QED
  BY <1>1, <1>2, <1>3, <1>4, <1>5, <1>6, <1>7, <1>8, <1>9, <1>10, <1>11 DEF Next

LEMMA RepeatsInvInit == Init => RepeatsInv
<1> SUFFICES ASSUME Init PROVE RepeatsInv
  OBVIOUS
<1>1. says \in [DOMAIN Strategies -> Verdicts]
  BY DatagramAssumption DEF Init
<1>2. /\ repeats = [c \in Flows |-> 0] /\ reported = [c \in Flows |-> <<>>] /\ table = <<>> /\ pc = "idle"
  BY DEF Init
<1>3. \A c \in Flows : Earned(c)
  <2>1. \A c \in Flows : reported[c] = <<>>
    BY <1>2
  <2> QED
    BY <2>1 DEF Earned
<1>4. DOMAIN table = {}
  BY <1>2
<1> QED
  BY <1>1, <1>2, <1>3, <1>4 DEF RepeatsInv, RepeatsPlace

\* A flow is reported at most once while it is tracked, by an automatic profile
\* and after as many repetitions as that profile waits for, each at a time when
\* its lists neither had nor excluded the host (auto_hostlist_retrans, dp_match).
THEOREM ReportsEarned == Spec => []ReportsAreEarned
<1>1. PathInv /\ RepeatsInv /\ [Next]_vars => RepeatsInv'
  BY RepeatsInvNext
<1>2. RepeatsInv => ReportsAreEarned
  BY DEF RepeatsInv, ReportsAreEarned, Earned
<1> QED
  BY PathIsKept, RepeatsInvInit, <1>1, <1>2, PTL DEF Spec

-----------------------------------------------------------------------------
\* The refinement: each step does what PacketPath allows.
LEMMA Departs ==
  ASSUME AtHand = <<cur>>, AtHand' = <<>>, Sends(out)' = Append(Sends(out) \o Holding[cur.conn], cur),
         Holding' = [Holding EXCEPT ![cur.conn] = <<>>]
  PROVE  Path!Next
<1>1. AtHand[1] = cur /\ AtHand # <<>>
  OBVIOUS
<1>2. Path!Depart
  BY <1>1 DEF Path!Depart
<1> QED
  BY <1>2 DEF Path!Next

LEMMA Overtakes ==
  ASSUME AtHand = <<cur>>, AtHand' = <<>>, cur.dir = "reply" \/ cur.len = 0, Sends(out)' = Append(Sends(out), cur),
         Holding' = Holding
  PROVE  Path!Next
<1>1. AtHand[1] = cur /\ AtHand # <<>>
  OBVIOUS
<1>2. Path!Overtake
  BY <1>1 DEF Path!Overtake
<1> QED
  BY <1>2 DEF Path!Next

LEMMA IsHeld ==
  ASSUME AtHand = <<cur>>, AtHand' = <<>>, Sends(out)' = Sends(out),
         Holding' = [Holding EXCEPT ![cur.conn] = Append(@, cur)]
  PROVE  Path!Next
<1>1. AtHand[1] = cur /\ AtHand # <<>>
  OBVIOUS
<1>2. Path!Hold
  BY <1>1 DEF Path!Hold
<1> QED
  BY <1>2 DEF Path!Next

LEMMA ReleasesOne ==
  ASSUME NEW c \in Flows, NEW p \in Datagram, NEW q \in Seq(Datagram), Holding[c] = <<p>> \o q,
         AtHand' = AtHand, Sends(out)' = Append(Sends(out), p), Sends(out) \in Seq(Datagram),
         Holding' = [Holding EXCEPT ![c] = q]
  PROVE  Path!Next
<1> DEFINE s == <<p>> \o q
<1>1. /\ s \in Seq(Datagram) /\ Len(s) = Len(q) + 1 /\ SubSeq(s, 1, 1) = <<p>>
      /\ SubSeq(s, 2, Len(s)) = q
  <2>1. <<p>> \in Seq(Datagram) /\ Len(<<p>>) = 1 /\ Len(q) \in Nat
    OBVIOUS
  <2>2. s \in Seq(Datagram) /\ Len(s) = Len(q) + 1
    BY <2>1
  <2>3. s[1] = p /\ \A i \in 1..Len(q) : s[i + 1] = q[i]
    BY <2>1
  <2> HIDE DEF s
  <2>4. SubSeq(s, 1, 1) = <<p>>
    <3>1. SubSeq(s, 1, 1) \in Seq(Datagram) /\ Len(SubSeq(s, 1, 1)) = 1 /\ SubSeq(s, 1, 1)[1] = s[1]
      BY <2>1, <2>2
    <3>2. \A i \in 1..Len(SubSeq(s, 1, 1)) : SubSeq(s, 1, 1)[i] = <<p>>[i]
      BY <2>3, <3>1
    <3> QED
      BY <2>1, <3>1, <3>2, SeqEqual
  <2>5. /\ SubSeq(s, 2, Len(s)) \in Seq(Datagram) /\ Len(SubSeq(s, 2, Len(s))) = Len(q)
        /\ \A i \in 1..Len(q) : SubSeq(s, 2, Len(s))[i] = s[i + 1]
    BY <2>1, <2>2
  <2>6. \A i \in 1..Len(SubSeq(s, 2, Len(s))) : SubSeq(s, 2, Len(s))[i] = q[i]
    BY <2>3, <2>5
  <2>7. SubSeq(s, 2, Len(s)) = q
    BY <2>5, <2>6, SeqEqual
  <2> QED
    BY <2>2, <2>4, <2>7
<1> HIDE DEF s
<1>2. Append(Sends(out), p) = Sends(out) \o <<p>>
  BY AppendIsConcat
<1>3. Path!Release(c, 1)
  <2>1. SubSeq(Holding[c], 1, 1) = <<p>> /\ SubSeq(Holding[c], 1 + 1, Len(Holding[c])) = q
    BY <1>1 DEF s
  <2>2. Sends(out)' = Sends(out) \o SubSeq(Holding[c], 1, 1)
    BY <1>2, <2>1
  <2>3. Holding' = [Holding EXCEPT ![c] = SubSeq(Holding[c], 1 + 1, Len(Holding[c]))]
    BY <2>1
  <2> QED
    BY <2>2, <2>3, Zenon DEF Path!Release
<1>4. 1 \in 1..Len(Holding[c])
  BY <1>1 DEF s
<1> QED
  BY <1>3, <1>4 DEF Path!Next

LEMMA ReleasesAll ==
  ASSUME NEW c \in Flows, Holding[c] \in Seq(Datagram), Holding[c] # <<>>,
         AtHand' = AtHand, Sends(out)' = Sends(out) \o Holding[c],
         Holding' = [Holding EXCEPT ![c] = <<>>]
  PROVE  Path!Next
<1> DEFINE s == Holding[c]
<1>1. /\ Len(s) \in 1..Len(s) /\ SubSeq(s, 1, Len(s)) = s /\ SubSeq(s, Len(s) + 1, Len(s)) = <<>>
  <2> HIDE DEF s
  <2>1. s \in Seq(Datagram) /\ s # <<>>
    BY DEF s
  <2>2. Len(s) \in Nat \ {0}
    BY <2>1, EmptySeq
  <2> QED
    BY <2>1, <2>2, SubSeqFull, SubSeqEmpty
<1>2. Path!Release(c, Len(s))
  BY <1>1 DEF Path!Release
<1> QED
  BY <1>1, <1>2 DEF Path!Next

\* What the mapping makes of a step on one datagram.
LEMMA WorksMapped ==
  ASSUME PathInv, Works, StepShape
  PROVE  /\ cur.conn \in Flows /\ cur \in Datagram /\ T.delayed \in Seq(Datagram) /\ N.delayed \in Seq(Datagram)
         /\ out \in Seq(Out) /\ Sends(out) \in Seq(Datagram) /\ cur' = cur
         /\ Real => /\ Holding[cur.conn] = T.delayed /\ Holding' = [Holding EXCEPT ![cur.conn] = N.delayed]
                    /\ AtHand = <<cur>> /\ AtHand' = IF pc' \in {"replay", "done"} THEN <<>> ELSE <<cur>>
         /\ replay => /\ Holding[cur.conn] = <<cur>> \o T.delayed /\ AtHand = <<>> /\ AtHand' = <<>>
                      /\ Holding' = IF pc' = "replay" THEN [Holding EXCEPT ![cur.conn] = N.delayed] ELSE Holding
<1> DEFINE c == cur.conn
<1>1. /\ Stays /\ pc \in {"find", "payload", "discover", "check", "act"} /\ TypeInv /\ PlaceInv
      /\ replay \in BOOLEAN /\ out \in Seq(Out)
  BY StepShaped DEF PathInv, TypeInv
<1>2. c \in DOMAIN table /\ c \in Flows /\ cur \in Datagram /\ IsEntry(c, T)
  BY <1>1 DEF TypeInv, Tracked, T
<1>3. Only(table') /\ IsEntry(c, N) /\ (replay => N.delayed = T.delayed)
  BY DEF StepShape, SendsAsIs, GoesOn, GivesUp, ClosesAndGoesOn, HoldsIt, Acts, Quiet, Shut, N, Real
<1>4. T.delayed \in Seq(Datagram) /\ N.delayed \in Seq(Datagram)
  <2>1. Captured(c) \subseteq Datagram
    BY DEF Captured
  <2> QED
    BY <1>2, <1>3, <2>1, SeqMonotonic DEF IsEntry
<1>5. cur' = cur /\ replay' = replay
  BY <1>1 DEF Stays
<1>6. pc' \notin {"idle", "find"} /\ (Real => pc' # "idle") /\ (replay => pc' # "done")
  BY <1>1 DEF StepShape, SendsAsIs, SendOrig, GoesOn, GivesUp, ClosesAndGoesOn, HoldsIt, Acts, After, Real
<1>7. table'[c] = N /\ DOMAIN table' = DOMAIN table /\ \A d \in DOMAIN table : d # c => table'[d] = table[d]
  BY <1>3 DEF Only, N
<1>8. ASSUME Real
      PROVE  /\ Holding[c] = T.delayed /\ Holding' = [Holding EXCEPT ![c] = N.delayed]
             /\ AtHand = <<cur>> /\ AtHand' = IF pc' \in {"replay", "done"} THEN <<>> ELSE <<cur>>
  <2>1. AtHand = <<cur>> /\ AtHand' = IF pc' \in {"replay", "done"} THEN <<>> ELSE <<cur>>
    BY <1>1, <1>5, <1>6, <1>8 DEF AtHand, Real
  <2>2. Holding = [d \in Flows |-> IF d \notin DOMAIN table THEN <<>> ELSE table[d].delayed]
    BY <1>8 DEF Holding, InReplay, Real
  <2>3. Holding' = [d \in Flows |-> IF d \notin DOMAIN table' THEN <<>> ELSE table'[d].delayed]
    BY <1>5, <1>8 DEF Holding, InReplay, Real
  <2> QED
    BY <1>2, <1>7, <2>1, <2>2, <2>3 DEF T
<1>9. ASSUME replay
      PROVE  /\ Holding[c] = <<cur>> \o T.delayed /\ AtHand = <<>> /\ AtHand' = <<>>
             /\ Holding' = IF pc' = "replay" THEN [Holding EXCEPT ![c] = N.delayed] ELSE Holding
  <2>1. AtHand = <<>> /\ AtHand' = <<>>
    BY <1>5, <1>9 DEF AtHand
  <2>2. Holding = [d \in Flows |-> IF d \notin DOMAIN table THEN <<>>
                                  ELSE IF d = c THEN <<cur>> \o table[d].delayed ELSE table[d].delayed]
    BY <1>1, <1>9 DEF Holding, InReplay
  <2>3. CASE pc' = "replay"
    <3>1. Holding' = [d \in Flows |-> IF d \notin DOMAIN table' THEN <<>> ELSE table'[d].delayed]
      BY <2>3 DEF Holding, InReplay
    <3> QED
      BY <1>2, <1>7, <2>1, <2>2, <2>3, <3>1 DEF T
  <2>4. CASE pc' # "replay"
    <3>1. Holding' = [d \in Flows |-> IF d \notin DOMAIN table' THEN <<>>
                                     ELSE IF d = c THEN <<cur>> \o table'[d].delayed ELSE table'[d].delayed]
      BY <1>5, <1>6, <1>9, <2>4 DEF Holding, InReplay
    <3>2. table'[c].delayed = table[c].delayed
      BY <1>3, <1>7, <1>9 DEF T
    <3> QED
      BY <1>2, <1>7, <2>1, <2>2, <2>4, <3>1, <3>2 DEF T
  <2> QED
    BY <2>3, <2>4
<1> QED
  BY <1>1, <1>2, <1>4, <1>5, <1>8, <1>9, SendsFacts

LEMMA WorksImplements ==
  ASSUME PathInv, Works PROVE [Path!Next]_(Path!pathVars)
<1> DEFINE c == cur.conn
           S == Sends(out)
<1>1. StepShape
  BY StepShaped
<1>2. /\ c \in Flows /\ cur \in Datagram /\ T.delayed \in Seq(Datagram) /\ N.delayed \in Seq(Datagram)
      /\ out \in Seq(Out) /\ S \in Seq(Datagram) /\ cur' = cur /\ Sends(out)' = Sends(out')
      /\ replay \in BOOLEAN
  BY <1>1, WorksMapped DEF Sends, Leaving, PathInv, TypeInv
<1>3. Real => /\ Holding[c] = T.delayed /\ Holding' = [Holding EXCEPT ![c] = N.delayed]
              /\ AtHand = <<cur>> /\ AtHand' = IF pc' \in {"replay", "done"} THEN <<>> ELSE <<cur>>
  BY <1>1, WorksMapped
<1>4. replay => /\ Holding[c] = <<cur>> \o T.delayed /\ AtHand = <<>> /\ AtHand' = <<>>
                /\ Holding' = IF pc' = "replay" THEN [Holding EXCEPT ![c] = N.delayed] ELSE Holding
  BY <1>1, WorksMapped
<1>5. /\ \A how \in {"orig", "changed", "fake"} : As(cur, how) \in Out
      /\ \A how \in {"orig", "changed"} : Leaving(As(cur, how)) = <<cur>>
      /\ Leaving(As(cur, "fake")) = <<>>
  BY <1>2 DEF As, Out, Leaving
<1>6. ASSUME NEW q \in Seq(Out), NEW how \in {"orig", "changed"} PROVE Sends(Append(q, As(cur, how))) = Append(Sends(q), cur)
  <2>1. Sends(Append(q, As(cur, how))) = Sends(q) \o <<cur>> /\ Sends(q) \in Seq(Datagram)
    BY <1>5, SendsFacts
  <2> QED
    BY <1>2, <2>1, AppendIsConcat
<1>7. Holding = [Holding EXCEPT ![c] = Holding[c]]
  BY DEF Holding
<1>8. ASSUME NEW how \in {"orig", "changed"}, Quiet(table'), pc' = After, Real => Open \/ cur.dir = "reply" \/ cur.len = 0,
             Sends(out)' = Append(S, cur)
      PROVE  Path!Next
  <2>1. N.delayed = T.delayed
    BY <1>8 DEF Quiet, N
  <2>2. CASE replay
    BY <1>2, <1>4, <1>8, <2>1, <2>2, ReleasesOne DEF After
  <2>3. CASE Real /\ Open
    <3>1. S \o Holding[c] = S /\ Holding' = [Holding EXCEPT ![c] = <<>>] /\ AtHand = <<cur>> /\ AtHand' = <<>>
      BY <1>2, <1>3, <1>8, <2>1, <2>3, ConcatEmptySeq DEF Open, After, Real
    <3> QED
      BY <1>8, <3>1, Departs
  <2>4. CASE Real /\ (cur.dir = "reply" \/ cur.len = 0)
    <3>1. Holding' = Holding /\ AtHand = <<cur>> /\ AtHand' = <<>>
      BY <1>3, <1>7, <1>8, <2>1, <2>4 DEF After, Real
    <3> QED
      BY <1>8, <2>4, <3>1, Overtakes
  <2> QED
    BY <1>2, <1>8, <2>2, <2>3, <2>4 DEF Real
<1>9. CASE SendsAsIs /\ (Real => Open \/ ((cur.dir = "reply" \/ cur.len = 0) /\ N.dp # 0))
  BY <1>2, <1>6, <1>8, <1>9 DEF SendsAsIs, SendOrig
<1>10. CASE Acts /\ (Real => Open)
  <2>1. PICK how \in {"orig", "changed"} : \/ out' = Append(out, As(cur, how))
                                         \/ out' = Append(Append(out, As(cur, "fake")), As(cur, how))
    BY <1>10 DEF Acts
  <2>2. Append(out, As(cur, "fake")) \in Seq(Out) /\ Sends(Append(out, As(cur, "fake"))) = S
    <3>1. Sends(Append(out, As(cur, "fake"))) = S \o <<>>
      BY <1>2, <1>5, SendsFacts
    <3> QED
      BY <1>2, <1>5, <3>1, ConcatEmptySeq
  <2>3. Sends(out)' = Append(S, cur)
    BY <1>2, <1>6, <2>1, <2>2
  <2> QED
    BY <1>8, <1>10, <2>3 DEF Acts
<1>11. CASE GoesOn /\ pc' \in {"payload", "discover", "check", "act"}
  <2>1. N.delayed = T.delayed /\ Sends(out)' = S
    BY <1>2, <1>11 DEF GoesOn, Quiet, N
  <2>2. Holding' = Holding /\ AtHand' = AtHand
    BY <1>2, <1>3, <1>4, <1>7, <1>11, <2>1 DEF Real
  <2> QED
    BY <2>1, <2>2 DEF Path!pathVars
<1>12. CASE GivesUp
  <2>1. CASE replay
    <3>1. out \o AllOrig(Held) = out
      <4>1. AllOrig(Held) = <<>>
        BY <2>1 DEF AllOrig, Held
      <4> QED
        BY <1>2, <4>1, ConcatEmptySeq
    <3>2. Sends(out)' = Append(S, cur) /\ N.delayed = T.delayed /\ pc' = "replay"
      BY <1>2, <1>6, <1>12, <2>1, <3>1 DEF GivesUp, Shut, N, After
    <3> QED
      BY <1>2, <1>4, <2>1, <3>2, ReleasesOne
  <2>2. CASE Real
    <3>1. out \o AllOrig(T.delayed) \in Seq(Out) /\ Sends(out \o AllOrig(T.delayed)) = S \o T.delayed
      <4>1. AllOrig(T.delayed) \in Seq(Out)
        BY <1>2, AllOrigTyped
      <4>2. out \o AllOrig(T.delayed) \in Seq(Out)
        BY <1>2, <4>1, ConcatProperties
      <4>3. Sends(out \o AllOrig(T.delayed)) = S \o T.delayed
        BY <1>2, SendsAll
      <4> QED
        BY <4>2, <4>3
    <3>2. out' = Append(out \o AllOrig(T.delayed), As(cur, "orig")) /\ N.delayed = <<>> /\ pc' = "done"
      BY <1>12, <2>2 DEF GivesUp, Shut, N, After, Held, Real
    <3>3. Sends(out)' = Append(S \o T.delayed, cur)
      BY <1>2, <1>6, <3>1, <3>2
    <3> QED
      BY <1>3, <2>2, <3>2, <3>3, Departs
  <2> QED
    BY <1>2, <2>1, <2>2 DEF Real
<1>13. CASE ClosesAndGoesOn
  <2>1. CASE replay
    <3>1. out \o AllOrig(Held) = out
      <4>1. AllOrig(Held) = <<>>
        BY <2>1 DEF AllOrig, Held
      <4> QED
        BY <1>2, <4>1, ConcatEmptySeq
    <3>2. Sends(out)' = S /\ Holding' = Holding /\ AtHand' = AtHand
      BY <1>2, <1>4, <1>13, <2>1, <3>1 DEF ClosesAndGoesOn
    <3> QED
      BY <3>2 DEF Path!pathVars
  <2>2. CASE Real
    <3>1. out' = out \o AllOrig(T.delayed) /\ N.delayed = <<>> /\ pc' = "discover"
      BY <1>13, <2>2 DEF ClosesAndGoesOn, Shut, N, Held, Real
    <3>2. Sends(out)' = S \o T.delayed
      BY <1>2, <3>1, SendsAll
    <3>3. Holding[c] = T.delayed /\ Holding' = [Holding EXCEPT ![c] = <<>>] /\ AtHand' = AtHand
      BY <1>3, <2>2, <3>1
    <3>4. CASE T.delayed = <<>>
      <4>1. Sends(out)' = S
        BY <1>2, <3>2, <3>4, ConcatEmptySeq
      <4>2. Holding' = Holding
        BY <1>7, <3>3, <3>4
      <4> QED
        BY <3>3, <4>1, <4>2 DEF Path!pathVars
    <3>5. CASE T.delayed # <<>>
      BY <1>2, <3>2, <3>3, <3>5, ReleasesAll
    <3> QED
      BY <3>4, <3>5
  <2> QED
    BY <1>2, <2>1, <2>2 DEF Real
<1>14. CASE HoldsIt
  <2>1. Real /\ Sends(out)' = S /\ N.delayed = Append(T.delayed, cur) /\ pc' \in {"replay", "done"}
    BY <1>2, <1>14 DEF HoldsIt
  <2> QED
    BY <1>3, <2>1, IsHeld
<1> QED
  BY <1>1, <1>9, <1>10, <1>11, <1>12, <1>13, <1>14 DEF StepShape

LEMMA CaptureImplements ==
  ASSUME PathInv, NEW c \in Flows, NEW p \in Captured(c), Capture(p) PROVE Path!Next
<1> DEFINE P == UdpPurged
           forgotten == Flows \ DOMAIN P
<1>1. TypeInv /\ PlaceInv
  BY DEF PathInv
<1>2. p \in Datagram /\ p.conn = c
  BY DEF Captured
<1>3. pc = "idle" /\ cur' = p /\ replay' = FALSE /\ out' = <<>> /\ table' = UdpFed(P, p) /\ pc' = "find"
  BY DEF Capture
<1>4. /\ DOMAIN table' = DOMAIN P \cup {c} /\ \A d \in DOMAIN P : Like(table[d], table'[d])
      /\ c \notin DOMAIN P => table'[c].delayed = <<>>
  BY <1>1, <1>2, <1>3, FedFacts
<1>5. DOMAIN P \subseteq DOMAIN table
  BY PurgedFacts
<1> HIDE DEF P
<1>6. Holding = [d \in Flows |-> IF d \notin DOMAIN table THEN <<>> ELSE table[d].delayed]
  BY <1>3 DEF Holding, InReplay
<1>7. Holding' = [d \in Flows |-> IF d \notin DOMAIN table' THEN <<>> ELSE table'[d].delayed]
  BY <1>3 DEF Holding, InReplay
<1>8. Holding' = [d \in Flows |-> IF d \in forgotten THEN <<>> ELSE Holding[d]]
  <2>1. ASSUME NEW d \in Flows
        PROVE  (IF d \notin DOMAIN table' THEN <<>> ELSE table'[d].delayed)
               = IF d \in forgotten THEN <<>> ELSE Holding[d]
    BY <1>4, <1>5, <1>6 DEF Like
  <2> QED
    BY <1>7, <2>1
<1>9. AtHand = <<>> /\ AtHand' = <<p>>
  BY <1>3 DEF AtHand
<1>10. Sends(out)' = <<>>
  BY <1>3, SendsFacts DEF Sends, Leaving
<1>11. Len(AtHand') = 1 /\ AtHand'[1] \in Datagram
  BY <1>2, <1>9
<1>12. Path!Arrive(forgotten)
  <2> HIDE DEF forgotten
  <2> QED
    BY <1>8, <1>9, <1>10, <1>11 DEF Path!Arrive
<1> QED
  BY <1>12 DEF Path!Next

LEMMA NextHeldImplements ==
  ASSUME PathInv, NextHeld PROVE [Path!Next]_(Path!pathVars)
<1> DEFINE c == cur.conn
           p == Head(T.delayed)
           q == Tail(T.delayed)
<1>1. TypeInv /\ PlaceInv
  BY DEF PathInv
<1>2. /\ pc = "replay" /\ T.delayed # <<>> /\ cur' = p /\ replay' = TRUE
      /\ table' = [table EXCEPT ![c].delayed = Tail(@)]
      /\ \/ T.dp = 0 /\ out' = Append(out, As(p, "orig")) /\ pc' = "replay"
         \/ pc' = "payload" /\ out' = out
  BY DEF NextHeld
<1>3. /\ c \in DOMAIN table /\ c \in Flows /\ T.delayed \in Seq(Captured(c)) /\ out \in Seq(Out)
  BY <1>1, <1>2 DEF TypeInv, Tracked, IsEntry, T
<1>4. p \in Datagram /\ p.conn = c /\ q \in Seq(Datagram) /\ T.delayed = <<p>> \o q
  <2>1. Captured(c) \subseteq Datagram /\ T.delayed \in Seq(Datagram)
    BY <1>3, SeqMonotonic DEF Captured
  <2>2. p \in Captured(c)
    BY <1>2, <1>3
  <2> QED
    BY <1>2, <2>1, <2>2, HeadTailProperties, HeadTailFacts DEF Captured
<1>5. DOMAIN table' = DOMAIN table /\ table'[c].delayed = q /\ \A d \in DOMAIN table : d # c => table'[d] = table[d]
  <2>1. "delayed" \in DOMAIN table[c]
    BY <1>1, <1>3 DEF TypeInv, IsEntry
  <2> QED
    BY <1>2, <1>3, <2>1 DEF T
<1> HIDE DEF p, q
<1>6. Holding = [d \in Flows |-> IF d \notin DOMAIN table THEN <<>> ELSE table[d].delayed]
  BY <1>2 DEF Holding, InReplay
<1>7. Holding[c] = <<p>> \o q
  BY <1>3, <1>4, <1>6 DEF T
<1>8. AtHand = <<>> /\ AtHand' = <<>>
  BY <1>2 DEF AtHand
<1>9. Sends(out) \in Seq(Datagram) /\ Sends(out)' = Sends(out')
  BY <1>3, SendsFacts DEF Sends, Leaving
<1>10. CASE out' = Append(out, As(p, "orig")) /\ pc' = "replay"
  <2>1. Holding' = [d \in Flows |-> IF d \notin DOMAIN table' THEN <<>> ELSE table'[d].delayed]
    BY <1>10 DEF Holding, InReplay
  <2>2. Holding' = [Holding EXCEPT ![c] = q]
    BY <1>3, <1>5, <1>6, <2>1
  <2>3. As(p, "orig") \in Out /\ Leaving(As(p, "orig")) = <<p>>
    BY <1>4 DEF As, Out, Leaving
  <2>4. Sends(out)' = Append(Sends(out), p)
    <3>1. Sends(out') = Sends(out) \o <<p>>
      BY <1>3, <1>10, <2>3, SendsFacts
    <3> QED
      BY <1>4, <1>9, <3>1, AppendIsConcat
  <2> QED
    BY <1>3, <1>4, <1>7, <1>8, <1>9, <2>2, <2>4, ReleasesOne
<1>11. CASE pc' = "payload" /\ out' = out
  <2>1. Holding' = [d \in Flows |-> IF d \notin DOMAIN table' THEN <<>>
                                   ELSE IF d = c THEN <<p>> \o table'[d].delayed ELSE table'[d].delayed]
    BY <1>2, <1>4, <1>11 DEF Holding, InReplay
  <2>2. Holding' = Holding
    BY <1>3, <1>4, <1>5, <1>6, <2>1 DEF T
  <2> QED
    BY <1>8, <1>9, <1>11, <2>2 DEF Path!pathVars
<1> QED
  BY <1>2, <1>10, <1>11

LEMMA ReplayOverImplements ==
  ASSUME PathInv, ReplayOver PROVE UNCHANGED Path!pathVars
<1> DEFINE c == cur.conn
<1>1. /\ pc = "replay" /\ T.delayed = <<>> /\ cur' = cur /\ replay' = FALSE
      /\ table' = [table EXCEPT ![c].reasm = NoReasm] /\ pc' = "done" /\ out' = out
  BY DEF ReplayOver
<1>2. DOMAIN table' = DOMAIN table /\ \A d \in DOMAIN table : table'[d].delayed = table[d].delayed
  BY <1>1
<1>3. Holding' = Holding
  BY <1>1, <1>2 DEF Holding, InReplay
<1>4. AtHand' = AtHand /\ Sends(out)' = Sends(out)
  BY <1>1 DEF AtHand, Sends, Leaving
<1> QED
  BY <1>3, <1>4 DEF Path!pathVars

LEMMA FinishImplements ==
  ASSUME PathInv, Finish PROVE Path!Next
<1>1. /\ pc = "done" /\ pc' = "idle" /\ out' = <<>> /\ table' = table /\ replay' = replay
  BY DEF Finish
<1>2. Holding' = Holding
  BY <1>1 DEF Holding, InReplay
<1>3. AtHand = <<>> /\ AtHand' = <<>>
  BY <1>1 DEF AtHand
<1>4. Sends(out)' = <<>>
  BY <1>1, SendsFacts DEF Sends, Leaving
<1> QED
  BY <1>2, <1>3, <1>4 DEF Path!Next, Path!Flush

\* Every step of the engine does what PacketPath allows: each captured datagram
\* leaves once or is held, and the held ones leave in order and before later
\* ones.
THEOREM DatagramsAreKept == Spec => KeepsDatagrams
<1>1. Init => Path!Init
  <2>1. ASSUME Init PROVE Path!Init
    <3>1. DOMAIN table = {} /\ pc = "idle" /\ out = <<>>
      BY <2>1 DEF Init
    <3>2. Holding = [c \in Flows |-> <<>>]
      BY <3>1 DEF Holding
    <3> QED
      BY <3>1, <3>2, SendsFacts DEF Path!Init, AtHand
  <2> QED
    BY <2>1
<1>2. PathInv /\ [Next]_vars => [Path!Next]_(Path!pathVars)
  <2> SUFFICES ASSUME PathInv, [Next]_vars PROVE [Path!Next]_(Path!pathVars)
    OBVIOUS
  <2>1. CASE \E c \in Flows : \E p : p \in Captured(c) /\ Capture(p)
    BY <2>1, CaptureImplements
  <2>2. CASE Works
    BY <2>2, WorksImplements
  <2>3. CASE NextHeld
    BY <2>3, NextHeldImplements
  <2>4. CASE ReplayOver
    BY <2>4, ReplayOverImplements
  <2>5. CASE Finish
    BY <2>5, FinishImplements
  <2>6. CASE UNCHANGED path
    BY <2>6 DEF path, Path!pathVars, Holding, InReplay, AtHand, Sends, Leaving
  <2>7. ASSUME NEW c \in Flows, (\E p \in Parts[c] : Send(c, p)) \/ (\E p \in Others[c] : SendOther(c, p)) \/ Reply(c)
        PROVE  \E p : p \in Captured(c) /\ Capture(p)
    BY <2>7, DatagramAssumption, AnswerCaptured DEF Send, SendOther, Reply
  <2>8. Engine => Works \/ NextHeld \/ ReplayOver
    BY DEF Engine, Works
  <2>9. Transmit \/ Lose => Finish
    BY DEF Transmit, Lose
  <2> QED
    BY <2>1, <2>2, <2>3, <2>4, <2>5, <2>6, <2>7, <2>8, <2>9 DEF Next, Tick, Edit, vars
<1> QED
  BY PathIsKept, <1>1, <1>2, PTL DEF Spec, KeepsDatagrams, Path!Spec
=============================================================================
