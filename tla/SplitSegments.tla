--------------------------- MODULE SplitSegments ---------------------------
(***************************************************************************)
(* What the engine sends in place of a TCP packet (the desync modes of     *)
(* desync.c): where the payload is cut, which fakes go before and between  *)
(* the parts, which bytes of junk ("seqovl") precede a part, and the ip_id *)
(* of each generated packet.                                               *)
(*                                                                         *)
(* A request r is [l7, len, method, host, labels, sniext]: offsets of what *)
(* markers refer to, Nowhere if absent, and the lengths of the labels of   *)
(* the host name. A packet k is [off, len, id]: the part of the request    *)
(* it carries and its own ip_id. A generated piece is                      *)
(* [kind, at, len, junk, id], at relative to the packet. What makes a fake *)
(* die before the server (TTL, wrong checksum or sequence number...) and   *)
(* the content of the fakes are left out: a fake is not a "real" piece.    *)
(***************************************************************************)
EXTENDS Integers, Sequences, FiniteSets, SequencesExt, FiniteSetsExt

CONSTANTS IdSpace,   \* 2^16: ip_id wraps here, and 0 is not used
          MaxFake,   \* DPI_DESYNC_MAX_FAKE_LEN: the longest payload with fakes around it
          Margin     \* 100: what the buffers hold beyond MaxFake

Nowhere == -1

-----------------------------------------------------------------------------
\* Positions. A marker is [m, pos]; 0 stands for "not in the request".
CheckPos(size, offset) == IF offset >= 0 /\ offset < size THEN offset ELSE 0

HostLen(r) == FoldFunction(+, Len(r.labels) - 1, r.labels)
\* The second level domain needs a dot before the top level one.
SldStart(r) == r.host + HostLen([labels |-> SubSeq(r.labels, 1, Len(r.labels) - 2)])
                      + (IF Len(r.labels) > 2 THEN 1 ELSE 0)
Sld(r) == r.labels[Len(r.labels) - 1]
HasSld(r) == Len(r.labels) >= 2 /\ r.host + HostLen(r) <= r.len
Anchor(r, m) ==
  CASE m = "method" -> IF r.l7 = "http" THEN r.method ELSE Nowhere
    [] m = "sniext" -> IF r.l7 = "tls" THEN r.sniext ELSE Nowhere
    [] r.l7 = "unknown" \/ r.host = Nowhere -> Nowhere
    [] m = "host" -> r.host
    [] m = "endhost" -> r.host + HostLen(r)
    [] ~HasSld(r) -> Nowhere
    [] m = "sld" -> SldStart(r)
    [] m = "midsld" -> SldStart(r) + (IF Sld(r) = 1 THEN 1 ELSE Sld(r) \div 2)
    [] m = "endsld" -> SldStart(r) + Sld(r)
ResolvePos(r, mk) ==
  IF mk.m = "abs" THEN CheckPos(r.len, IF mk.pos < 0 THEN r.len + mk.pos ELSE mk.pos)
  ELSE IF Anchor(r, mk.m) = Nowhere THEN 0
  ELSE CheckPos(r.len, Anchor(r, mk.m) + mk.pos)

\* pos_normalize: from a place in the request to one inside the packet, or 0.
PosNormalize(pos, k) == IF pos > k.off /\ pos - k.off < k.len THEN pos - k.off ELSE 0

\* multisplit, multidisorder: every marker that resolves, in order.
ResolveMultiPos(r, markers) ==
  {ResolvePos(r, markers[i]) : i \in DOMAIN markers} \ {0}
MultiPos(r, k, markers) ==
  SetToSortSeq({PosNormalize(p, k) : p \in ResolveMultiPos(r, markers)} \ {0}, <)

\* fakedsplit, fakeddisorder: the first marker that is not absolute and
\* resolves, else the first absolute one, else 1.
FirstHit(places) ==
  LET hits == {i \in DOMAIN places : places[i] # 0}
  IN IF hits = {} THEN 0 ELSE places[Min(hits)]
FirstOf(r, markers) == FirstHit([i \in DOMAIN markers |-> ResolvePos(r, markers[i])])
RegularPos(r, k, markers) ==
  LET isAbs(mk) == mk.m = "abs"
      isRel(mk) == mk.m # "abs"
      pos == FirstHit(<<FirstOf(r, SelectSeq(markers, isRel)),
                        FirstOf(r, SelectSeq(markers, isAbs)), 1>>)
  IN PosNormalize(pos, k)

\* hostfakesplit: both ends of the host in this packet, and perhaps a place
\* strictly between them; <<>> otherwise.
HostEnds == <<[m |-> "host", pos |-> 0], [m |-> "endhost", pos |-> 0]>>
HostCuts(ends, inner) ==
  IF Len(ends) # 2 THEN <<>>
  ELSE IF inner > ends[1] /\ inner < ends[2] THEN Append(ends, inner) ELSE ends
HostPos(r, k, mid) ==
  HostCuts(MultiPos(r, k, HostEnds),
           IF ResolvePos(r, mid) = 0 THEN 0 ELSE PosNormalize(ResolvePos(r, mid), k))

Splits(d, modes) == d.mode \in modes \/ d.mode2 \in modes
Cuts(d, r, k) ==
  IF Splits(d, {"multisplit", "multidisorder"}) THEN MultiPos(r, k, d.splits)
  ELSE IF Splits(d, {"hostfakesplit"}) /\ ~Splits(d, {"fakedsplit", "fakeddisorder"})
       THEN HostPos(r, k, d.midhost) ELSE <<>>
SplitPos(d, r, k) ==
  IF ~Splits(d, {"multisplit", "multidisorder"}) /\ Splits(d, {"fakedsplit", "fakeddisorder"})
  THEN RegularPos(r, k, d.splits) ELSE 0

\* The junk: an absolute length before the first part, or a marker before a
\* later one.
Seqovl(d, r, k) ==
  IF Splits(d, {"fakedsplit", "multisplit"})
  THEN IF d.seqovl.m = "abs" /\ d.seqovl.pos > 0 THEN d.seqovl.pos ELSE 0
  ELSE IF Splits(d, {"fakeddisorder", "multidisorder"})
       THEN PosNormalize(ResolvePos(r, d.seqovl), k) ELSE 0

\* Where to cut packet k: w in the definitions below.
Where(d, r, k) == [cuts |-> Cuts(d, r, k), split |-> SplitPos(d, r, k), ovl |-> Seqovl(d, r, k)]

-----------------------------------------------------------------------------
\* ip_id. "same" keeps it, "zero" is 0, "seq" and "seqgroup" count and skip 0
\* when they land on it; "rnd" is left out.
IdAdd(id, inc, mode) ==
  LET sum == (id + inc) % IdSpace
  IN IF mode \in {"seq", "seqgroup"} /\ id # 0
     THEN IF sum # 0 THEN sum ELSE IF inc < 0 THEN IdSpace - 1 ELSE 1
     ELSE IF mode = "zero" THEN 0 ELSE id
IdNext(id, mode) == IdAdd(id, 1, mode)
IdPrev(id, mode) == IdAdd(id, -1, mode)
Nth(id, n, mode) == LET f[i \in 0..n] == IF i = 0 THEN id ELSE IdNext(f[i - 1], mode) IN f[n]
Back(id, n, mode) == LET f[i \in 0..n] == IF i = 0 THEN id ELSE IdPrev(f[i - 1], mode) IN f[n]
\* IP4_IP_ID_FIX, for a packet whose own ip_id is not zero.
IdFix(id, mode) == IF mode = "zero" THEN 0 ELSE id

Piece(kind, from, to, junk, id) ==
  [kind |-> kind, at |-> from, len |-> to - from, junk |-> junk, id |-> id]
Whole(k, id) == Piece("real", 0, k.len, 0, id)
\* A part put together in the buffer may not fit it: then the plan ends before
\* it. Only parts with junk go through the buffer.
Buffered(p) == IF p.len + p.junk <= MaxFake + Margin THEN p ELSE [p EXCEPT !.kind = "toolarge"]
Part(from, to, junk, id) ==
  LET p == Piece("real", from, to, junk, id) IN IF junk = 0 THEN p ELSE Buffered(p)

\* The first stage: fakes in front of the first packet of a request.
FirstStage(d, r, k, id) ==
  LET n == CASE d.mode = "fakeknown" /\ r.l7 = "unknown" -> 0
             [] d.mode \in {"fake", "fakeknown"} -> d.fakes
             [] d.mode \in {"rst", "rstack"} -> 1
             [] OTHER -> 0
  IN IF k.off > 0 THEN <<>>
     ELSE [i \in 1..n |-> Piece(IF d.mode \in {"rst", "rstack"} THEN "rst" ELSE "fake",
                                0, 0, 0, Nth(id, i - 1, d.idMode))]

\* multisplit: the parts in order, junk only before the first of a request.
\* Mutant: the loop ends at the last cut.
MultiSplitNoTail(d, k, w, id) ==
  LET b == <<0>> \o w.cuts
  IN [i \in 1..(Len(b) - 1) |-> Part(b[i], b[i + 1], 0, Nth(id, i - 1, d.idMode))]
MultiSplit(d, k, w, id) ==
  LET b == <<0>> \o w.cuts \o <<k.len>>
      junk(i) == IF i = 1 /\ k.off = 0 THEN w.ovl ELSE 0
  IN [i \in 1..(Len(b) - 1) |-> Part(b[i], b[i + 1], junk(i), Nth(id, i - 1, d.idMode))]

\* multidisorder: the parts from the last to the first, with ids that fall;
\* junk only before the second part, and only if it leaves a byte of the first:
\* then that part goes through the buffer, even if there is no junk.
\* Mutant: junk may cover the whole of the first part.
OverlapsAll(ovl, cut) == ovl <= cut
Overlaps(ovl, cut) == ovl < cut
MultiDisorder(d, k, w, id) ==
  LET b == <<0>> \o w.cuts \o <<k.len>>
      n == Len(b) - 1
      top == IdAdd(id, n - 1, d.idMode)
      part(j, g) == IF j = 2 /\ Overlaps(w.ovl, b[2])
                    THEN Buffered(Piece("real", b[2], b[3], w.ovl, g))
                    ELSE Piece("real", b[j], b[j + 1], 0, g)
  IN [i \in 1..n |-> part(n + 1 - i, Back(top, i - 1, d.idMode))]

\* fakedsplit and fakeddisorder: each part between two fakes of its size,
\* fewer with a higher order. In mode seqgroup these fakes carry the id of the
\* part they imitate.
Faked(first, second, order) ==
  LET fake(p, g) == [p EXCEPT !.kind = "fake", !.junk = 0, !.id = g]
      one(p, g, before, after) ==
        (IF before THEN <<fake(p, g)>> ELSE <<>>) \o <<[p EXCEPT !.id = g]>>
        \o (IF after THEN <<fake(p, g)>> ELSE <<>>)
  IN one(first, 0, order = 0, order <= 1)
     \o (IF second.len = 0 THEN <<>> ELSE one(second, 1, TRUE, order <= 2))
\* Mutant: the fakes around a part share its id in every mode.
WithIdsShared(plan, id, mode) ==
  [i \in DOMAIN plan |-> [plan[i] EXCEPT !.id = Nth(id, plan[i].id, mode)]]
WithIds(plan, id, mode) ==
  [i \in DOMAIN plan |-> [plan[i] EXCEPT !.id =
     Nth(id, IF mode = "seqgroup" THEN plan[i].id ELSE i - 1, mode)]]
Order(d, cut) == IF cut > 0 THEN d.order ELSE d.order0
FakedDisorder(d, k, w, id) ==
  LET cut == w.split
      junk == IF cut > 0 /\ Overlaps(w.ovl, cut) THEN w.ovl ELSE 0
      first == Part(cut, k.len, junk, 0)
  IN IF k.len > MaxFake \/ first.kind = "toolarge" THEN <<[first EXCEPT !.kind = "toolarge"]>>
     ELSE WithIds(Faked(first, Piece("real", 0, cut, 0, 0), Order(d, cut)), id, d.idMode)
FakedSplit(d, k, w, id) ==
  LET cut == IF w.split > 0 THEN w.split ELSE k.len
      junk == IF k.off > 0 \/ cut >= k.len THEN 0 ELSE w.ovl
      plan == Faked(Part(0, cut, junk, 0), Piece("real", cut, k.len, 0, 0),
                    Order(d, w.split))
  IN IF k.len > MaxFake THEN <<[plan[1] EXCEPT !.kind = "toolarge"]>>
     ELSE WithIds(plan, id, d.idMode)

\* hostfakesplit: what precedes the host, a fake host, the host in one or two
\* parts, the fake again, and the rest, which may go before the host.
HostFakeSplit(d, k, w, id) ==
  LET c == w.cuts
      mid == IF Len(c) = 3 THEN c[3] ELSE c[2]
      n == IF Len(c) = 3 THEN 2 ELSE 1      \* parts of the host
      g == IF d.idMode = "seqgroup" THEN 1 ELSE 2   \* steps before the host
      nth(i) == Nth(id, i, d.idMode)
      host == <<Piece("real", c[1], mid, 0, nth(g))>>
              \o (IF n = 2 THEN <<Piece("real", mid, c[2], 0, nth(g + 1))>> ELSE <<>>)
      fake(i) == Piece("fake", c[1], c[2], 0, nth(i))
      rest(i) == Piece("real", c[2], k.len, 0, nth(i))
  IN <<Piece("real", 0, c[1], 0, id), fake(1)>>
     \o (IF d.hostOrder = 1 THEN <<rest(g + n)>> \o host
         ELSE host \o <<fake(IF d.idMode = "seqgroup" THEN 1 ELSE g + n),
                        rest(IF d.idMode = "seqgroup" THEN g + n ELSE g + n + 1)>>)

\* ipfrag2: two IP fragments, both needed.
Fragments(k, id) == <<Piece("frag", 0, k.len, 1, id), Piece("frag", 0, k.len, 2, id)>>

-----------------------------------------------------------------------------
\* The second stage, by the mode that is in force, and whether it has
\* anything to cut in this packet.
Mode2(d) == IF d.mode2 = "none" THEN d.mode ELSE d.mode2
\* Modes whose label for a packet without a place to cut is unsplitted_part.
Cutting(d) == Mode2(d) \in {"multisplit", "multidisorder", "hostfakesplit", "ipfrag2"}
CanSplit(d, k, w) ==
  CASE Mode2(d) = "hostfakesplit" -> Len(w.cuts) >= 2
    [] Mode2(d) \in {"multisplit", "multidisorder"} -> w.cuts # <<>>
    [] Mode2(d) \in {"fakedsplit", "fakeddisorder"} -> TRUE
    [] Mode2(d) = "ipfrag2" -> k.off = 0
    [] OTHER -> FALSE
SecondStage(d, k, w, id) ==
  CASE Mode2(d) = "multisplit" -> MultiSplit(d, k, w, id)
    [] Mode2(d) = "multidisorder" -> MultiDisorder(d, k, w, id)
    [] Mode2(d) = "fakeddisorder" -> FakedDisorder(d, k, w, id)
    [] Mode2(d) = "fakedsplit" -> FakedSplit(d, k, w, id)
    [] Mode2(d) = "hostfakesplit" -> HostFakeSplit(d, k, w, id)
    [] Mode2(d) = "ipfrag2" -> Fragments(k, id)

\* hopbyhop, destopt, ipfrag1: on IPv6 the packet is sent with an extension
\* header when the second stage would not split it; this ends the handling.
ExtHeader(d) == d.mode \in {"hopbyhop", "destopt", "ipfrag1"}
NoSecond(d, w) ==
  \/ d.mode2 \notin {"multisplit", "multidisorder", "fakedsplit", "fakeddisorder",
                     "hostfakesplit", "ipfrag2"}
  \/ d.mode2 \in {"fakedsplit", "fakeddisorder"} /\ w.split = 0
  \/ d.mode2 \in {"multisplit", "multidisorder", "hostfakesplit"}
     /\ Len(w.cuts) < (IF d.mode2 = "hostfakesplit" THEN 2 ELSE 1)
Final(d, w) == ExtHeader(d) /\ d.ip6 /\ NoSecond(d, w)
=============================================================================
