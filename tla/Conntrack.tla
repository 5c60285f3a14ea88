----------------------------- MODULE Conntrack -----------------------------
(***************************************************************************)
(* Connection tracking, reassembly and the queue of held packets           *)
(* (conntrack.c, packet_queue.c and the helpers of desync.c around them).  *)
(*                                                                         *)
(* A packet is a record                                                    *)
(*   [conn, dir, kind, seq, ack, len, at]                                  *)
(* dir is "orig" from the side that opened the connection and "reply" from *)
(* the other; seq and ack are the sequence numbers on the wire, len the    *)
(* payload and at the place of its first unit in the client's stream.  A   *)
(* unit of payload is as much as the detection of a protocol needs.        *)
(* What an entry holds only for reports (reply counters, window sizes,     *)
(* t_start) is left out, and so are the TTLs.                              *)
(***************************************************************************)
EXTENDS Integers, Sequences, FiniteSets

CONSTANTS SeqSpace,       \* 2^32 in the code: sequence numbers wrap here
          Grace,          \* 0x1000000: how far past the request an entry still cares
          CountCap,       \* packet counters saturate here (above every limit)
          TimeoutSyn, TimeoutEstablished, TimeoutFin, \* seconds, in clock ticks
          PurgeInterval

ASSUME SeqAssumption == /\ SeqSpace \in Nat /\ SeqSpace > 1
                        /\ Grace \in Nat /\ CountCap \in Nat

\* RETRANS_COUNTER_STOP: the retransmissions are not counted any more.
Stop == 255

Mod(n) == n % SeqSpace
Dist(a, b) == Mod(a - b)
Bump(n) == IF n < CountCap THEN n + 1 ELSE n

\* helpers.c: is s in the interval from s1 to s2, which may wrap around?
SeqWithin(s, s1, s2) ==
  \/ s2 >= s1 /\ s >= s1 /\ s <= s2
  \/ s2 < s1 /\ (s <= s2 \/ s >= s1)

\* Reassembly buffer: size 0 is no session.
NoReasm == [size |-> 0, have |-> 0, seq |-> 0, at |-> 0]
ReasmIsEmpty(r) == r.size = 0
ReasmIsFull(r) == r.size # 0 /\ r.size = r.have
Room(r, len) == IF len < r.size - r.have THEN len ELSE r.size - r.have
\* Mutant: a segment is taken whatever its sequence number.
ReasmAcceptsAny(r, seq) == TRUE
ReasmAccepts(r, seq) == r.seq = seq
ReasmFed(r, len) ==
  [r EXCEPT !.have = @ + Room(r, len), !.seq = Mod(@ + Room(r, len))]
ReasmStarted(size, p) ==
  ReasmFed([size |-> size, have |-> 0, seq |-> p.seq, at |-> p.at], p.len)

\* An entry as ConntrackInitTrack leaves it.
NewTrack(now) ==
  [state |-> "syn", seq0 |-> 0, ack0 |-> 0, seqLast |-> 0, ackLast |-> 0, posOrig |-> 0,
   packets |-> 0, dataPackets |-> 0, last |-> now,
   retrans |-> 0, reqSeen |-> FALSE, reqFinal |-> FALSE, reqGone |-> FALSE,
   reqStart |-> 0, reqEnd |-> 0,
   wsCut |-> FALSE, desyncCut |-> FALSE,
   l7 |-> "unknown", l7Found |-> FALSE, host |-> "", hostFound |-> FALSE, ahCheck |-> FALSE,
   dp |-> 0, dpSearched |-> FALSE,
   check |-> [done |-> FALSE, result |-> FALSE, excluded |-> FALSE],
   reasm |-> NoReasm, delayed |-> <<>>]

\* ConntrackFeedPacket, in its order: the counters first, then the state of
\* the connection (a SYN out of state SYN wipes the entry, counters and held
\* packets included), then the positions.
Counted(t, p) ==
  IF p.dir = "reply" THEN t
  ELSE [t EXCEPT !.packets = Bump(@), !.dataPackets = IF p.len > 0 THEN Bump(@) ELSE @]

SynSeen(t, p, now) ==
  [(IF t.state = "syn" THEN t ELSE NewTrack(now)) EXCEPT !.seq0 = p.seq]
SynAckSeen(t, p, now) ==
  LET first == Mod(p.ack - 1)
      u == IF t.state # "syn" /\ t.seq0 # first THEN NewTrack(now) ELSE t
  IN [u EXCEPT !.seq0 = IF @ = 0 THEN first ELSE @, !.ack0 = p.seq]
OtherSeen(t, p) ==
  IF t.state # "syn" THEN t
  ELSE [t EXCEPT !.state = "established",
                 !.ack0 = IF p.dir = "orig" /\ @ = 0 THEN Mod(p.ack - 1) ELSE @]
StateSeen(t, p, now) ==
  CASE p.kind = "syn" -> SynSeen(t, p, now)
    [] p.kind = "synack" -> SynAckSeen(t, p, now)
    [] p.kind \in {"fin", "rst"} -> [t EXCEPT !.state = "fin"]
    [] OTHER -> OtherSeen(t, p)

Positions(t, p, now) ==
  IF p.dir = "reply"
  THEN [t EXCEPT !.posOrig = p.ack, !.seqLast = p.ack, !.ackLast = p.seq, !.last = now]
  ELSE [t EXCEPT !.seqLast = p.seq, !.posOrig = Mod(p.seq + p.len), !.ackLast = p.ack,
                 !.last = now]
FeedPacket(t, p, now) == Positions(StateSeen(Counted(t, p), p, now), p, now)

\* ConntrackPoolPurge for one entry.
Timeout(state) ==
  CASE state = "syn" -> TimeoutSyn
    [] state = "established" -> TimeoutEstablished
    [] OTHER -> TimeoutFin
Expired(t, now) == now - t.last >= Timeout(t.state)
PurgeDue(lastPurge, now) == now - lastPurge >= PurgeInterval

\* ConntrackPoolFeed: the table maps each open connection to its entry. Only a
\* SYN or a SYN,ACK opens one; the entry of a SYN,ACK is stored under the
\* swapped addresses, so that the side that sent the SYN is "orig" either way.
Opens(p) == p.kind \in {"syn", "synack"}
Purged(table, lastPurge, now) ==
  IF ~PurgeDue(lastPurge, now) THEN table
  ELSE [c \in {d \in DOMAIN table : ~Expired(table[d], now)} |-> table[c]]
Fed(table, p, now) ==
  IF p.conn \in DOMAIN table
  THEN [table EXCEPT ![p.conn] = FeedPacket(@, p, now)]
  ELSE IF Opens(p)
       THEN [c \in DOMAIN table \cup {p.conn} |->
               IF c = p.conn THEN FeedPacket(NewTrack(now), p, now) ELSE table[c]]
       ELSE table

-----------------------------------------------------------------------------
\* The limits of a profile on a connection: n packets, d packets with payload,
\* s sequence number relative to the first.
Counter(t, mode) ==
  CASE mode = "n" -> t.packets
    [] mode = "d" -> t.dataPackets
    [] mode = "s" -> Dist(t.seqLast, t.seq0)
LimitReached(t, limit, mode) == limit > 0 /\ Counter(t, mode) >= limit
MaybeCutoff(t, dp) ==
  [t EXCEPT !.wsCut = @ \/ LimitReached(t, dp.wsCutoff, dp.wsCutoffMode),
            !.desyncCut = @ \/ LimitReached(t, dp.cutoff, dp.cutoffMode)]
WsizeCut(t, dp) == MaybeCutoff([t EXCEPT !.wsCut = TRUE], dp)
ForcedWsizeCut(t, dp) == IF t.wsCut THEN t ELSE WsizeCut(t, dp)

\* check_desync_interval for a tracked connection.
InInterval(t, dp) ==
  /\ dp.start > 0 => LimitReached(t, dp.start, dp.startMode)
  /\ dp.cutoff > 0 => ~t.desyncCut

StopRetrans(t, dp) ==
  IF t.ahCheck THEN MaybeCutoff([t EXCEPT !.retrans = Stop], dp) ELSE t

\* auto_hostlist_retrans: is the retransmission of a request counted, and does
\* it reach the threshold?
Watched(t) == t.ahCheck /\ t.retrans # Stop /\ t.reqFinal /\ ~t.reqGone
InRequest(t) == SeqWithin(t.seqLast, t.reqStart, t.reqEnd)
RetransFires(t, dp) == Watched(t) /\ InRequest(t) /\ t.retrans + 1 >= dp.retrans
AfterRetrans(t, dp) ==
  IF ~Watched(t) THEN t
  ELSE IF InRequest(t) /\ t.retrans + 1 < dp.retrans
       THEN [t EXCEPT !.retrans = @ + 1]
       ELSE StopRetrans(t, dp)

\* The interval of the request, which is set once and never moves again.
RequestSeen(t, full) ==
  IF t.reqFinal THEN t
  ELSE [t EXCEPT !.reqStart = IF t.reqSeen THEN @ ELSE t.seqLast,
                 !.reqSeen = TRUE,
                 !.reqEnd = Mod(t.posOrig - 1),
                 !.reqFinal = full]
HttpRequestSeen(t) == IF t.reqSeen THEN t ELSE RequestSeen(t, TRUE)

\* More than the grace window past the request: it is abandoned.
RequestPassed(t) ==
  LET past == Dist(t.seqLast, t.reqEnd)
  IN [t EXCEPT !.reqGone = @ \/ (t.reqFinal /\ past >= Grace /\ 2 * past < SeqSpace)]
=============================================================================
