------------------------ MODULE TcpProxyProperties ------------------------
(***************************************************************************)
(* What a relayed connection can count on in tpws.                         *)
(***************************************************************************)
EXTENDS TcpProxy

\* Shapes of the state: masks and states are known ones, sockets hold what
\* they can, a job of the resolver that still points to a leg points to one
\* that was not freed (tpws_conn.c:537), and no send buffer is filled while it
\* holds data, which would end the program (tpws_conn.c:146).
TypeOK ==
  /\ \A c \in Legs :
       LET l == pair.leg[c]
       IN /\ l.st \in {"none", "unavailable", "available", "rdhup", "closed"}
          /\ l.mask \subseteq {"in", "out", "rdhup"}
          /\ Len(pair.sock[c].rx) <= RxCap /\ Len(pair.sock[c].tx) <= TxCap
  /\ pair.socks \in {"handshake", "request", "resolve", "connection", "tcp"}
  /\ DOMAIN batch \subseteq Legs \cup {"resolver"}
  /\ job.attached => pair.leg["local"].st # "none"
  /\ ~pair.fatal

\* The units of one direction on their way, the first one sent first. What a
\* SOCKS client says to the proxy is alone in its socket and not relayed.
DataIn(rx) == IF rx # <<>> /\ rx[1] >= FirstMessage THEN <<>> ELSE rx
OnTheWay(c) ==
  LET o == Other(c)
  IN peer[o].got \o pair.sock[o].tx \o pair.leg[o].pipe \o Buffered(pair.leg[o])
     \o DataIn(pair.sock[c].rx)
LostFrom(c) == {r.unit : r \in {x \in pair.lost : x.from = c}}
\* Conservation: whatever path the blocks take (pipe, four buffers, split
\* parts, what is read at the end of a stream), each direction holds exactly
\* the units sent, in order, save those recorded as lost (tpws_conn.c:788,
\* 1177, 1376).
RelayIntact ==
  \A c \in Legs :
    LET s == OnTheWay(c)
    IN /\ {s[i] : i \in DOMAIN s} = (1..peer[c].sent) \ LostFrom(c)
       /\ \A i, j \in DOMAIN s : i < j => s[i] < s[j]

\* A unit is lost only when one of the ends reset or refused the connection or
\* spoke before its SOCKS request was served, or by one of two gaps of the
\* code: a part of a split block that a full socket refuses is not kept
\* (tpws_conn.c:1294), and a leg is shut down while data waits in it
\* (tpws_conn.c:1748), which then fails and closes both.
LossHasReason ==
  \A r \in pair.lost :
    \/ r.why = "refused"
    \/ \E x \in pair.lost : x.why \in {"shut", "early"}
    \/ \E c \in Legs : peer[c].rst

\* No wake-up is missed between two turns of the loop: the mask registered
\* with epoll, which is only written when a cached flag changes, lets a leg
\* write when something waits in it and read when nothing waits in its
\* partner, and reports the end of its stream until that was handled
\* (tpws_conn.c:600, 771).
Relaying(c) ==
  Alive(pair, c) /\ pair.leg[c].st # "unavailable" /\ InTcpMode(pair, "local")
MaskFits ==
  batch = NoBatch =>
    \A c \in Legs : Relaying(c) =>
      LET l == pair.leg[c]
          partner == pair.leg[Other(c)]
      IN /\ HasUnsent(l) => "out" \in l.mask
         /\ l.st = "available" <=> "rdhup" \in l.mask
         /\ l.st = "available" /\ Relaying(Other(c)) /\ ~HasUnsent(partner) => "in" \in l.mask

\* Once both ends have sent everything, the legs are closed and freed.
LegsReleased == <>[](\A c \in Legs : pair.leg[c].st = "none")

\* A leg is shut down for writing only when nothing waits in it: "partner has
\* unset. partner shutdown delayed." (tpws_conn.c:1703).
ShutWhenEmpty ==
  \A c \in Legs : Alive(pair, c) /\ pair.leg[c].shut => ~HasUnsent(pair.leg[c])
=============================================================================
