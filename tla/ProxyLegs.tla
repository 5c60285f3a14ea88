----------------------------- MODULE ProxyLegs -----------------------------
(***************************************************************************)
(* The two legs of a connection in tpws (tpws_conn.c): buffers, the flags  *)
(* from which epoll masks are computed, and the handlers of one event.     *)
(*                                                                         *)
(* Every operator takes the pair of legs `p` and gives the pair it leaves; *)
(* p.ok is what the C function returns.  p.sock are the sockets, p.set the *)
(* options, p.track what tamper.c keeps of the connection, and p.lost the  *)
(* units that left the program without being sent, with the reason.        *)
(***************************************************************************)
EXTENDS ProxySockets

Legs == {"local", "remote"}
Other(c) == IF c = "local" THEN "remote" ELSE "local"
Buffers == 0..3   \* wr_buf: before RDHUP, unused, after RDHUP, after HUP

NewConn(st) ==
  [st |-> st, flowIn |-> FALSE, flowOut |-> FALSE, prev |-> <<FALSE, FALSE, FALSE>>,
   mask |-> {}, pipe |-> <<>>, buf |-> [b \in Buffers |-> <<>>], shut |-> FALSE,
   orphan |-> FALSE]
Absent == NewConn("none")

Alive(p, c) == p.leg[c].st \notin {"none", "closed"}
PartnerAlive(p, c) == Alive(p, Other(c))
BuffersPresent(l) == \E b \in Buffers : l.buf[b] # <<>>
HasUnsent(l) == l.pipe # <<>> \/ BuffersPresent(l)
Buffered(l) == l.buf[0] \o l.buf[1] \o l.buf[2] \o l.buf[3]
InTcpMode(p, c) == c = "remote" \/ p.socks = "tcp"

Fail(p) == [p EXCEPT !.ok = FALSE]
Then(p, F(_)) == IF p.ok THEN F(p) ELSE p
\* Units of the stream that comes in through leg c are gone for a reason.
Lose(p, c, units, why) ==
  [p EXCEPT !.lost = @ \cup {[from |-> c, unit |-> units[i], why |-> why] :
                               i \in {j \in DOMAIN units : units[j] < FirstMessage}}]
\* A write that fails takes the error of the socket with it.
FailedWrite(p, c) == [p EXCEPT !.sock[c].err = FALSE]
WhyOf(p, c, why) == IF p.sock[c].st = "open" /\ p.sock[c].wshut THEN "shut" ELSE why

-----------------------------------------------------------------------------
\* send_buffer_create: a buffer that is not empty ends the program.
SendBufferCreate(p, c, b, data) ==
  [p EXCEPT !.leg[c].buf[b] = data, !.fatal = @ \/ p.leg[c].buf[b] # <<>>]

\* n units leave the buffers, the lower buffers first.
DropBuffered(buf, n) ==
  LET before(b) == Len(buf[0]) * (IF b > 0 THEN 1 ELSE 0)
                   + Len(buf[1]) * (IF b > 1 THEN 1 ELSE 0)
                   + Len(buf[2]) * (IF b > 2 THEN 1 ELSE 0)
  IN [b \in Buffers |-> IF n <= before(b) THEN buf[b]
                        ELSE Drop(buf[b], Smaller(n - before(b), Len(buf[b])))]
\* send_buffers_send: each buffer is sent when the one before it is empty.
BuffersSend(p, c) ==
  LET l == p.leg[c]  s == p.sock[c]
      n == Smaller(Room(s), Len(Buffered(l)))
  IN IF ~BuffersPresent(l) THEN p
     ELSE IF Broken(s) THEN Fail(FailedWrite(p, c))
     ELSE [p EXCEPT !.sock[c] = Written(s, Buffered(l), n), !.leg[c].buf = DropBuffered(@, n)]
\* splice from the pipe of leg c to its socket.
PipeSend(p, c) ==
  LET l == p.leg[c]  s == p.sock[c]
      n == Smaller(Room(s), Len(l.pipe))
  IN IF l.pipe = <<>> THEN p
     ELSE IF Broken(s) THEN Fail(FailedWrite(p, c))
     ELSE [p EXCEPT !.sock[c] = Written(s, l.pipe, n), !.leg[c].pipe = Drop(@, n)]

\* send_or_buffer: what the socket does not take waits in buffer 0; a socket
\* that fails takes nothing and nothing is kept.
SendOrBuffer(p, c, data) ==
  LET s == p.sock[c]
      n == Smaller(Room(s), Len(data))
      q == [p EXCEPT !.sock[c] = Written(s, data, n)]
  IN IF Broken(s) THEN Lose(FailedWrite(p, c), Other(c), data, WhyOf(p, c, "failed"))
     ELSE IF n < Len(data) THEN SendBufferCreate(q, c, 0, Drop(data, n))
     ELSE q

\* conn_shutdown: the flag is set even when the call fails.
ConnShutdown(p, c) ==
  LET q == [p EXCEPT !.leg[c].shut = TRUE]
  IN IF CanShutdown(p.sock[c]) THEN [q EXCEPT !.sock[c] = ShutDown(@)] ELSE Fail(q)

-----------------------------------------------------------------------------
\* epoll_set and epoll_update_flow: the mask is written only when one of the
\* three flags it is made of differs from those of the last update.
EpollSet(p, c, mask) == [p EXCEPT !.leg[c].mask = mask]
FlagsOf(l) == <<l.flowIn, l.flowOut, l.st = "rdhup">>
MaskOf(l) == (IF l.st = "rdhup" THEN {} ELSE {"rdhup"})
             \cup (IF l.flowIn THEN {"in"} ELSE {}) \cup (IF l.flowOut THEN {"out"} ELSE {})
\* Mutant: the state of the leg is not compared.
EpollUpdateFlowInOut(p, c) ==
  LET l == p.leg[c]
  IN IF l.prev[1] = l.flowIn /\ l.prev[2] = l.flowOut THEN p
     ELSE [EpollSet(p, c, MaskOf(l)) EXCEPT !.leg[c].prev = FlagsOf(l)]
EpollUpdateFlow(p, c) ==
  LET l == p.leg[c]
  IN IF l.prev = FlagsOf(l) THEN p
     ELSE [EpollSet(p, c, MaskOf(l)) EXCEPT !.leg[c].prev = FlagsOf(l)]
EpollSetFlow(p, c, in, out) ==
  EpollUpdateFlow([p EXCEPT !.leg[c].flowIn = in, !.leg[c].flowOut = out], c)
\* epoll_set_flow_pair: a leg reads only when nothing waits in its partner,
\* and wants to write when something waits in itself.
\* Mutant: the partner keeps its flags.
EpollSetFlowOwn(p, c) ==
  LET o == Other(c)
  IN EpollSetFlow(p, c, ~(Alive(p, o) /\ HasUnsent(p.leg[o])) /\ p.leg[c].st # "rdhup",
                  HasUnsent(p.leg[c]))
EpollSetFlowPair(p, c) ==
  LET o == Other(c)
      mine == HasUnsent(p.leg[c])
      theirs == Alive(p, o) /\ HasUnsent(p.leg[o])
      q == EpollSetFlow(p, c, ~theirs /\ p.leg[c].st # "rdhup", mine)
  IN IF Alive(p, o) THEN EpollSetFlow(q, o, ~mine /\ p.leg[o].st # "rdhup", theirs) ELSE q

\* handle_unsent: the pipe, then the buffers, then the shutdown that was put
\* off until they were empty; false also when both ends are done.
\* Mutant: the buffers do not wait for the pipe.
UnsentSentTogether(p, c) == Then(BuffersSend(p, c), LAMBDA a : PipeSend(a, c))
UnsentSent(p, c) ==
  LET a == PipeSend(p, c)
  IN IF a.ok /\ a.leg[c].pipe = <<>> THEN BuffersSend(a, c) ELSE a
DelayedShutdown(p, c) ==
  LET o == Other(c)
      q == IF p.leg[c].shut THEN p ELSE ConnShutdown(p, c)
  IN IF ~HasUnsent(p.leg[c]) /\ Alive(p, o) /\ p.leg[o].st = "rdhup"
     THEN IF q.ok /\ p.leg[c].st = "rdhup" /\ ~HasUnsent(p.leg[o]) THEN Fail(q) ELSE q
     ELSE p
HandleUnsent(p, c) ==
  Then(Then(UnsentSent(p, c), LAMBDA a : DelayedShutdown(a, c)),
       LAMBDA a : EpollSetFlowPair(a, c))

-----------------------------------------------------------------------------
\* tamper.c as the relay sees it. in_tamper_out_range compares the position
\* in the client's stream with the range of --tamper-start and -cutoff: units,
\* or with the form n blocks, of which this is one more.
Position(p, form) == IF form = "n" THEN p.blocks + 1 ELSE p.read
InTamperOutRange(p) ==
  p.track.dp => /\ Position(p, p.set.startForm) >= p.set.start
                /\ p.set.cutoff = 0 \/ Position(p, p.set.cutoffForm) < p.set.cutoff

\* auto_hostlist_failed and auto_hostlist_reset_fail_counter for the one host
\* of this connection. The recheck that precedes the addition is that of the
\* packet engine (ProfileSelection): here the lists have not changed.
AutoFailed(p) ==
  IF p.auto.fails + 1 < p.set.threshold THEN [p EXCEPT !.auto.fails = @ + 1]
  ELSE [p EXCEPT !.auto.fails = 0, !.auto.listed = TRUE]
AutoReset(p) == [p EXCEPT !.auto.fails = 0]
Watched(p) == p.track.dp /\ p.track.ah
\* tamper_in: the first answer decides, and no later one is looked at.
TamperIn(p, redirect) ==
  LET q == IF ~Watched(p) THEN p ELSE IF redirect THEN AutoFailed(p) ELSE AutoReset(p)
  IN [q EXCEPT !.track.cutoff = TRUE]
\* rst_in and hup_out: the server's reset or the client's end before any answer.
\* Mutant: an answer that came does not matter.
FailedWithAnswer(p) == IF Watched(p) THEN AutoFailed(p) ELSE p
FailedWithoutAnswer(p) ==
  IF Watched(p) /\ ~p.track.cutoff THEN AutoFailed(p) ELSE p
\* tamper_out on a block with a request: under an automatic list the host is
\* looked up once; a host that is not listed is watched and not tampered with.
\* The result says whether the block may be split.
TamperOut(p, request) ==
  IF request /\ p.track.dp /\ p.set.auto /\ ~p.track.checked
  THEN [p EXCEPT !.track.checked = TRUE, !.track.matches = p.auto.listed,
                 !.track.ah = IF p.auto.listed THEN @ ELSE ~p.set.excluded]
  ELSE p
MaySplit(p, request) ==
  /\ p.track.dp
  /\ request /\ p.set.auto => p.track.matches

\* tamper: the answers while the first one is awaited, the requests in range.
\* `what` tells a redirect or a request from other data.
Tamper(p, c, what) ==
  IF ~p.set.tamper THEN p
  ELSE IF c = "remote"
  THEN IF Alive(p, "local") /\ ~p.track.cutoff THEN TamperIn(p, what) ELSE p
  ELSE IF InTamperOutRange(p) THEN TamperOut(p, what) ELSE p

-----------------------------------------------------------------------------
\* One part of a split block, send_oob in the loop of handle_epoll. Only the
\* first part can carry the OOB byte, and only send_oob with that byte takes a
\* full socket for zero bytes sent; otherwise the loop is left and what
\* remains of the block is not kept.
SendPart(p, c, block, from, to, oob) ==
  LET s == p.sock[c]
      n == Smaller(Room(s), to - from)
      q == [p EXCEPT !.sock[c] = Written(s, Drop(block, from), n)]
      rest == Drop(block, from + n)
  IN IF Broken(s)
     THEN [q |-> Lose(FailedWrite(p, c), Other(c), rest, WhyOf(p, c, "failed")), on |-> FALSE]
     ELSE IF n = 0 /\ ~oob THEN [q |-> Lose(p, Other(c), rest, "refused"), on |-> FALSE]
     ELSE IF n < to - from THEN [q |-> SendOrBuffer(q, c, rest), on |-> FALSE]
     ELSE [q |-> q, on |-> TRUE]
\* A block with one split position; more positions repeat the second step.
SendSplit(p, c, block, at, oob) ==
  LET first == SendPart(p, c, block, 0, at, oob)
  IN IF first.on THEN SendPart(first.q, c, block, at, Len(block), FALSE).q ELSE first.q

\* What handle_epoll does with a block that is there: it is spliced through
\* the pipe of the partner when nothing is to be changed in it, and otherwise
\* received, tampered with and sent. `how` is [what, at, oob].
Spliced(p, c) ==
  /\ ~p.set.nosplice
  /\ \/ ~p.set.tamper
     \/ c = "remote" /\ p.track.cutoff
     \/ c = "local" /\ ~InTamperOutRange(p)
Taken(p, c) == [p EXCEPT !.sock[c].rx = <<>>,
                         !.read = IF c = "local" THEN @ + Len(p.sock[c].rx) ELSE @]
SpliceBlock(p, c) ==
  LET o == Other(c)
      q == [Taken(p, c) EXCEPT !.leg[o].pipe = @ \o p.sock[c].rx]
      sent == PipeSend(q, o)
  IN IF sent.ok THEN sent ELSE FailedWrite(q, o)
ReceiveBlock(p, c, how) ==
  LET block == p.sock[c].rx
      q == Tamper([p EXCEPT !.sock[c].rx = <<>>], c, how.what)
      r == [q EXCEPT !.read = IF c = "local" THEN @ + Len(block) ELSE @]
      split == /\ c = "local" /\ p.set.tamper /\ InTamperOutRange(p)
               /\ how.at \in 1..(Len(block) - 1) /\ MaySplit(q, how.what)
  IN IF split THEN SendSplit(r, Other(c), block, how.at, how.oob)
     ELSE SendOrBuffer(r, Other(c), block)
\* Blocks are counted here only, not where the end of a stream is read.
BlockCounted(p, c) == IF c = "local" THEN [p EXCEPT !.blocks = @ + 1] ELSE p
RelayBlock(p, c, how) ==
  LET q == IF Spliced(p, c) THEN SpliceBlock(p, c) ELSE ReceiveBlock(p, c, how)
  IN IF p.sock[c].rx = <<>> THEN p ELSE EpollSetFlowPair(BlockCounted(q, c), c)

\* A leg without partner only throws away what it reads.
BlackHole(p, c) == Lose([p EXCEPT !.sock[c].rx = <<>>], c, p.sock[c].rx, "no partner")

\* handle_epoll in TCP mode.
HandleTcp(p, c, in, how) ==
  LET a == HandleUnsent(p, c)
  IN IF ~a.ok \/ (~PartnerAlive(a, c) /\ ~HasUnsent(a.leg[c])) THEN Fail(a)
     ELSE IF ~in THEN a
     ELSE IF ~PartnerAlive(a, c) THEN BlackHole(a, c)
     ELSE IF HasUnsent(a.leg[Other(c)]) THEN a
     ELSE RelayBlock(a, c, how)

\* read_all_and_buffer: what the leg still holds goes to a buffer of its
\* partner. The position is moved before tamper looks at it.
\* Mutant: the buffer of a block that was not sent whole is taken.
ReadAllAndBufferFirst(p, c, b, what) ==
  LET o == Other(c)
      q == SendBufferCreate(Taken(p, c), o, 0, p.sock[c].rx)
      r == Tamper([q EXCEPT !.leg[o].flowOut = TRUE], c, what)
  IN IF Alive(p, o) /\ p.sock[c].rx # <<>> THEN EpollUpdateFlow(r, o) ELSE p
ReadAllAndBuffer(p, c, b, what) ==
  LET o == Other(c)
      q == SendBufferCreate(Taken(p, c), o, b, p.sock[c].rx)
      r == Tamper([q EXCEPT !.leg[o].flowOut = TRUE], c, what)
  IN IF Alive(p, o) /\ p.sock[c].rx # <<>> THEN EpollUpdateFlow(r, o) ELSE p

-----------------------------------------------------------------------------
\* close_tcp_conn and the two ways to close a pair.
CloseTcpConn(p, c) == IF Alive(p, c) THEN [p EXCEPT !.leg[c].st = "closed"] ELSE p
CloseBoth(p, c) == CloseTcpConn(CloseTcpConn(p, Other(c)), c)
\* Mutant: the partner goes with what waits in it.
CloseWithPartnerAnyway(p, c) == CloseBoth(p, c)
CloseWithPartnerCheck(p, c) ==
  LET o == Other(c)
      q == CloseTcpConn(p, c)
  IN IF ~Alive(q, o) THEN q
     ELSE IF ~HasUnsent(q.leg[o]) THEN CloseTcpConn(q, o)
     ELSE IF o = "remote" /\ q.leg[o].st = "unavailable" /\ q.set.maxOrphan
     THEN [q EXCEPT !.leg[o].orphan = TRUE]
     ELSE q

\* free_conn: descriptors, pipe and buffers go, the partner is left alone and
\* the resolver's job detached.
FreeConn(p, c) ==
  LET l == p.leg[c]
      held == Lose(Lose(p, Other(c), l.pipe \o Buffered(l), WhyOf(p, c, "closed")),
                   c, p.sock[c].rx, "closed")
      cut == IF Closed(p.sock[c]).st = "closing" THEN held
             ELSE Lose(held, Other(c), p.sock[c].tx, "reset")
  IN [cut EXCEPT !.leg[c] = Absent, !.sock[c] = Closed(@)]
=============================================================================
