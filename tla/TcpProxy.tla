------------------------------ MODULE TcpProxy ------------------------------
(***************************************************************************)
(* The event loop of tpws (tpws_conn.c, resolver.c) with one connection:   *)
(* the client's leg, accepted, and the server's leg, connected, in the     *)
(* transparent mode or behind a SOCKS handshake whose host name a resolver *)
(* thread looks up.                                                        *)
(*                                                                         *)
(* One turn of the loop is Wait, which takes the events that are there,    *)
(* and one Handle per event: the events are those of the moment of Wait,   *)
(* while the client, the server, the network and the resolver go on.       *)
(***************************************************************************)
EXTENDS ProxyLegs

CONSTANTS Settings,   \* the option sets: [mode, tamper, nosplice, start, cutoff, ...]
          Sends       \* [Legs -> number of units the client and the server send]
\* A unit is not taken for a message of SOCKS.
ASSUME ProxyAssumption == \A c \in Legs : Sends[c] \in 0..(FirstMessage - 1)

VARIABLES pair,    \* the two legs and all that belongs to them
          batch,   \* events of this turn not handled yet: leg or "resolver" -> set
          job,     \* the resolve_item: [st, attached, ok]
          peer     \* the client and the server: [Legs -> [sent, fin, got, eof, rst]]
proxyVars == <<pair, batch, job, peer>>

NoJob == [st |-> "none", attached |-> FALSE, ok |-> FALSE]
NoBatch == [x \in {} |-> {}]
Silent == [sent |-> 0, fin |-> FALSE, got |-> <<>>, eof |-> FALSE, rst |-> FALSE]

\* add_tcp_connection: an accepted leg; in the transparent mode its partner
\* is connecting, and the client is watched only for its end.
Legged(set) ==
  [leg |-> [c \in Legs |-> IF c = "local" THEN NewConn("available") ELSE Absent],
   sock |-> [c \in Legs |-> IF c = "local" THEN Accepted ELSE NoSocket],
   socks |-> IF set.mode = "socks" THEN "handshake" ELSE "tcp",
   reply |-> "none", read |-> 0, blocks |-> 0, set |-> set, lost |-> {}, fatal |-> FALSE, ok |-> TRUE,
   track |-> [dp |-> TRUE, ah |-> FALSE, cutoff |-> FALSE, checked |-> FALSE, matches |-> FALSE],
   auto |-> [fails |-> set.fails, listed |-> set.listed]]
ConnectRemote(p) ==
  EpollSet([p EXCEPT !.leg["remote"] = NewConn("unavailable"),
                     !.sock["remote"] = Connecting], "remote", {"out"})
AddTcpConnection(set) ==
  IF set.mode = "socks" THEN EpollSet(Legged(set), "local", {"in", "rdhup"})
  ELSE EpollSet(ConnectRemote(Legged(set)), "local", {"rdhup"})

Init ==
  /\ \E set \in Settings : pair = AddTcpConnection(set)
  /\ batch = NoBatch /\ job = NoJob /\ peer = [c \in Legs |-> Silent]

-----------------------------------------------------------------------------
\* proxy_mode_connect_remote: a local address is refused, and so is a
\* connection that cannot even be started.
Reply(p, what) == [p EXCEPT !.reply = what]
ProxyModeConnectRemote(p, dest) ==
  IF dest = "own" \/ dest = "unstartable" THEN Fail(Reply(p, "fail"))
  ELSE [ConnectRemote(p) EXCEPT !.socks = "connection"]

\* handle_proxy_mode: one message is one read, and anything else hangs up.
\* The request names an address or a host; `dest` is what the address is.
ProxyMessage(p, m, dest) ==
  IF p.socks = "handshake" /\ m = Hello
  THEN [Reply(p, "ack") EXCEPT !.socks = "request"]
  ELSE IF p.socks = "request" /\ m = Host THEN [p EXCEPT !.socks = "resolve"]
  ELSE IF p.socks = "request" /\ m = Addr THEN ProxyModeConnectRemote(p, dest)
  ELSE Fail(p)
HandleProxyMode(p, dest) ==
  LET rx == p.sock["local"].rx
      q == [p EXCEPT !.sock["local"].rx = <<>>]
  IN IF rx = <<>> THEN Fail(p)
     ELSE Lose(ProxyMessage(q, Head(rx), dest), "local", rx, "early")

\* handle_epoll, with the shutdown that follows it in the loop. The partner's
\* own unsent data is not looked at here.
HandleEpoll(p, c, evt, how) ==
  IF InTcpMode(p, c) THEN HandleTcp(p, c, "in" \in evt, how)
  ELSE IF "in" \in evt THEN HandleProxyMode(p, how.dest) ELSE p
ShutdownAfter(p, c) ==
  LET o == Other(c)
  IN IF p.leg[c].st = "rdhup" /\ Alive(p, o) /\ ~p.leg[o].shut /\ ~HasUnsent(p.leg[c])
     THEN ConnShutdown(p, o) ELSE p
InOrOut(p, c, evt, how) ==
  LET q == Then(HandleEpoll(p, c, evt, how), LAMBDA a : ShutdownAfter(a, c))
  IN IF q.ok THEN q ELSE CloseWithPartnerCheck(q, c)

\* proxy_remote_conn_ack: the SOCKS client is told what became of the request.
RemoteConnAck(p, c, err) ==
  IF c = "remote" /\ Alive(p, "local") /\ p.socks = "connection"
  THEN [Reply(p, IF err THEN "fail" ELSE "ok") EXCEPT !.socks = "tcp"]
  ELSE p

\* EPOLLHUP or EPOLLERR: read what is left, count a reset of the server, make
\* the partner reset too, and close.
HupOrErr(p, c, what) ==
  LET reset == p.sock[c].st = "reset" /\ p.sock[c].err
      a == ReadAllAndBuffer(RemoteConnAck(p, c, p.sock[c].err), c, 3, what)
      b == IF reset /\ PartnerAlive(a, c)
           THEN [IF c = "remote" /\ a.set.tamper THEN FailedWithoutAnswer(a) ELSE a
                 EXCEPT !.sock[Other(c)].linger0 = TRUE]
           ELSE a
  IN CloseWithPartnerCheck([b EXCEPT !.sock[c].err = FALSE], c)

\* check_connection_attempt: EPOLLOUT of a leg that is still connecting. The
\* error is read twice, and the second time, for the answer, it is gone.
CheckConnectionAttempt(p, c) ==
  IF p.leg[c].st # "unavailable" \/ c = "local" THEN p
  ELSE IF p.sock[c].err THEN Fail(RemoteConnAck(FailedWrite(p, c), c, FALSE))
  ELSE LET a == EpollSetFlow(p, c, TRUE, FALSE)
           b == IF PartnerAlive(a, c) THEN EpollSetFlow(a, Other(c), TRUE, FALSE) ELSE a
       IN RemoteConnAck([b EXCEPT !.leg[c].st = "available"], c, FALSE)

\* EPOLLRDHUP: the peer of this leg ended its stream. What it still holds is
\* buffered in the partner, whose own end is sent now or once it is empty.
RdhupDone(p, c) ==
  LET o == Other(c)
      q == EpollUpdateFlow([p EXCEPT !.leg[c].flowIn = FALSE], c)
      s == ConnShutdown(q, o)
      closing == ~s.ok \/ s.leg[o].st = "rdhup"
  IN IF ~Alive(q, o) THEN CloseTcpConn(q, c)
     ELSE IF HasUnsent(q.leg[o]) THEN q
     ELSE IF closing THEN CloseWithPartnerCheck(s, c) ELSE s
Rdhup(p, c, what) ==
  LET a == ReadAllAndBuffer(p, c, 2, what)
      b == IF c = "local" /\ a.set.tamper THEN FailedWithoutAnswer(a) ELSE a
      q == [b EXCEPT !.leg[c].st = "rdhup"]
  IN IF HasUnsent(q.leg[c]) THEN EpollSetFlow(q, c, FALSE, TRUE) ELSE RdhupDone(q, c)

\* One event of one leg; an event of a leg closed in this turn is skipped.
LegEvent(p, c, evt, how) ==
  IF ~Alive(p, c) THEN p
  ELSE IF evt \cap {"hup", "err"} # {} THEN HupOrErr(p, c, how.what)
  ELSE LET q == IF "out" \in evt THEN CheckConnectionAttempt(p, c) ELSE p
       IN IF ~q.ok THEN CloseBoth(q, c)
          ELSE IF "rdhup" \in evt THEN Rdhup(q, c, how.what)
          ELSE InOrOut(q, c, evt, how)

\* handle_resolve_pipe and resolve_complete: the answer for a leg that was
\* closed meanwhile is thrown away.
ResolveComplete(p, ok, dest) ==
  IF ~job.attached \/ ~Alive(p, "local") \/ p.socks # "resolve" THEN p
  ELSE IF ~ok THEN Fail(Reply(p, "fail"))
  ELSE ProxyModeConnectRemote(p, dest)
ResolverEvent(p, dest) ==
  LET q == ResolveComplete(p, job.ok, dest)
  IN IF q.ok \/ ~job.attached THEN q ELSE CloseTcpConn(q, "local")

\* The end of a turn: a leg without partner that did not connect in time is
\* closed, and closed legs are freed.
CloseTimedOut(p, late) ==
  IF late /\ p.leg["remote"].orphan /\ p.leg["remote"].st = "unavailable"
  THEN CloseTcpConn(p, "remote") ELSE p
FreeIfClosed(p, c) == IF p.leg[c].st = "closed" THEN FreeConn(p, c) ELSE p
EndOfTurn(p, late) ==
  FreeIfClosed(FreeIfClosed(CloseTimedOut(p, late), "local"), "remote")

-----------------------------------------------------------------------------
Dests == {"addr", "own", "unstartable"}
\* What the handlers can tell apart: a redirect or a request in the data read,
\* a split position, the OOB byte of the first part; the kind of an address.
Hows == [what : BOOLEAN, at : 0..(RxCap - 1), oob : BOOLEAN, dest : Dests]
Plain == [what |-> FALSE, at |-> 0, oob |-> FALSE, dest |-> "addr"]
HowsOf(c, evt) ==
  LET tampered == InTcpMode(pair, c) /\ pair.sock[c].rx # <<>> /\ pair.set.tamper
  IN {h \in Hows :
        IF ~InTcpMode(pair, c) THEN h = [Plain EXCEPT !.dest = h.dest]
        ELSE IF ~tampered \/ evt = {"out"} THEN h = Plain
        ELSE /\ h.dest = "addr" /\ (h.what => pair.set.auto)
             /\ h.at > 0 => c = "local" /\ h.at < Len(pair.sock[c].rx)
             /\ h.oob => h.at > 0}

\* The last event of a turn is followed by the end of the turn.
Left(x) == [y \in DOMAIN batch \ {x} |-> batch[y]]
Turn(x, p) ==
  /\ batch' = Left(x)
  /\ IF DOMAIN batch = {x}
     THEN \E late \in {FALSE, p.leg["remote"].orphan} : pair' = [EndOfTurn(p, late) EXCEPT !.ok = TRUE]
     ELSE pair' = [p EXCEPT !.ok = TRUE]

\* A name that a SOCKS request queues goes to the resolver's list.
QueueJob(p) ==
  job' = IF p.socks = "resolve" /\ pair.socks = "request"
         THEN [st |-> "queued", attached |-> TRUE, ok |-> FALSE]
         ELSE IF pair'.leg["local"].st = "none" THEN [job EXCEPT !.attached = FALSE]
         ELSE job

HandleLeg(c) ==
  /\ c \in DOMAIN batch
  /\ \E how \in HowsOf(c, batch[c]) :
       \E p \in {LegEvent(pair, c, batch[c], how)} : Turn(c, p) /\ QueueJob(p)
  /\ UNCHANGED peer
HandleResolver ==
  /\ "resolver" \in DOMAIN batch
  /\ \E dest \in Dests :
       \E p \in {ResolverEvent(pair, dest)} : Turn("resolver", p)
  /\ job' = NoJob
  /\ UNCHANGED peer

\* epoll_wait: the events of all descriptors that are still registered.
ReadyLegs ==
  {c \in Legs : Alive(pair, c) /\ EventsOf(pair.sock[c], pair.leg[c].mask) # {}}
Ready == ReadyLegs \cup (IF job.st = "done" THEN {"resolver"} ELSE {})
Wait ==
  /\ batch = NoBatch /\ Ready # {}
  /\ batch' = [x \in Ready |-> IF x = "resolver" THEN {"in"}
                               ELSE EventsOf(pair.sock[x], pair.leg[x].mask)]
  /\ UNCHANGED <<pair, job, peer>>

-----------------------------------------------------------------------------
\* resolver_thread: a thread takes the job, looks the name up and writes the
\* item to the pipe.
TakeJob == job.st = "queued" /\ job' = [job EXCEPT !.st = "working"]
           /\ UNCHANGED <<pair, batch, peer>>
AnswerJob ==
  /\ job.st = "working"
  /\ \E ok \in BOOLEAN : job' = [job EXCEPT !.st = "done", !.ok = ok]
  /\ UNCHANGED <<pair, batch, peer>>

\* The peers and the network. The client of a SOCKS proxy sends a message and
\* waits for the answer; it may send data early while the request is served.
ClientMessages ==
  CASE pair.socks = "handshake" -> {Hello}
    [] pair.socks = "request" -> {Host, Addr}
    [] OTHER -> {}
Receives(c, u) == pair' = [pair EXCEPT !.sock[c].rx = Append(@, u)]
CanSend(c) == /\ pair.sock[c].st = "open" /\ ~peer[c].fin /\ ~peer[c].rst
              /\ Len(pair.sock[c].rx) < RxCap
SendMessage ==
  /\ CanSend("local") /\ pair.sock["local"].rx = <<>>
  /\ \E m \in ClientMessages : Receives("local", m)
  /\ UNCHANGED <<batch, job, peer>>
SendUnit(c) ==
  /\ CanSend(c) /\ peer[c].sent < Sends[c]
  /\ c = "local" => pair.socks \in {"connection", "tcp"}
  /\ Receives(c, peer[c].sent + 1)
  /\ peer' = [peer EXCEPT ![c].sent = @ + 1]
  /\ UNCHANGED <<batch, job>>
Finish(c) ==
  /\ pair.sock[c].st = "open" /\ ~peer[c].fin /\ ~peer[c].rst
  /\ peer[c].sent = Sends[c] \/ pair.socks # "tcp"
  /\ pair' = [pair EXCEPT !.sock[c].rfin = TRUE]
  /\ peer' = [peer EXCEPT ![c].fin = TRUE]
  /\ UNCHANGED <<batch, job>>
Reset(c) ==
  /\ pair.set.resets /\ pair.sock[c].st = "open" /\ ~peer[c].rst
  /\ pair' = [Lose(pair, Other(c), pair.sock[c].tx, "reset")
              EXCEPT !.sock[c] = [@ EXCEPT !.st = "reset", !.err = TRUE, !.tx = <<>>]]
  /\ peer' = [peer EXCEPT ![c].rst = TRUE]
  /\ UNCHANGED <<batch, job>>
\* The server accepts or refuses the connection.
Answer ==
  /\ pair.sock["remote"].st = "connecting"
  /\ \E up \in BOOLEAN :
       pair' = [pair EXCEPT !.sock["remote"].st = IF up THEN "open" ELSE "refused",
                            !.sock["remote"].err = ~up]
       /\ peer' = [peer EXCEPT !["remote"].rst = ~up]
  /\ UNCHANGED <<batch, job>>
Deliver(c) ==
  LET s == pair.sock[c]
  IN /\ s.tx # <<>>
     /\ pair' = [pair EXCEPT !.sock[c].tx = Tail(@)]
     /\ peer' = [peer EXCEPT ![c].got = Append(@, Head(s.tx))]
     /\ UNCHANGED <<batch, job>>
DeliverEnd(c) ==
  LET s == pair.sock[c]
  IN /\ s.tx = <<>> /\ ~peer[c].eof /\ ~peer[c].rst
     /\ (s.wshut /\ s.st \in {"open", "closing"}) \/ s.st = "cut"
     /\ pair' = [pair EXCEPT !.sock[c] = IF s.st = "open" THEN s ELSE NoSocket]
     /\ peer' = [peer EXCEPT ![c].eof = TRUE, ![c].rst = s.st = "cut"]
     /\ UNCHANGED <<batch, job>>

Program == Wait \/ (\E c \in Legs : HandleLeg(c)) \/ HandleResolver
Resolver == TakeJob \/ AnswerJob
Network == Answer \/ (\E c \in Legs : Deliver(c) \/ DeliverEnd(c))
Peers == SendMessage \/ (\E c \in Legs : SendUnit(c) \/ Finish(c) \/ Reset(c))
Next == Program \/ Resolver \/ Network \/ Peers
Spec == Init /\ [][Next]_proxyVars

\* The loop goes on while there are events (weak fairness of Program, with its
\* enabling condition written out), a thread serves its job, the network
\* delivers, and the peers send all they have and then end.
ProgramIdle == batch = NoBatch /\ Ready = {}
Fairness ==
  /\ []<>ProgramIdle \/ []<><<Program>>_proxyVars
  /\ WF_proxyVars(Resolver)
  /\ WF_proxyVars(Answer)
  /\ \A c \in Legs : /\ WF_proxyVars(Deliver(c)) /\ WF_proxyVars(DeliverEnd(c))
                     /\ WF_proxyVars(SendUnit(c)) /\ WF_proxyVars(Finish(c))
  /\ WF_proxyVars(SendMessage)
FairSpec == Spec /\ Fairness
=============================================================================
