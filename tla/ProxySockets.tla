---------------------------- MODULE ProxySockets ----------------------------
(***************************************************************************)
(* TCP sockets as the proxy tpws uses them: what the kernel answers to     *)
(* send, recv, splice, shutdown and close, and the events it reports.      *)
(* None of this is code of the repository; it is how Linux treats the      *)
(* calls of tpws_conn.c.                                                   *)
(*                                                                         *)
(* The streams are cut in units, the smallest amount the model moves; a    *)
(* unit is its number in its stream, or a SOCKS message.                   *)
(***************************************************************************)
EXTENDS Naturals, Sequences, FiniteSets

CONSTANTS TxCap,   \* units the send buffer of a socket takes
          RxCap    \* units its receive buffer takes
ASSUME CapAssumption == TxCap \in Nat \ {0} /\ RxCap \in Nat \ {0}

Dead == {"refused", "aborted", "reset"}   \* TCP_CLOSE with the descriptor open
NoSocket == [st |-> "none", rx |-> <<>>, rfin |-> FALSE, tx |-> <<>>,
             wshut |-> FALSE, err |-> FALSE, linger0 |-> FALSE]
Accepted == [NoSocket EXCEPT !.st = "open"]
Connecting == [NoSocket EXCEPT !.st = "connecting"]

\* SOCKS messages are units above every number of a stream.
FirstMessage == 100
Hello == 100
Host == 101
Addr == 102

Smaller(a, b) == IF a < b THEN a ELSE b
Drop(s, n) == SubSeq(s, n + 1, Len(s))
Take(s, n) == SubSeq(s, 1, n)

\* send and splice: no room is EAGAIN, anything but an open socket an error.
Broken(s) == s.st # "open" \/ s.wshut
Room(s) == IF Broken(s) THEN 0 ELSE TxCap - Len(s.tx)
Written(s, data, n) == [s EXCEPT !.tx = @ \o Take(data, n)]

\* What epoll reports under a mask; EPOLLHUP and EPOLLERR need none.
EventsOf(s, mask) ==
  LET dead == s.st \in Dead
  IN IF s.st = "none" \/ s.st = "connecting" THEN {}
     ELSE (IF dead \/ (s.rfin /\ s.wshut) THEN {"hup"} ELSE {})
       \cup (IF s.err THEN {"err"} ELSE {})
       \cup (IF "in" \in mask /\ (dead \/ s.rfin \/ s.rx # <<>>) THEN {"in"} ELSE {})
       \cup (IF "out" \in mask /\ (dead \/ s.wshut \/ Room(s) > 0) THEN {"out"} ELSE {})
       \cup (IF "rdhup" \in mask /\ (dead \/ s.rfin) THEN {"rdhup"} ELSE {})

\* shutdown(SHUT_WR) gives up a connection in progress and fails on a dead one.
CanShutdown(s) == s.st \in {"open", "connecting"}
ShutDown(s) ==
  IF s.st = "connecting" THEN [s EXCEPT !.st = "aborted", !.wshut = TRUE]
  ELSE [s EXCEPT !.wshut = TRUE]

\* close: unread data or SO_LINGER 0 resets the connection at once, otherwise
\* the send buffer is still transmitted. The closed socket stays here until
\* the peer has everything.
Resets(s) == s.st = "open" /\ (s.linger0 \/ s.rx # <<>>)
Closed(s) ==
  IF s.st = "open" /\ ~Resets(s) THEN [s EXCEPT !.st = "closing", !.wshut = TRUE]
  ELSE [NoSocket EXCEPT !.st = IF s.st = "open" THEN "cut" ELSE "none"]
=============================================================================
