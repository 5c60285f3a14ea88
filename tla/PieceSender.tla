---------------------------- MODULE PieceSender ----------------------------
(***************************************************************************)
(* One request of a client on its way to the server: its packets, each     *)
(* replaced by the pieces of SplitSegments, sent one by one through raw    *)
(* sends that may fail, over a network that may reorder and lose them, to  *)
(* a TCP receiver.  Several packets are a replay of held packets.          *)
(***************************************************************************)
EXTENDS SplitSegments

CONSTANTS Setups,     \* [d: what the profile asks for, r: the request, ks: its packets,
                      \*  n: how many such requests follow each other on the connection]
          MaxFails,   \* raw sends that fail
          MaxLosses   \* packets lost

VARIABLES set,        \* the setup at hand
          session,    \* which request this is
          idx,        \* the packet the handler works on
          savedId,    \* ctrack->ip_id
          plan,       \* the pieces still to be sent
          fate,       \* what the handler does with the packet after the last piece
          gen,        \* the pieces generated for this packet so far
          net,        \* what is on its way: <<from, to, junk>> in the request
          srv,        \* the receiver: [next, queue, frag, junk]
          fails, losses
vars == <<set, session, idx, savedId, plan, fate, gen, net, srv, fails, losses>>

d == set.d
r == set.r
K == set.ks[idx]
Replay == Len(set.ks) > 1
FreshServer == [next |-> 0, queue |-> {}, frag |-> {}, junk |-> FALSE]

Init ==
  /\ set \in Setups
  /\ session = 1 /\ idx = 1 /\ savedId = 0
  /\ plan = <<>> /\ fate = "begin" /\ gen = <<>>
  /\ net = {} /\ srv = FreshServer /\ fails = 0 /\ losses = 0

\* The first id of the packet, and the one of the second stage: a replay goes
\* on where the last split packet of the connection stopped.
FirstId == IF Replay /\ savedId # 0 THEN savedId ELSE IdFix(K.id, d.idMode)
SecondId(first) ==
  IF Replay /\ savedId # 0 /\ Mode2(d) # "ipfrag2" THEN savedId
  ELSE Nth(FirstId, Len(first), d.idMode)
BeginWith(w, first) ==
  /\ IF Final(d, w) THEN plan' = <<[Whole(K, K.id) EXCEPT !.kind = "header"]>> /\ fate' = "final"
     ELSE IF CanSplit(d, K, w)
     THEN plan' = first \o SecondStage(d, K, w, SecondId(first)) /\ fate' = "drop"
     ELSE plan' = first /\ fate' = IF Cutting(d) THEN "unsplit" ELSE "pass"
Begin ==
  /\ fate = "begin"
  /\ BeginWith(Where(d, r, K), FirstStage(d, r, K, FirstId))
  /\ gen' = <<>>
  /\ UNCHANGED <<set, session, idx, savedId, net, srv, fails, losses>>

OnWire(p) == <<K.off + p.at, K.off + p.at + p.len, p.junk, p.kind = "frag">>
Reaches(p) == p.kind \in {"real", "header", "frag"}
SendPiece ==
  /\ plan # <<>> /\ Head(plan).kind # "toolarge"
  /\ net' = IF Reaches(Head(plan)) THEN net \cup {OnWire(Head(plan))} ELSE net
  /\ gen' = Append(gen, Head(plan))
  /\ plan' = Tail(plan)
  /\ UNCHANGED <<set, session, idx, savedId, fate, srv, fails, losses>>
\* A segment that cannot be built or sent, or is too large: the packet itself
\* is sent in the end.
GiveUp ==
  /\ plan # <<>>
  /\ \/ Head(plan).kind = "toolarge" /\ UNCHANGED fails
     \/ Head(plan).kind # "toolarge" /\ fails < MaxFails /\ fails' = fails + 1
  /\ plan' = <<>> /\ fate' = "pass"
  /\ UNCHANGED <<set, session, idx, savedId, gen, net, srv, losses>>

\* The verdict. What is left in ctrack->ip_id is the id after the last piece;
\* after the part with the end of the packet for multidisorder, which sends it
\* first, and for hostfakesplit, which may send it before the host.
SavedAfter ==
  LET ends == SelectSeq(gen, LAMBDA p : p.kind = "real" /\ p.at + p.len = K.len)
      top == IF Mode2(d) \in {"multidisorder", "hostfakesplit"} THEN Head(ends) ELSE Last(gen)
  IN IdNext(top.id, d.idMode)
Sent(id) == net \cup {OnWire(Whole(K, id))}
Dropped == fate = "drop" /\ savedId' = (IF Replay THEN SavedAfter ELSE savedId) /\ UNCHANGED net
Ended == fate = "final" /\ UNCHANGED <<savedId, net>>
Passed == fate = "pass" /\ net' = Sent(K.id) /\ UNCHANGED savedId
Unsplit ==
  /\ fate = "unsplit"
  /\ net' = Sent(IF Replay /\ savedId # 0 THEN savedId ELSE K.id)
  /\ savedId' = IF Replay /\ savedId # 0 THEN IdNext(savedId, d.idMode) ELSE savedId
Finish ==
  /\ plan = <<>> /\ (Dropped \/ Ended \/ Passed \/ Unsplit)
  /\ IF idx < Len(set.ks) THEN idx' = idx + 1 /\ fate' = "begin" ELSE fate' = "sent" /\ UNCHANGED idx
  /\ UNCHANGED <<set, session, plan, gen, srv, fails, losses>>

-----------------------------------------------------------------------------
\* The network and the server's TCP. What arrives at the place the server
\* waits for is read from there on, whatever precedes that place in it is not;
\* the rest waits, and is taken in the order of its first byte.
Start(s) == s[1] - s[3]
Covers(s, n) == Start(s) <= n /\ n < s[2]
Read(v, s) == [v EXCEPT !.next = s[2], !.junk = @ \/ v.next < s[1],
                        !.queue = {q \in @ : q[2] > s[2]}]
RECURSIVE Pulled(_)
Pulled(v) ==
  LET ready == {q \in v.queue : Covers(q, v.next)}
  IN IF ready = {} THEN v
     ELSE Pulled(Read(v, CHOOSE q \in ready : \A o \in ready : Start(q) <= Start(o)))
Arrived(v, s) ==
  IF Covers(s, v.next) THEN Pulled(Read(v, s))
  ELSE IF s[2] > v.next THEN [v EXCEPT !.queue = @ \cup {s}] ELSE v
\* Two fragments make the packet they were cut from.
Assembled(v, s) ==
  LET got == v.frag \cup {s[3]}
  IN IF got = {1, 2} THEN Arrived([v EXCEPT !.frag = {}], <<s[1], s[2], 0, FALSE>>)
     ELSE [v EXCEPT !.frag = got]
Deliver ==
  \E s \in net :
    /\ net' = net \ {s}
    /\ srv' = IF s[4] THEN Assembled(srv, s) ELSE Arrived(srv, s)
    /\ UNCHANGED <<set, session, idx, savedId, plan, fate, gen, fails, losses>>
Lose ==
  /\ losses < MaxLosses /\ losses' = losses + 1
  /\ \E s \in net : net' = net \ {s}
  /\ UNCHANGED <<set, session, idx, savedId, plan, fate, gen, srv, fails>>
\* The client sends again what was not acknowledged of a packet, and the engine
\* passes it as it is: it does not begin a request, or a cutoff or a broken
\* reassembly keeps the engine from working on it.
Retransmit ==
  /\ fate = "sent" /\ net = {} /\ srv.next < r.len
  /\ \E i \in DOMAIN set.ks :
       LET k == set.ks[i]
       IN /\ k.off <= srv.next /\ srv.next < k.off + k.len
          /\ net' = {<<srv.next, k.off + k.len, 0, FALSE>>}
  /\ UNCHANGED <<set, session, idx, savedId, plan, fate, gen, srv, fails, losses>>
\* A request sent again from its first byte is a request like the first time,
\* and its packets are split again.
Resplit ==
  /\ fate = "sent" /\ net = {} /\ srv.next = 0
  /\ idx' = 1 /\ fate' = "begin" /\ gen' = <<>>
  /\ UNCHANGED <<set, session, savedId, plan, net, srv, fails, losses>>
\* The next request of the connection, as after a HelloRetryRequest.
NextRequest ==
  /\ fate = "sent" /\ srv.next = r.len /\ net = {} /\ session < set.n
  /\ session' = session + 1 /\ idx' = 1 /\ fate' = "begin" /\ srv' = FreshServer /\ gen' = <<>>
  /\ UNCHANGED <<set, savedId, plan, net, fails, losses>>

Next == \/ Begin \/ SendPiece \/ GiveUp \/ Finish
        \/ Deliver \/ Lose \/ Retransmit \/ Resplit \/ NextRequest
Spec == Init /\ [][Next]_vars

-----------------------------------------------------------------------------
\* The server never reads a byte of junk, in whatever order the pieces arrive
\* and whichever of them are lost and sent again by the client: the junk
\* before a part only covers what is read from another piece. This rests on
\* the comparison seqovl_pos >= from of multidisorder and fakeddisorder.
JunkNeverRead == ~srv.junk

\* Between them the pieces hold every byte of the packets they replace: once
\* everything has arrived and nothing was lost the server has the request.
NothingMissing == fate = "sent" /\ net = {} /\ losses = 0 => srv.next = r.len

\* In mode seq no fake has the ip_id of a part of the same packet, which is
\* what docs/readme.md says a filter looks for. Two cases are not promised. The
\* first packet of a replay after the connection has left its counter in
\* ctrack->ip_id: its fakes and its parts both begin there. And multidisorder
\* whose ids step over zero: the highest is found by adding, which skips zero
\* only if it lands on it, and the way down skips it always, so that the lowest
\* part gets the id before its own (desync.c:857, 2340).
StepsOverZero ==
  /\ Mode2(d) = "multidisorder"
  /\ SecondId(FirstStage(d, r, K, FirstId)) + Len(Where(d, r, K).cuts) > IdSpace
FakeIdsDifferIn(g) ==
  \A i, j \in DOMAIN g : g[i].kind \in {"fake", "rst"} /\ g[j].kind = "real" => g[i].id # g[j].id
FakeIdsDiffer ==
  /\ d.idMode = "seq" /\ fate \notin {"begin", "sent"}
  /\ ~StepsOverZero /\ ~(Replay /\ idx = 1 /\ savedId # 0)
  => FakeIdsDifferIn(gen)
=============================================================================
