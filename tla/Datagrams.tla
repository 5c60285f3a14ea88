----------------------------- MODULE Datagrams -----------------------------
(***************************************************************************)
(* QuicDesync between clients and servers: a client sends the Initial      *)
(* packets of its ClientHello in any order and repeats them until the      *)
(* server answers, a network that loses datagrams, and a clock.            *)
(***************************************************************************)
EXTENDS QuicDesync

CONSTANTS Edits,      \* <<profile, verdict>> that an edit of its lists may bring about
          Parts,      \* [Flows -> set of datagrams that carry the hello]
          Others,     \* [Flows -> other datagrams the client may send]
          MaxTrouble, \* bound of the losses and of those other datagrams
          MaxTime

Kinds == {"initial", "garbled", "other", "answer", "none"} \cup Known
Verdicts == {"empty", "listed", "excluded", "unlisted"}
Protocols == {"unknown", "quic"} \cup Known
Frame == [type : {"pad", "crypto", "ack"}, off : Nat, len : Nat]
Datagram == [conn : Flows \cup {"none"}, dir : {"orig", "reply"}, kind : Kinds, len : Nat,
             frames : Seq(Frame)]
\* What may come in on a flow: no more than the buffer it is read into holds,
\* which is as large as that of a session.
Captured(c) == {p \in Datagram : p.conn = c /\ p.len <= MaxReasm}

ASSUME DatagramAssumption ==
  /\ MaxReasm \in Nat \ {0} /\ Len(Strategies) \in Nat /\ DOMAIN Strategies = 1..Len(Strategies)
  /\ \A i \in DOMAIN Strategies : Strategies[i].auto \in BOOLEAN /\ Strategies[i].retrans \in Nat
  /\ \A r \in Rules : r.says \in [DOMAIN Strategies -> Verdicts]
  /\ Edits \subseteq (DOMAIN Strategies) \X Verdicts
  /\ \A c \in Flows : Parts[c] \cup Others[c] \subseteq Captured(c)

VARIABLES client,     \* "asking" or "answered"
          got,        \* units of the hello that reached the server
          trouble

network == <<client, got, trouble>>
world == <<rules, says, now>>
vars == <<path, world, network>>

Answer(c) == [conn |-> c, dir |-> "reply", kind |-> "answer", len |-> 1, frames |-> <<>>]

Init ==
  /\ rules \in Rules /\ says = rules.says
  /\ table = <<>> /\ plain = [c \in Flows |-> <<>>] /\ lastPurge = 0 /\ now = 0
  /\ pc = "idle" /\ cur = NoDatagram /\ replay = FALSE /\ first = TRUE /\ dp = 0 /\ loc = NoLoc
  /\ repeats = [c \in Flows |-> 0] /\ reported = [c \in Flows |-> <<>>] /\ out = <<>>
  /\ client = [c \in Flows |-> "asking"] /\ got = [c \in Flows |-> {}] /\ trouble = 0

Trouble == trouble < MaxTrouble /\ trouble' = trouble + 1
Send(c, p) == client[c] = "asking" /\ Capture(p) /\ UNCHANGED <<world, network>>
SendOther(c, p) == Capture(p) /\ Trouble /\ UNCHANGED <<world, client, got>>
Complete(c) == got[c] = 0..(rules.hello.size - 1)
Reply(c) == client[c] = "asking" /\ Complete(c) /\ Capture(Answer(c)) /\ UNCHANGED <<world, network>>

\* What was sent arrives, but for one datagram if the network loses it; fakes
\* do not reach the server.
Carried(p) == IF p.kind = "initial" /\ p.dir = "orig" THEN Covered(p.frames) ELSE {}
Arrived(q, c) == UNION {Carried(q[i].p) : i \in {j \in DOMAIN q : q[j].p.conn = c /\ q[j].how # "fake"}}
Answered(q, c) == \E i \in DOMAIN q : q[i].p = Answer(c)
Finish == /\ pc = "done" /\ pc' = "idle" /\ cur' = NoDatagram /\ dp' = 0 /\ loc' = NoLoc
          /\ first' = TRUE /\ out' = <<>>
          /\ UNCHANGED <<table, plain, lastPurge, replay, reports>>
ArriveAll(q) ==
  /\ got' = [c \in Flows |-> got[c] \cup Arrived(q, c)]
  /\ client' = [c \in Flows |-> IF Answered(q, c) THEN "answered" ELSE client[c]]
Transmit == Finish /\ ArriveAll(out) /\ UNCHANGED <<world, trouble>>
Lose == /\ Finish /\ Trouble
        /\ \E i \in DOMAIN out : ArriveAll(RemoveAt(out, i))
        /\ UNCHANGED world
Tick == now < MaxTime /\ now' = now + 1 /\ UNCHANGED <<path, rules, says, network>>
\* Somebody edits the lists, or the engine itself on behalf of other flows.
Edit == /\ Trouble
        /\ \E e \in Edits : says[e[1]] # e[2] /\ says' = [says EXCEPT ![e[1]] = e[2]]
        /\ UNCHANGED <<path, rules, now, client, got>>

Engine == /\ \/ Enter \/ Initial \/ NotInitial \/ Empty \/ NextHeld \/ ReplayOver \/ Discover \/ CheckHost \/ Act
          /\ UNCHANGED <<world, network>>
Next ==
  \/ \E c \in Flows : \/ \E p \in Parts[c] : Send(c, p)
                      \/ \E p \in Others[c] : SendOther(c, p)
                      \/ Reply(c)
  \/ Engine \/ Transmit \/ Lose \/ Tick \/ Edit
Spec == Init /\ [][Next]_vars

\* The engine works as long as there is work, and the ends that are alive
\* repeat what was not answered.
Fairness ==
  /\ WF_vars(Engine) /\ WF_vars(Transmit)
  /\ \A c \in Flows : SF_vars(Reply(c)) /\ \A p \in Parts[c] : SF_vars(Send(c, p))
FairSpec == Spec /\ Fairness

-----------------------------------------------------------------------------
\* Types of what the engine keeps between datagrams: the buffer never holds
\* more than it was made for, and counts only what was fed.
TypeOK ==
  /\ DOMAIN table \subseteq Flows /\ plain \in [Flows -> Seq(Frame)]
  /\ \A c \in DOMAIN table :
       /\ table[c].reasm.size \in {0, MaxReasm} /\ table[c].reasm.have \in 0..table[c].reasm.size
       /\ table[c].delayed \in Seq(Captured(c)) /\ table[c].dp \in 0..Len(Strategies)
       /\ table[c].retrans \in 0..Stop
  /\ cur \in Datagram /\ dp \in 0..Len(Strategies)
  /\ pc \in {"idle", "find", "payload", "replay", "discover", "check", "act", "done"}

FramesOf(q) == FlattenSeq([i \in DOMAIN q |-> q[i].frames])
\* Between two captures datagrams are held only for a session that is open, the
\* buffer has exactly their frames, and they are not yet a whole ClientHello:
\* what completes a hello releases all of it (reasm_orig_start, replay_queue).
HeldIsIncomplete ==
  pc = "idle" => \A c \in DOMAIN table :
    LET t == table[c]
        d == Defrag(plain[c])
    IN /\ t.delayed # <<>> <=> ~ReasmIsEmpty(t.reasm)
       /\ plain[c] = FramesOf(t.delayed)
       /\ t.delayed # <<>> =>
            ~(d.found /\ d.full /\ d.len > 0 /\ d.buf[0] = "data" /\ d.len >= rules.hello.size)

\* Fakes come before a whole request, never between its datagrams
\* (reasm_offset).
FakesLead ==
  replay => \A i \in DOMAIN out : out[i].how = "fake" => \A j \in 1..(i - 1) : out[j].how = "fake"

\* A flow is reported as failed at most once while the engine tracks it, and
\* only by an automatic profile and after its request came again as often as the
\* profile waits for, each time when the lists, as they were then, neither named
\* nor excluded its host: verdicts kept from before an edit, replayed datagrams
\* of one request and the requests of an entry that expired do not count
\* (auto_hostlist_retrans, bCheckDone, reasm_offset).
ReportsAreEarned ==
  \A c \in Flows :
    /\ Len(reported[c]) <= 1
    /\ \A i \in DOMAIN reported[c] : LET d == Strategies[reported[c][i]]
                                     IN d.auto /\ repeats[c] >= d.retrans

\* The datagrams as PacketPath sees them.
Leaving(o) == IF o.how = "fake" THEN <<>> ELSE <<o.p>>
Sends(q) == FlattenSeq([i \in DOMAIN q |-> Leaving(q[i])])
InReplay == replay /\ pc \notin {"replay", "done", "idle"}
Holding ==
  [c \in Flows |-> IF c \notin DOMAIN table THEN <<>>
                  ELSE IF InReplay /\ c = cur.conn THEN <<cur>> \o table[c].delayed
                  ELSE table[c].delayed]
AtHand == IF replay \/ pc \in {"idle", "done", "replay"} THEN <<>> ELSE <<cur>>
Path == INSTANCE PacketPath WITH
  Connections <- Flows, Packets <- Datagram, held <- Holding, here <- AtHand, sent <- Sends(out)
\* Every captured datagram leaves exactly once or is held; the held ones leave
\* in order and before later ones.
KeepsDatagrams == Path!Spec

\* However a ClientHello is spread over datagrams that are lost, repeated and
\* reordered, it gets to the server and the client is answered.
HelloAnswered == \A c \in Flows : <>(client[c] = "answered")
=============================================================================
