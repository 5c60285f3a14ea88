-------------------------------- MODULE Flow --------------------------------
(***************************************************************************)
(* TcpDesync between the clients of this computer and the servers they     *)
(* talk to: TCP clients with a small window that retransmit, servers that  *)
(* acknowledge, a network that loses packets, a censor that resets or      *)
(* redirects, a clock, and somebody who edits the list files.              *)
(*                                                                         *)
(* Packets wait in the driver while the engine works, so that the          *)
(* surroundings send one only when the engine is idle; files may change    *)
(* between any two steps of the engine.                                    *)
(***************************************************************************)
EXTENDS TcpDesync

CONSTANTS AtStart,    \* state of a connection when the engine starts
          Isn,        \* first sequence number of each client
          Window,     \* units a client sends without an acknowledgement
          Mss,        \* units a segment can hold
          Initial,    \* [Files -> pool]: the lists at the start
          MaxTime,    \* bound of the clock
          MaxTrouble, \* bound of the losses, bare acknowledgements, resets and answers of the censor
          MaxGen,     \* bound of the connections over one pair of ports
          MaxEdits,   \* bound of the edits of files
          Contents,   \* what an editor may write: function from files to sets of pools
          Lockable,   \* files that may become unreadable for a while
          Blocks      \* answers of the censor: a subset of {"rst", "redirect"}

\* What a client asks is shorter than the sequence space; no file holds the entry
\* that marks an automatic list.
ASSUME FlowAssumption ==
  /\ \A c \in Conns : Isn[c] \in Nat
  /\ \A s \in Streams : \A c \in Conns : s[c].total \in 0..(SeqSpace - 1) /\ s[c].hello \in Nat
  /\ \A s \in Streams : \A c \in Conns : s[c].host \in Hosts
  /\ \A f \in Files : Impossible \notin DOMAIN Initial[f]
  /\ \A f \in DOMAIN Contents : \A content \in Contents[f] : Impossible \notin DOMAIN content
  /\ Mss \in Nat /\ AtStart \subseteq {"closed", "open"} /\ Blocks \subseteq {"rst", "redirect"}

VARIABLES client,  \* [st, una, nxt, gen] of each connection
          server,  \* [st, got]: state, units received
          trouble, \* how many of them happened
          edits

network == <<client, server, trouble, edits>>
vars == <<engine, world, network>>

ServerIsn == 0
FirstSeq(c) == Mod(Isn[c] + client[c].gen)
Segment(c, a, b) ==
  [conn |-> c, dir |-> "orig", kind |-> "data", seq |-> Mod(FirstSeq(c) + a),
   ack |-> Mod(ServerIsn + 1), len |-> b - a + 1, at |-> a]
Control(c, kind) ==
  [conn |-> c, dir |-> "orig", kind |-> kind,
   seq |-> IF kind = "syn" THEN FirstSeq(c) ELSE Mod(FirstSeq(c) + client[c].nxt),
   ack |-> IF kind = "syn" THEN 0 ELSE Mod(ServerIsn + 1), len |-> 0, at |-> 0]
\* Everything up to Cumulative(c) has arrived.
Cumulative(c) ==
  CHOOSE k \in 0..Cardinality(server[c].got) :
    /\ \A i \in 1..k : i \in server[c].got
    /\ k + 1 \notin server[c].got
Answer(c, kind) ==
  [conn |-> c, dir |-> "reply", kind |-> kind,
   seq |-> IF kind = "synack" THEN ServerIsn ELSE Mod(ServerIsn + 1),
   ack |-> Mod(FirstSeq(c) + 1 + IF kind = "synack" THEN 0 ELSE Cumulative(c)),
   len |-> IF kind \in {"data", "redirect"} THEN 1 ELSE 0, at |-> 0]


\* The engine may be started while connections are open: it has no entry then.
InitEnvironment ==
  /\ stream \in Streams
  /\ \E st \in [Conns -> AtStart] :
       /\ client = [c \in Conns |-> [st |-> st[c], una |-> 1, nxt |-> 1, gen |-> 0]]
       /\ server = [c \in Conns |-> [st |-> st[c], got |-> {}]]
  /\ now = 0 /\ trouble = 0 /\ edits = 0
InitEngine ==
  /\ table = <<>> /\ lastPurge = 0
  /\ fails = [i \in DOMAIN Profiles |-> NoFails] /\ failPurge = 0 /\ ipcache = <<>>
  /\ pc = "idle" /\ cur = NoPacket /\ replay = FALSE /\ dp = 0 /\ loc = NoLoc
  /\ back = [host |-> NoHost, to |-> "idle"] /\ out = <<>>
\* The lists were read when the program started, after the automatic ones were
\* created empty.
InitLists ==
  /\ disk = [f \in Files |-> [mtime |-> 0, content |-> Initial[f], there |-> TRUE, readable |-> TRUE]]
  /\ mem = MakeAutolistsNonEmpty(
             [f \in Files |-> [sig |-> IF f \in Inline THEN NoSig ELSE Stat(disk[f]),
                               pool |-> Initial[f]]], AutoLists)
Init == InitEnvironment /\ InitEngine /\ InitLists

-----------------------------------------------------------------------------
\* The client. It sends as much as its window allows and repeats what was not
\* acknowledged; the same units may leave in other segments than before.
Trouble == trouble < MaxTrouble /\ trouble' = trouble + 1
Syn(c) ==
  /\ client[c].st \in {"closed", "syn"} /\ Capture(Control(c, "syn"))
  /\ client' = [client EXCEPT ![c].st = "syn"]
  /\ UNCHANGED <<world, server, trouble, edits>>
Unsent(c) == client[c].nxt <= stream[c].total
SendNew(c) ==
  /\ client[c].st = "open" /\ Unsent(c) /\ client[c].nxt < client[c].una + Window
  /\ \E b \in client[c].nxt..(IF client[c].nxt + Mss > stream[c].total
                              THEN stream[c].total ELSE client[c].nxt + Mss - 1) :
       /\ Capture(Segment(c, client[c].nxt, b))
       /\ client' = [client EXCEPT ![c].nxt = b + 1]
  /\ UNCHANGED <<world, server, trouble, edits>>
Retransmit(c) ==
  /\ client[c].st = "open" /\ client[c].una < client[c].nxt
  /\ \E b \in client[c].una..(client[c].una + Mss - 1) :
       b < client[c].nxt /\ Capture(Segment(c, client[c].una, b))
  /\ UNCHANGED <<world, network>>
PureAck(c) ==
  /\ client[c].st = "open" /\ Capture(Control(c, "ack")) /\ Trouble
  /\ UNCHANGED <<world, client, server, edits>>
\* The client gives up, and opens the same pair of ports again later.
Abort(c) ==
  /\ client[c].st \in {"open", "answered"} /\ client[c].gen < MaxGen
  /\ Capture(Control(c, "rst")) /\ Trouble
  /\ client' = [client EXCEPT ![c] = [st |-> "closed", una |-> 1, nxt |-> 1, gen |-> @.gen + 1]]
  /\ server' = [server EXCEPT ![c] = [st |-> "closed", got |-> {}]]
  /\ UNCHANGED <<world, edits>>

\* The server, or the censor in its place.
SynAck(c) ==
  /\ server[c].st = "syn" /\ client[c].st = "syn" /\ Capture(Answer(c, "synack"))
  /\ UNCHANGED <<world, network>>
Ack(c) ==
  /\ client[c].st = "open" /\ Cumulative(c) >= client[c].una /\ Capture(Answer(c, "ack"))
  /\ UNCHANGED <<world, network>>
Complete(c) == server[c].got = 1..stream[c].total
Data(c) ==
  /\ client[c].st = "open" /\ Complete(c) /\ Capture(Answer(c, "data"))
  /\ UNCHANGED <<world, network>>
Block(c, kind) ==
  /\ client[c].st = "open" /\ client[c].nxt > 1 /\ Capture(Answer(c, kind)) /\ Trouble
  /\ UNCHANGED <<world, client, server, edits>>

-----------------------------------------------------------------------------
\* What was sent reaches the other end, but for some trouble. The pieces of a
\* split packet carry its payload together (SplitSegments).
Reaches(cl, sv, p) ==
  LET c == p.conn
  IN CASE p.kind = "syn" -> <<cl, IF sv[c].st = "closed" THEN [sv EXCEPT ![c].st = "syn"] ELSE sv>>
       [] p.kind = "synack" ->
            IF cl[c].st = "syn" THEN <<[cl EXCEPT ![c].st = "open"], [sv EXCEPT ![c].st = "open"]>>
            ELSE <<cl, sv>>
       [] p.kind = "data" /\ p.dir = "orig" ->
            <<cl, IF sv[c].st = "closed" THEN sv
                  ELSE [sv EXCEPT ![c].got = @ \cup p.at..(p.at + p.len - 1)]>>
       [] p.dir = "reply" /\ p.kind \in {"ack", "data"} ->
            LET a == Dist(p.ack, FirstSeq(c))
            IN <<[cl EXCEPT ![c].una = IF a > @ THEN a ELSE @,
                            ![c].st = IF p.kind = "data" THEN "answered" ELSE @], sv>>
       [] OTHER -> <<cl, sv>>
AfterAll(q) ==
  LET after[i \in 0..Len(q)] ==
        IF i = 0 THEN <<client, server>> ELSE Reaches(after[i - 1][1], after[i - 1][2], q[i].p)
  IN after[Len(q)]
Without(q, i) == SubSeq(q, 1, i - 1) \o SubSeq(q, i + 1, Len(q))
Finish == pc = "done" /\ pc' = "idle" /\ cur' = NoPacket /\ dp' = 0 /\ loc' = NoLoc /\ out' = <<>>
          /\ UNCHANGED <<table, lastPurge, mem, fails, failPurge, ipcache, replay, back>>
Transmit ==
  /\ Finish
  /\ client' = AfterAll(out)[1] /\ server' = AfterAll(out)[2]
  /\ UNCHANGED <<world, trouble, edits>>
Lose ==
  /\ Finish /\ Trouble
  /\ \E i \in DOMAIN out : /\ client' = AfterAll(Without(out, i))[1]
                           /\ server' = AfterAll(Without(out, i))[2]
  /\ UNCHANGED <<world, edits>>

Tick == /\ now < MaxTime /\ now' = now + 1
        /\ UNCHANGED <<engine, disk, stream, network>>

\* Somebody else writes the lists. A polite editor does not write twice within
\* the resolution of the file times.
Write(f, content) ==
  /\ edits < MaxEdits /\ f \notin Inline /\ disk[f].mtime < now /\ disk[f].content # content
  /\ disk' = [disk EXCEPT ![f].content = content, ![f].mtime = now]
  /\ edits' = edits + 1
  /\ UNCHANGED <<engine, now, stream, client, server, trouble>>
Lock(f) ==
  /\ edits < MaxEdits /\ disk[f].readable /\ disk' = [disk EXCEPT ![f].readable = FALSE]
  /\ edits' = edits + 1
  /\ UNCHANGED <<engine, now, stream, client, server, trouble>>
Unlock(f) ==
  /\ ~disk[f].readable /\ disk' = [disk EXCEPT ![f].readable = TRUE]
  /\ UNCHANGED <<engine, now, stream, network>>

\* The steps of the engine; only an automatic list is written by it.
Quietly(A) == A /\ UNCHANGED <<world, network>>
Engine ==
  \/ Quietly(FindProfile) \/ Quietly(Limits) \/ Quietly(Inbound) \/ Quietly(RecheckFailed)
  \/ AppendHost /\ UNCHANGED <<now, stream, network>>
  \/ Quietly(SignList) \/ Quietly(Gate) \/ Quietly(Payload) \/ Quietly(Classify)
  \/ Quietly(NextHeld) \/ Quietly(ReplayOver) \/ Quietly(Discover) \/ Quietly(CheckHost)
  \/ Quietly(Act)
Next ==
  \/ \E c \in Conns : Syn(c) \/ SendNew(c) \/ Retransmit(c) \/ PureAck(c) \/ Abort(c)
                      \/ SynAck(c) \/ Ack(c) \/ Data(c)
  \/ \E c \in Conns, kind \in Blocks : Block(c, kind)
  \/ Engine \/ Transmit \/ Lose \/ Tick
  \/ \E f \in DOMAIN Contents : \E content \in Contents[f] : Write(f, content)
  \/ \E f \in Lockable : Lock(f) \/ Unlock(f)
Spec == Init /\ [][Next]_vars

\* The engine answers the driver as long as there is work, and ends who are
\* alive repeat what was not acknowledged. A packet can be lost a few times only.
Fairness ==
  /\ WF_vars(Engine) /\ WF_vars(Transmit)
  /\ \A c \in Conns : SF_vars(Syn(c)) /\ SF_vars(SynAck(c)) /\ SF_vars(SendNew(c))
                      /\ SF_vars(Retransmit(c)) /\ SF_vars(Ack(c)) /\ SF_vars(Data(c))
FairSpec == Spec /\ Fairness
=============================================================================
