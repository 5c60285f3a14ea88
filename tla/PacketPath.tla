----------------------------- MODULE PacketPath -----------------------------
(***************************************************************************)
(* What the engine promises about the packets it captures: each is sent    *)
(* once, or held; the held packets of a connection leave in the order they *)
(* came and before any later payload of that connection; they are lost     *)
(* only when the engine forgets the connection.                            *)
(***************************************************************************)
EXTENDS Naturals, Sequences

CONSTANTS Connections, Packets   \* a packet is a record with at least conn and len

VARIABLES held,   \* [Connections -> sequence of packets]
          here,   \* the captured packet, or <<>>
          sent    \* packets sent since the last capture
pathVars == <<held, here, sent>>

Init == held = [c \in Connections |-> <<>>] /\ here = <<>> /\ sent = <<>>

\* A packet is captured; entries that expired or were reused are forgotten.
Arrive(forgotten) ==
  /\ here = <<>> /\ Len(here') = 1 /\ here'[1] \in Packets /\ sent' = <<>>
  /\ held' = [c \in Connections |-> IF c \in forgotten THEN <<>> ELSE held[c]]
\* The packet leaves after everything held before it.
Depart ==
  LET p == here[1]
  IN /\ here # <<>> /\ here' = <<>>
     /\ sent' = Append(sent \o held[p.conn], p)
     /\ held' = [held EXCEPT ![p.conn] = <<>>]
\* A packet without payload, or an answer, may overtake what is held.
Overtake ==
  LET p == here[1]
  IN /\ here # <<>> /\ (p.len = 0 \/ p.dir = "reply") /\ here' = <<>>
     /\ sent' = Append(sent, p) /\ UNCHANGED held
Hold ==
  LET p == here[1]
  IN /\ here # <<>> /\ here' = <<>>
     /\ held' = [held EXCEPT ![p.conn] = Append(@, p)] /\ UNCHANGED sent
\* Some of the packets held first are sent.
Release(c, n) ==
  /\ sent' = sent \o SubSeq(held[c], 1, n)
  /\ held' = [held EXCEPT ![c] = SubSeq(@, n + 1, Len(@))]
  /\ UNCHANGED here
\* The packets sent are with the network.
Flush == here = <<>> /\ sent' = <<>> /\ UNCHANGED <<held, here>>

Next ==
  \/ \E forgotten \in SUBSET Connections : Arrive(forgotten)
  \/ Depart \/ Overtake \/ Hold \/ Flush
  \/ \E c \in Connections : \E n \in 1..Len(held[c]) : Release(c, n)
Spec == Init /\ [][Next]_pathVars
=============================================================================
