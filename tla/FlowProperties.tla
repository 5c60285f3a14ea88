--------------------------- MODULE FlowProperties ---------------------------
(***************************************************************************)
(* What the path of TCP packets through the engine must do.                *)
(***************************************************************************)
EXTENDS Flow

Kinds == {"syn", "synack", "data", "ack", "fin", "rst", "redirect", "none"}
Packet == [conn : Conns \cup {"none"}, dir : {"orig", "reply"}, kind : Kinds,
           seq : 0..(SeqSpace - 1), ack : 0..(SeqSpace - 1), len : Nat, at : Nat]

\* Held packets are the request being reassembled: between two captures there
\* are some only while the session is open and incomplete, the first is where
\* the session began, each continues the one before, and together they are what
\* the buffer holds (reasm_orig_start, reasm_orig_feed, reasm_orig_stop).
HeldIsReassembled ==
  pc = "idle" => \A c \in DOMAIN table :
    LET q == table[c].delayed
        r == table[c].reasm
        last == q[Len(q)]
    IN /\ q # <<>> <=> ~ReasmIsEmpty(r)
       /\ q # <<>> => /\ ~ReasmIsFull(r)
                      /\ q[1].at = r.at
                      /\ \A i \in 2..Len(q) : q[i].at = q[i - 1].at + q[i - 1].len
                      /\ last.at + last.len = r.at + r.have /\ r.seq = Mod(last.seq + last.len)

\* The packets as PacketPath sees them.
InReplay == replay /\ pc \notin {"replay", "done", "idle"}
Answering == pc \in {"recheck", "append", "sign"} /\ back.to = "done"
Holding ==
  [c \in Conns |-> IF c \notin DOMAIN table THEN <<>>
                  ELSE IF InReplay /\ c = cur.conn THEN <<cur>> \o table[c].delayed
                  ELSE table[c].delayed]
AtHand == IF replay \/ pc \in {"idle", "done", "replay"} \/ Answering THEN <<>> ELSE <<cur>>
Sends(q) == [i \in DOMAIN q |-> q[i].p]
Path == INSTANCE PacketPath WITH
  Connections <- Conns, Packets <- Packet, held <- Holding, here <- AtHand, sent <- Sends(out)
\* Every captured packet leaves exactly once or is held, the held ones in order
\* and before later payload.
KeepsPackets == Path!Spec

\* However a ClientHello is cut into segments, held back and repeated, the
\* server gets all of a request unless the connection is reset.
RequestDelivered ==
  \A c \in Conns : []<>(client[c].st \in {"closed", "answered"})

-----------------------------------------------------------------------------
\* The lists.

\* What the engine believes it has read it has read: a list whose signature is
\* that of its file holds the file's entries, except between the append to an
\* automatic list and the new signature (LoadHostList, HostlistsReloadCheck).
SignatureMeansContent ==
  \A f \in Files \ Inline :
    LET e == mem[f] IN
    (e.sig = Stat(disk[f]) /\ ~(pc = "sign" /\ f = DP.auto)) =>
      {k \in DOMAIN e.pool : k # Impossible} = DOMAIN disk[f].content

\* Lists admit a host: some include list has it or none has entries, and no
\* exclude list has it.
ExcludesHost(d, h) == Excluded(mem, d.excl, h)
\* Whatever name was cached for the address and whatever profile was in force
\* before, a request of a known host is cut only by a profile that does not
\* exclude the host (ipcache_get_hostname, dp_find and ah_check of the handler).
\* An edit later than the check is not seen by the connection any more.
ExcludedNeverSplit ==
  pc = "done" /\ edits = 0 /\ loc.have /\ (\E i \in DOMAIN out : out[i].how = "split") =>
    ~ExcludesHost(DP, S.host)
\* The profile that acts on a request is the one the search finds with the real
\* name and protocol, although the connection was given one before they were
\* known (and a name seen earlier at the address may have chosen it).
ProfileFitsHost ==
  pc = "act" /\ edits = 0 /\ Tracked /\ loc.have =>
    dp = DpFind(mem, disk, Target(cur), S.host, T.l7).dp

\* A host is added to an automatic list only when no list of the profile knows
\* it, by what the engine has just read.
LearnedIsNew ==
  [][AppendHost => /\ ~InCollection(mem, DP.incl, back.host)
                   /\ ~ExcludesHost(DP, back.host)]_vars
=============================================================================
