----------------------------- MODULE QuicDesync -----------------------------
(***************************************************************************)
(* The path of one captured datagram through the engine                    *)
(* (dpi_desync_udp_packet_play of desync.c): tracking, the profile, the    *)
(* reassembly of a QUIC ClientHello out of the CRYPTO frames of several    *)
(* Initial packets, the replay of the held datagrams, and what is done     *)
(* with each of them.                                                      *)
(*                                                                         *)
(* A datagram is [conn, dir, kind, len, frames]; kind is "initial" for a   *)
(* QUIC Initial that decrypts to the frames, "garbled" for one that does   *)
(* not, another protocol the engine knows, "other" or "answer".  Of the    *)
(* lists the model has what they say of the one host of a run, and that    *)
(* changes when they are edited (ProfileSelection and HostLists have the   *)
(* lists, TcpDesync the cache of host names); positions of the flow, TTLs  *)
(* and checksums are left out.                                             *)
(***************************************************************************)
EXTENDS Conntrack, QuicCrypto

CONSTANTS Flows,       \* pairs of addresses and ports
          Strategies,  \* sequence of profiles
          Rules,       \* what clients send and filters let pass: records
                       \* [hello, fits, says] with a handshake [size, sni, host], the profiles
                       \* whose ports and addresses suit, and what their lists say at first
          MaxReasm,    \* UDP_MAX_REASM
          TimeoutUdp

VARIABLES rules,
          says,     \* what the lists of each profile say of the host: "empty" when
                    \* it has none, "listed", "excluded" or "unlisted"
          table,    \* conntrack entries
          plain,    \* frames in the reassembly buffer of each entry
          lastPurge, now,
          pc, cur, replay,
          first,    \* is cur the first datagram of its request (reasm_offset = 0)?
          dp, loc,  \* profile in force; protocol and host found out about cur
          repeats,  \* (ghost) requests of each entry that came again while the lists
                    \* neither named nor excluded their host
          reported, \* profiles that auto_hostlist_failed was called for, of each entry
          out       \* what was sent since the capture: [p, how]

path == <<table, plain, lastPurge, pc, cur, replay, first, dp, loc, repeats, reported, out>>
reports == <<repeats, reported>>

NoHost == "none"
Known == {"wireguard", "dht", "discord", "stun"}
NoLoc == [l7 |-> "unknown", have |-> FALSE, newHost |-> FALSE]
NoDatagram == [conn |-> "none", dir |-> "orig", kind |-> "none", len |-> 0, frames |-> <<>>]
T == table[cur.conn]
Tracked == cur.conn \in DOMAIN table
DP == Strategies[dp]
H == rules.hello

\* A UDP datagram always opens an entry; nothing ever changes its state.
UdpFedEntry(t, p) == [Counted(t, p) EXCEPT !.last = now]
UdpEntry == [NewTrack(now) EXCEPT !.host = NoHost]
UdpFed(tbl, p) ==
  [c \in DOMAIN tbl \cup {p.conn} |->
     IF c # p.conn THEN tbl[c]
     ELSE UdpFedEntry(IF c \in DOMAIN tbl THEN tbl[c] ELSE UdpEntry, p)]
UdpPurged ==
  IF ~PurgeDue(lastPurge, now) THEN table
  ELSE [c \in {d \in DOMAIN table : now - table[d].last < TimeoutUdp} |-> table[c]]

\* Ways a step ends.
After == IF replay THEN "replay" ELSE "done"
As(p, how) == [p |-> p, how |-> how]
AllOrig(q) == [i \in DOMAIN q |-> As(q[i], "orig")]
Real == ~replay
Held == IF replay THEN <<>> ELSE T.delayed
Cancelled(tbl) ==
  IF replay THEN tbl ELSE [tbl EXCEPT ![cur.conn].reasm = NoReasm, ![cur.conn].delayed = <<>>]
CancelledPlain == IF replay THEN plain ELSE [plain EXCEPT ![cur.conn] = <<>>]
SendOrig == out' = Append(out, As(cur, "orig")) /\ pc' = After
\* Mutant: a session that is given up takes its datagrams along.
CancelAndDrop(tbl) ==
  /\ table' = Cancelled(tbl) /\ plain' = CancelledPlain
  /\ out' = Append(out, As(cur, "orig")) /\ pc' = After
CancelAndSendOrig(tbl) ==
  /\ table' = Cancelled(tbl) /\ plain' = CancelledPlain
  /\ out' = Append(out \o AllOrig(Held), As(cur, "orig")) /\ pc' = After

Capture(p) ==
  /\ pc = "idle"
  /\ cur' = p /\ replay' = FALSE /\ first' = TRUE /\ dp' = 0 /\ loc' = NoLoc /\ out' = <<>>
  /\ table' = UdpFed(UdpPurged, p)
  /\ plain' = [c \in Flows |-> IF c \in DOMAIN UdpPurged THEN plain[c] ELSE <<>>]
  /\ repeats' = [c \in Flows |-> IF c \in DOMAIN UdpPurged THEN repeats[c] ELSE 0]
  /\ reported' = [c \in Flows |-> IF c \in DOMAIN UdpPurged THEN reported[c] ELSE <<>>]
  /\ lastPurge' = IF PurgeDue(lastPurge, now) THEN now ELSE lastPurge
  /\ pc' = "find"

\* dp_match and dp_find, as the lists are now: an automatic profile wins at
\* once, one with lists only when they have the host.
Matches(i, l7, host) ==
  /\ i \in rules.fits /\ (Strategies[i].l7 = {} \/ l7 \in Strategies[i].l7)
  /\ Strategies[i].auto \/ says[i] = "empty" \/ (host # NoHost /\ says[i] = "listed")
Finds(i, l7, host) ==
  /\ i # 0 => Matches(i, l7, host)
  /\ \A j \in DOMAIN Strategies : Matches(j, l7, host) => i # 0 /\ i <= j
\* What HostlistCheck finds, and which of it dp_match leaves with the entry:
\* nothing for an automatic profile or one without lists.
Check(v) == [done |-> TRUE, result |-> v = "listed", excluded |-> v = "excluded"]
NoCheck == [done |-> FALSE, result |-> FALSE, excluded |-> FALSE]
\* Mutant: the verdict of an automatic profile is kept, too.
CheckKept(i, host) ==
  IF i # 0 /\ host # NoHost /\ says[i] # "empty" THEN Check(says[i]) ELSE NoCheck
CheckDone(i, host) ==
  IF i # 0 /\ host # NoHost /\ ~Strategies[i].auto /\ says[i] # "empty" THEN Check(says[i])
  ELSE NoCheck

\* The profile, from the entry or searched for; its limits.
EnterAs(i) ==
  LET t == [T EXCEPT !.dp = i, !.dpSearched = TRUE]
      u == MaybeCutoff(t, Strategies[i])
  IN /\ dp' = i
     /\ IF i = 0
        THEN table' = [table EXCEPT ![cur.conn] = t] /\ SendOrig /\ UNCHANGED plain
        ELSE IF cur.dir = "reply"
        THEN table' = [table EXCEPT ![cur.conn] = u] /\ SendOrig /\ UNCHANGED plain
        ELSE IF InInterval(u, Strategies[i])
        THEN table' = [table EXCEPT ![cur.conn] = u] /\ pc' = "payload" /\ UNCHANGED <<plain, out>>
        ELSE CancelAndSendOrig([table EXCEPT ![cur.conn] = u])
Enter ==
  /\ pc = "find"
  /\ IF T.dp # 0 \/ T.dpSearched THEN EnterAs(T.dp)
     ELSE \E i \in 0..Len(Strategies) : Finds(i, T.l7, T.host) /\ EnterAs(i)
  /\ UNCHANGED <<lastPurge, cur, replay, first, loc, reports>>

\* quic_reasm_cancel: an Initial that cannot be read is desynced only as an
\* unknown protocol would be; a replay has no entry to ask.
WithL7(tbl) ==
  IF Real /\ T.l7 = "unknown" THEN [tbl EXCEPT ![cur.conn].l7 = "quic"] ELSE tbl
GiveUpReading(tbl) ==
  IF Real /\ Strategies[T.dp].anyProto
  THEN /\ table' = Cancelled(tbl) /\ plain' = CancelledPlain
       /\ out' = out \o AllOrig(Held)
       /\ loc' = [NoLoc EXCEPT !.l7 = "quic"] /\ pc' = "discover"
  ELSE CancelAndSendOrig(tbl) /\ UNCHANGED loc

\* The frames at hand: those of the whole session in a replay.
Joins == Real /\ ~ReasmIsEmpty(T.reasm)
\* Mutant: the size of the buffer is not looked at.
HasSpaceAnyway == TRUE
HasSpace == T.reasm.have + cur.len <= T.reasm.size
Frames == IF replay THEN plain[cur.conn] ELSE IF Joins THEN plain[cur.conn] \o cur.frames
          ELSE cur.frames
\* What the defragmented handshake is; its first units make it a ClientHello.
IsHello(d) == d.len > 0 /\ d.buf[0] = "data"
HelloFull(d) == IsHello(d) /\ d.len >= H.size
HasHost(d) == H.sni > 0 /\ d.len >= H.sni

\* The entry once the datagram joined the session or opened one.
JoinedReasm == [T.reasm EXCEPT !.have = @ + cur.len]
Opened == [NoReasm EXCEPT !.size = MaxReasm, !.have = cur.len]
HeldWith(reasm) ==
  [WithL7(table) EXCEPT ![cur.conn].reasm = reasm, ![cur.conn].delayed = Append(@, cur)]
Hold(goesOn) ==
  /\ table' = HeldWith(IF Joins THEN JoinedReasm ELSE Opened)
  /\ plain' = [plain EXCEPT ![cur.conn] = Frames]
  /\ pc' = IF goesOn THEN "replay" ELSE "done"
  /\ UNCHANGED <<out, loc>>
\* Mutant: what does not fit is dropped and the session stays.
TooMuchDropped ==
  Joins /\ ~HasSpace /\ pc' = "done" /\ UNCHANGED <<table, plain, out, loc>>
TooMuch == Joins /\ ~HasSpace /\ CancelAndSendOrig(WithL7(table)) /\ UNCHANGED loc
Garbled == Real /\ cur.kind = "garbled" /\ GiveUpReading(WithL7(table))
HelloAtHand(d) ==
  IF ~HasHost(d) /\ DP.skipNoSni THEN CancelAndSendOrig(WithL7(table)) /\ UNCHANGED loc
  ELSE /\ table' = WithL7(table)
       /\ loc' = [NoLoc EXCEPT !.l7 = "quic", !.have = HasHost(d)] /\ pc' = "discover"
       /\ UNCHANGED <<plain, out>>
\* Mutant: the hello that is complete is held like its parts.
FullCoverageHeld(d) ==
  IF Real /\ (Joins \/ (IsHello(d) /\ ~HelloFull(d))) THEN Hold(FALSE)
  ELSE IF IsHello(d) THEN HelloAtHand(d)
  ELSE GiveUpReading(WithL7(table))
FullCoverage(d) ==
  IF Real /\ (Joins \/ (IsHello(d) /\ ~HelloFull(d))) THEN Hold(HelloFull(d))
  ELSE IF IsHello(d) THEN HelloAtHand(d)
  ELSE GiveUpReading(WithL7(table))
Decrypted(d) ==
  IF ~d.found THEN GiveUpReading(WithL7(table))
  ELSE IF d.full THEN FullCoverage(d)
  ELSE IF Real THEN Hold(FALSE)
  ELSE GiveUpReading(WithL7(table))
Initial ==
  /\ pc = "payload" /\ cur.len > 0 /\ cur.kind \in {"initial", "garbled"}
  /\ \/ Garbled
     \/ (Real => cur.kind = "initial") /\ TooMuch
     \/ (Real => cur.kind = "initial") /\ ~(Joins /\ ~HasSpace)
        /\ \E d \in {Defrag(Frames)} : Decrypted(d)
  /\ UNCHANGED <<lastPurge, cur, replay, first, dp, reports>>

\* Anything else ends the session, and counts as a sign of life of the server.
NotInitial ==
  LET t == [StopRetrans(T, DP) EXCEPT !.l7 = IF @ = "unknown" /\ cur.kind \in Known THEN cur.kind ELSE @]
      tbl == [table EXCEPT ![cur.conn] = t]
  IN /\ pc = "payload" /\ cur.len > 0 /\ cur.kind \notin {"initial", "garbled"}
     /\ IF cur.kind \in Known \/ DP.anyProto
        THEN /\ table' = Cancelled(tbl) /\ plain' = CancelledPlain
             /\ out' = out \o AllOrig(Held) /\ pc' = "discover"
             /\ loc' = [NoLoc EXCEPT !.l7 = IF cur.kind \in Known THEN cur.kind ELSE "unknown"]
        ELSE CancelAndSendOrig(tbl) /\ UNCHANGED loc
     /\ UNCHANGED <<lastPurge, cur, replay, first, dp, reports>>

\* A datagram without payload passes, and the session stays.
Empty ==
  /\ pc = "payload" /\ cur.len = 0 /\ SendOrig
  /\ UNCHANGED <<table, plain, lastPurge, cur, replay, first, dp, loc, reports>>

\* replay_queue and reasm_orig_fin.
NextHeld ==
  /\ pc = "replay" /\ T.delayed # <<>>
  /\ cur' = Head(T.delayed) /\ replay' = TRUE /\ first' = ~replay
  /\ table' = [table EXCEPT ![cur.conn].delayed = Tail(@)]
  /\ loc' = NoLoc /\ dp' = T.dp
  /\ IF T.dp = 0 THEN out' = Append(out, As(Head(T.delayed), "orig")) /\ pc' = "replay"
     ELSE pc' = "payload" /\ UNCHANGED out
  /\ UNCHANGED <<plain, lastPurge, reports>>
ReplayOver ==
  /\ pc = "replay" /\ T.delayed = <<>>
  /\ table' = [table EXCEPT ![cur.conn].reasm = NoReasm]
  /\ plain' = [plain EXCEPT ![cur.conn] = <<>>]
  /\ replay' = FALSE /\ pc' = "done"
  /\ UNCHANGED <<lastPurge, cur, first, dp, loc, reports, out>>

\* A protocol or host seen for the first time may change the profile, and its
\* limits apply at once, except in a replay.
FindsL7 == ~T.l7Found /\ T.l7 # "unknown"
FindsHost == loc.have /\ ~T.hostFound
Found == [T EXCEPT !.l7Found = @ \/ FindsL7, !.hostFound = @ \/ FindsHost,
                   !.host = IF FindsHost THEN H.host ELSE @]
RediscoverAs(t, i) ==
  LET u == [t EXCEPT !.dp = i, !.dpSearched = TRUE, !.check = CheckDone(i, t.host)]
      v == IF Real /\ i \notin {0, dp} THEN MaybeCutoff(u, Strategies[i]) ELSE u
      tbl == [table EXCEPT ![cur.conn] = v]
  IN /\ dp' = i
     /\ IF i = 0 \/ (Real /\ i # dp /\ ~InInterval(v, Strategies[i]))
        THEN CancelAndSendOrig(tbl)
        ELSE table' = tbl /\ pc' = "check" /\ UNCHANGED <<plain, out>>
Discover ==
  /\ pc = "discover"
  /\ IF FindsL7 \/ FindsHost
     THEN \E i \in 0..Len(Strategies) : Finds(i, Found.l7, Found.host) /\ RediscoverAs(Found, i)
     ELSE pc' = "check" /\ UNCHANGED <<table, plain, dp, out>>
  /\ loc' = [loc EXCEPT !.newHost = FindsHost]
  /\ UNCHANGED <<lastPurge, cur, replay, first, reports>>

\* The host lists, by the verdict kept with the entry or by a new one. A request
\* that is neither listed nor excluded is watched by an automatic profile; asking
\* again for the same host counts as a failure.
Verdict == IF T.check.done THEN T.check ELSE Check(says[dp])
Asked(t) == [t EXCEPT !.retrans = @ + 1]
Fires(t) == t.retrans # Stop /\ t.retrans + 1 >= DP.retrans
CountsAsRepeat == DP.auto /\ ~Verdict.excluded /\ ~loc.newHost /\ first
Unlisted ==
  LET t == [T EXCEPT !.ahCheck = DP.auto /\ ~Verdict.excluded]
      u == IF ~CountsAsRepeat \/ t.retrans = Stop THEN t
           ELSE IF Fires(t) THEN StopRetrans(t, DP) ELSE Asked(t)
  IN /\ table' = [table EXCEPT ![cur.conn] = u]
     /\ reported' = IF CountsAsRepeat /\ Fires(t) THEN [reported EXCEPT ![cur.conn] = Append(@, dp)]
                    ELSE reported
     /\ SendOrig
\* (ghost) Before anything of a request leaves that is not the first of its
\* entry; more than the profile waits for are not told apart.
Repeated ==
  IF says[dp] = "unlisted" /\ ~loc.newHost /\ out = <<>> /\ repeats[cur.conn] < DP.retrans
  THEN [repeats EXCEPT ![cur.conn] = @ + 1] ELSE repeats
CheckHost ==
  /\ pc = "check"
  /\ IF loc.have /\ says[dp] # "empty" /\ ~Verdict.result THEN Unlisted /\ repeats' = Repeated
     ELSE /\ table' = IF loc.have /\ says[dp] # "empty" THEN [table EXCEPT ![cur.conn] = StopRetrans(@, DP)]
                      ELSE table
          /\ pc' = "act" /\ UNCHANGED <<reports, out>>
  /\ UNCHANGED <<plain, lastPurge, cur, replay, first, dp, loc>>

\* First stage: fakes go before the first datagram of a request only. Second
\* stage: the datagram is replaced by a changed one, or by two fragments; when
\* that fails it goes out as it is.
\* Mutant: fakes before every held datagram.
FakesAnyway == DP.mode = "fake" \/ (DP.mode = "fakeknown" /\ loc.l7 # "unknown")
Fakes ==
  first /\ (DP.mode = "fake" \/ (DP.mode = "fakeknown" /\ loc.l7 # "unknown"))
SecondStage ==
  CASE DP.mode2 \in {"udplen", "ipfrag2"} -> {"changed", "orig"}
    [] DP.mode2 = "tamper" /\ cur.kind = "dht" -> {"changed", "orig"}
    [] OTHER -> {"orig"}
Act ==
  /\ pc = "act"
  /\ \/ /\ ~Fakes
        /\ \E how \in SecondStage : out' = Append(out, As(cur, how))
     \/ /\ Fakes
        /\ \E how \in SecondStage : out' = out \o <<As(cur, "fake"), As(cur, how)>>
     \/ Fakes /\ out' = Append(out, As(cur, "orig"))   \* a fake could not be sent
  /\ pc' = After
  /\ UNCHANGED <<table, plain, lastPurge, cur, replay, first, dp, loc, reports>>
=============================================================================
