----------------------------- MODULE TcpDesync -----------------------------
(***************************************************************************)
(* The path of one captured TCP packet through the engine                  *)
(* (dpi_desync_tcp_packet_play of desync.c): tracking, choice of the       *)
(* profile, inbound checks, reassembly of a TLS ClientHello that spans     *)
(* several segments, replay of the held segments, and the decision to      *)
(* leave the packet alone or to send it in pieces.                         *)
(*                                                                         *)
(* The engine has one thread; pc is the place in the handler between two   *)
(* steps, at which list files on disk may change under it. What the pieces *)
(* look like is SplitSegments' subject; here a packet leaves "orig" (as it *)
(* was, or with its TTL, window or HTTP spelling changed) or "split".      *)
(***************************************************************************)
EXTENDS Conntrack, ProfileSelection

CONSTANTS Conns,        \* connections, each a pair of addresses and ports
          Streams,      \* what the clients may send: functions from Conns to records
                        \* [l7, hello, sni, host, total, to]: to is the server
          MaxReasm,     \* TCP_MAX_REASM
          CacheHosts,   \* params.cache_hostname
          CacheLifetime,
          ClientOf      \* [Conns -> target of the answers]

VARIABLES table,      \* conntrack entries of the open connections
          lastPurge,  \* t_last_purge
          mem,        \* host lists and address sets in memory
          disk,       \* the files they come from
          fails,      \* failure counters of each profile
          failPurge,  \* host_fail_purge_prev
          ipcache,    \* host name last seen at an address, and when
          now,        \* time()
          stream,     \* what each client sends (ghost: content of the payloads)
          pc, cur,    \* place in the handler, packet it works on
          replay,     \* is cur a held packet that is played again?
          dp,         \* profile in force
          loc,        \* what the handler found out about cur
          back,       \* where auto_hostlist_failed returns to
          out         \* packets sent since the capture, in order

engine == <<table, lastPurge, mem, fails, failPurge, ipcache, pc, cur, replay, dp, loc, back, out>>
world == <<disk, now, stream>>

T == table[cur.conn]
Tracked == cur.conn \in DOMAIN table
DP == Profiles[dp]
Target(p) == IF p.dir = "orig" THEN stream[p.conn].to ELSE ClientOf[p.conn]

NoLoc == [l7 |-> "unknown", have |-> FALSE, at |-> 0, len |-> 0, check |-> NoCheck]
NoPacket == [conn |-> "none", dir |-> "orig", kind |-> "none", seq |-> 0, ack |-> 0, len |-> 0, at |-> 0]

\* Ways a step ends. A cancelled session sends what was held first; while a
\* held packet is played again the handler has no entry to cancel.
Cancelled(t) == [t EXCEPT !.reasm = NoReasm, !.delayed = <<>>]
Held == IF replay \/ ~Tracked THEN <<>> ELSE T.delayed
CancelIn(tbl) ==
  IF replay \/ ~Tracked THEN tbl ELSE [tbl EXCEPT ![cur.conn] = Cancelled(@)]
AsOrig(p) == [p |-> p, how |-> "orig"]
AllOrig(q) == [i \in DOMAIN q |-> AsOrig(q[i])]
After == IF replay THEN "replay" ELSE "done"
SendOrig == /\ out' = Append(out, AsOrig(cur))
            /\ pc' = After
\* Mutant: the packet leaves before those held back.
SendOrigAndCancel(tbl) ==
  /\ table' = CancelIn(tbl)
  /\ out' = Append(out, AsOrig(cur)) \o AllOrig(Held)
  /\ pc' = After
CancelAndSendOrig(tbl) ==
  /\ table' = CancelIn(tbl)
  /\ out' = Append(out \o AllOrig(Held), AsOrig(cur))
  /\ pc' = After

\* dpi_desync_packet and the start of the handler: the host cache and the
\* table are purged, then the packet is counted in its entry.
IpcachePurged ==
  IF CacheLifetime = 0 THEN ipcache
  ELSE [a \in {b \in DOMAIN ipcache : ipcache[b].last + CacheLifetime > now} |-> ipcache[a]]
Capture(p) ==
  /\ pc = "idle"
  /\ cur' = p /\ replay' = FALSE /\ dp' = 0 /\ loc' = NoLoc /\ out' = <<>>
  /\ ipcache' = IpcachePurged
  /\ table' = Fed(Purged(table, lastPurge, now), p, now)
  /\ lastPurge' = IF PurgeDue(lastPurge, now) THEN now ELSE lastPurge
  /\ pc' = "find"
  /\ UNCHANGED <<mem, fails, failPurge, back>>

\* The cached profile, or a search with the host name known so far: the one of
\* the connection, or for an outgoing packet the last name seen at its address.
CachedHost ==
  LET a == Target(cur).addr
  IN IF CacheHosts /\ a \in DOMAIN ipcache THEN ipcache[a].host ELSE NoHost
KnownHost ==
  IF ~Tracked THEN NoHost
  ELSE IF T.host = NoHost /\ cur.dir = "orig" THEN CachedHost ELSE T.host
UseCached ==
  /\ Tracked /\ (T.dp # 0 \/ T.dpSearched)
  /\ dp' = T.dp
  /\ UNCHANGED <<table, mem, ipcache>>
Searched(found) ==
  LET looked == Tracked /\ CacheHosts /\ T.host = NoHost /\ cur.dir = "orig"
      a == Target(cur).addr
  IN /\ dp' = found.dp /\ mem' = found.mem
     /\ table' = IF Tracked
                 THEN [table EXCEPT ![cur.conn].dp = found.dp,
                                    ![cur.conn].dpSearched = TRUE,
                                    ![cur.conn].host = KnownHost]
                 ELSE table
     /\ ipcache' = IF ~looked THEN ipcache
                   ELSE [b \in DOMAIN ipcache \cup {a} |->
                           IF b = a THEN [host |-> CachedHost, last |-> now] ELSE ipcache[b]]
Search ==
  /\ ~(Tracked /\ (T.dp # 0 \/ T.dpSearched))
  /\ Searched(DpFind(mem, disk, Target(cur), KnownHost, IF Tracked THEN T.l7 ELSE "unknown"))
FindProfile ==
  /\ pc = "find"
  /\ UseCached \/ Search
  /\ IF dp' # 0 THEN pc' = "limits" /\ UNCHANGED out ELSE SendOrig
  /\ UNCHANGED <<lastPurge, fails, failPurge, cur, replay, loc, back>>

\* The limits of the profile, and the old failure counters: at most once per
\* second, for whichever profile comes first in that second. Without an entry
\* an answer cannot be told from an outgoing packet, and goes the way of one.
Limits ==
  /\ pc = "limits"
  /\ table' = IF Tracked THEN [table EXCEPT ![cur.conn] = MaybeCutoff(@, DP)] ELSE table
  /\ failPurge' = now
  /\ fails' = IF failPurge = now THEN fails
              ELSE [fails EXCEPT ![dp] = HostFailPoolPurge(@, now)]
  /\ pc' = IF Tracked /\ cur.dir = "reply" THEN "inbound" ELSE "gate"
  /\ UNCHANGED <<lastPurge, mem, ipcache, cur, replay, dp, loc, back, out>>

\* auto_hostlist_failed and auto_hostlist_reset_fail_counter for profile d;
\* back remembers the host that failed and where the handler goes on.
CountFail(d, h, return) ==
  /\ fails' = [fails EXCEPT ![d] = AfterFail(@, h, Profiles[d], now)]
  /\ pc' = IF ThresholdReached(fails[d], h, Profiles[d], now) THEN "recheck" ELSE return
  /\ back' = [host |-> h, to |-> return]
ResetFail(d, h) == fails' = [fails EXCEPT ![d] = HostFailPoolDel(@, h)]

\* Answers: the first of them after the request, or a reset, decides whether
\* the request looks blocked.
FirstAnswer == Tracked /\ T.host # NoHost /\ T.ahCheck /\ Dist(T.ackLast, T.ack0) = 1
LooksBlocked == cur.kind = "rst" \/ (cur.kind = "redirect" /\ T.l7 = "http")
Answered ==
  /\ FirstAnswer
  /\ table' = IF cur.kind = "rst" THEN [table EXCEPT ![cur.conn].host = NoHost] ELSE table
  /\ IF LooksBlocked THEN CountFail(dp, T.host, "done")
     ELSE /\ IF cur.len > 0 THEN ResetFail(dp, T.host) ELSE UNCHANGED fails
          /\ pc' = "done" /\ UNCHANGED back
Unremarkable == ~FirstAnswer /\ pc' = "done" /\ UNCHANGED <<table, fails, back>>
Inbound ==
  /\ pc = "inbound"
  /\ out' = Append(out, AsOrig(cur))
  /\ Answered \/ Unremarkable
  /\ UNCHANGED <<lastPurge, mem, failPurge, ipcache, cur, replay, dp, loc>>

\* The threshold is reached: the lists are read again, and the host joins the
\* automatic list, in memory and then in its file, unless it is found there.
RecheckFailed ==
  /\ pc = "recheck"
  /\ mem' = Recheck(mem, disk, DP)
  /\ pc' = IF ToBeAdded(mem, disk, DP, back.host) THEN "append" ELSE back.to
  /\ UNCHANGED <<table, lastPurge, fails, failPurge, ipcache, cur, replay, dp, loc, back, out>>
\* The append may fail: then the signature is not taken.
Appended(f) ==
  LET content == PoolAdd(disk[f].content, back.host, FALSE)
  IN [disk EXCEPT ![f] = [disk[f] EXCEPT !.content = content, !.mtime = now, !.there = TRUE]]
AppendHost ==
  /\ pc = "append"
  /\ mem' = [mem EXCEPT ![DP.auto].pool = PoolAdd(@, back.host, FALSE)]
  /\ \/ disk[DP.auto].readable /\ disk' = Appended(DP.auto) /\ pc' = "sign"
     \/ ~disk[DP.auto].readable /\ pc' = back.to /\ UNCHANGED disk
  /\ UNCHANGED <<table, lastPurge, fails, failPurge, ipcache, cur, replay, dp, loc, back, out>>
SignList ==
  /\ pc = "sign"
  /\ mem' = [mem EXCEPT ![DP.auto].sig = IF disk[DP.auto].there THEN Stat(disk[DP.auto]) ELSE NoSig]
  /\ pc' = back.to
  /\ UNCHANGED <<table, lastPurge, fails, failPurge, ipcache, cur, replay, dp, loc, back, out>>

\* Outgoing packets outside the limits of the profile, and those without
\* payload, are not touched. A SYN may be replaced by one with data.
Desyncs ==
  IF Tracked THEN InInterval(T, DP) ELSE DP.start = 0 /\ DP.cutoff = 0
Gate ==
  /\ pc = "gate"
  /\ \/ ~Desyncs /\ CancelAndSendOrig(table)
     \/ /\ Desyncs
        /\ IF cur.len > 0 /\ cur.kind # "syn"
           THEN pc' = "payload" /\ UNCHANGED <<table, out>>
           ELSE SendOrig /\ UNCHANGED table
  /\ UNCHANGED <<lastPurge, mem, fails, failPurge, ipcache, cur, replay, dp, loc, back>>

\* A segment in sequence joins the reassembly buffer; any other ends the
\* session and the held packets leave.
Joins == Tracked /\ ~ReasmIsEmpty(T.reasm) /\ ReasmAccepts(T.reasm, cur.seq)
Breaks == Tracked /\ ~ReasmIsEmpty(T.reasm) /\ ~ReasmAccepts(T.reasm, cur.seq)
Reassembled(t) ==
  IF Joins THEN [t EXCEPT !.reasm = ReasmFed(@, cur.len)]
  ELSE IF Breaks THEN Cancelled(t) ELSE t
Seen == IF Joins THEN [at |-> T.reasm.at, len |-> T.reasm.have + Room(T.reasm, cur.len)]
        ELSE [at |-> cur.at, len |-> cur.len]
\* Mutant: the held packets of a broken session are dropped.
FreedNothing == <<>>
Freed == IF Breaks THEN AllOrig(T.delayed) ELSE <<>>
\* Retransmissions of a watched request are counted; a packet past it proves
\* that the site answers.
RetransCounts == Tracked /\ T.host # NoHost /\ Watched(T)
Payload ==
  /\ pc = "payload"
  /\ table' = IF ~Tracked THEN table
              ELSE [table EXCEPT ![cur.conn] =
                      IF RetransCounts THEN AfterRetrans(Reassembled(T), DP) ELSE Reassembled(T)]
  /\ out' = out \o Freed
  /\ loc' = [NoLoc EXCEPT !.at = Seen.at, !.len = Seen.len]
  /\ IF RetransCounts /\ RetransFires(T, DP) THEN CountFail(dp, T.host, "classify")
     ELSE /\ IF RetransCounts /\ ~InRequest(T) THEN ResetFail(dp, T.host) ELSE UNCHANGED fails
          /\ pc' = "classify" /\ UNCHANGED back
  /\ UNCHANGED <<lastPurge, mem, failPurge, ipcache, cur, replay, dp>>

-----------------------------------------------------------------------------
\* What the payload (or the reassembled request) looks like. A ClientHello is
\* recognised by its first segment, the host name once the part that holds it
\* is there; HTTP is never reassembled.
S == stream[cur.conn]
IsHttp == S.l7 = "http" /\ loc.at = 1 /\ loc.len > 0
IsTLSClientHello == S.l7 = "tls" /\ loc.at = 1 /\ loc.len > 0
HasHost == S.sni > 0 /\ loc.len >= S.sni
IsFull == loc.len >= S.hello
WithL7(t, l7) == IF t.l7 = "unknown" THEN [t EXCEPT !.l7 = l7] ELSE t
Real == Tracked /\ ~replay

ClassifyHttp ==
  LET t == WithL7(Cancelled(T), "http")
      u == IF DP.noForced THEN t ELSE ForcedWsizeCut(t, DP)
  IN /\ IsHttp
     /\ table' = IF Real THEN [table EXCEPT ![cur.conn] = IF HasHost THEN HttpRequestSeen(u) ELSE u]
                 ELSE table
     /\ loc' = [loc EXCEPT !.l7 = "http", !.have = HasHost]
     /\ out' = (out \o AllOrig(Held)) \o (IF HasHost THEN <<>> ELSE <<AsOrig(cur)>>)
     /\ pc' = IF HasHost THEN "discover" ELSE After

\* A partial ClientHello opens a session, unless it is a retransmission of a
\* request seen in full or the request has been given up.
Starts(t) == /\ ~IsFull /\ ReasmIsEmpty(t.reasm) /\ ~t.reqGone
             /\ ~(t.reqFinal /\ SeqWithin(t.seqLast, t.reqStart, t.reqEnd))
TooLarge == S.hello > MaxReasm
HelloSeen(t) ==
  LET t1 == WithL7(t, "tls")
      t2 == IF Starts(t) THEN [t1 EXCEPT !.reasm = ReasmStarted(S.hello, cur)] ELSE t1
      t3 == RequestSeen(t2, IsFull)
  IN IF ~DP.noForced /\ (IsFull \/ ReasmIsEmpty(t3.reasm)) THEN ForcedWsizeCut(t3, DP) ELSE t3
NoHostSkipped == DP.skipNoSni /\ ~HasHost
HoldHello ==
  LET t == HelloSeen(T)
  IN /\ Real /\ ~(Starts(T) /\ TooLarge) /\ ~ReasmIsEmpty(t.reasm)
     /\ table' = [table EXCEPT ![cur.conn] = [t EXCEPT !.delayed = Append(@, cur)]]
     /\ pc' = IF ReasmIsFull(t.reasm) THEN "replay" ELSE "done"
     /\ UNCHANGED <<out, loc>>
HelloTooLarge ==
  /\ Real /\ Starts(T) /\ TooLarge
  /\ CancelAndSendOrig([table EXCEPT ![cur.conn] = WithL7(@, "tls")])
  /\ UNCHANGED loc
HelloAtHand ==
  LET tbl == IF Real THEN [table EXCEPT ![cur.conn] = HelloSeen(@)] ELSE table
  IN /\ Real => ~Starts(T) /\ ReasmIsEmpty(T.reasm)
     /\ IF NoHostSkipped THEN CancelAndSendOrig(tbl) /\ UNCHANGED loc
        ELSE /\ table' = tbl
             /\ loc' = [loc EXCEPT !.l7 = "tls", !.have = HasHost]
             /\ pc' = "discover" /\ UNCHANGED out
ClassifyTls == IsTLSClientHello /\ (HoldHello \/ HelloTooLarge \/ HelloAtHand)
ClassifyOther ==
  /\ ~IsHttp /\ ~IsTLSClientHello
  /\ pc' = "discover" /\ UNCHANGED <<table, loc, out>>
Classify ==
  /\ pc = "classify"
  /\ ClassifyHttp \/ ClassifyTls \/ ClassifyOther
  /\ UNCHANGED <<lastPurge, mem, fails, failPurge, ipcache, cur, replay, dp, back>>

\* replay_queue: the held packets go through the handler again, each with the
\* whole request at hand; then the session is over.
NextHeld ==
  /\ pc = "replay" /\ T.delayed # <<>>
  /\ cur' = Head(T.delayed) /\ replay' = TRUE
  /\ table' = [table EXCEPT ![cur.conn].delayed = Tail(@)]
  /\ loc' = [NoLoc EXCEPT !.at = T.reasm.at, !.len = T.reasm.have]
  /\ \/ /\ T.dp # 0 /\ dp' = T.dp /\ pc' = "classify" /\ UNCHANGED out
     \/ /\ T.dp = 0 /\ T.dpSearched /\ dp' = 0
        /\ out' = Append(out, AsOrig(Head(T.delayed))) /\ pc' = "replay"
  /\ UNCHANGED <<lastPurge, mem, fails, failPurge, ipcache, back>>
ReplayOver ==
  /\ pc = "replay" /\ T.delayed = <<>>
  /\ table' = [table EXCEPT ![cur.conn] = Cancelled(@)]
  /\ replay' = FALSE /\ pc' = "done"
  /\ UNCHANGED <<lastPurge, mem, fails, failPurge, ipcache, cur, dp, loc, back, out>>

\* A protocol or a host name found out for the first time: the profile is
\* looked for again, and its limits apply at once, though not in a replay.
Passed == IF Real THEN [table EXCEPT ![cur.conn] = RequestPassed(@)] ELSE table
FindsL7 == IF Tracked THEN ~T.l7Found /\ T.l7 # "unknown" ELSE loc.l7 # "unknown"
\* Mutant: a name taken from the cache of addresses is good enough.
FindsFirstHost == loc.have /\ ~(Tracked /\ T.host # NoHost)
FindsHost == loc.have /\ ~(Tracked /\ T.hostFound)
HostNow == IF Tracked THEN (IF FindsHost THEN S.host ELSE T.host)
           ELSE IF loc.have THEN S.host ELSE NoHost
L7Now == IF Tracked THEN T.l7 ELSE loc.l7
PutHost == Tracked /\ FindsHost /\ CacheHosts
Rediscovered(found) ==
  LET t == [(IF Real THEN RequestPassed(T) ELSE T) EXCEPT
              !.l7Found = @ \/ FindsL7, !.host = HostNow, !.hostFound = @ \/ FindsHost,
              !.dp = found.dp, !.dpSearched = TRUE,
              !.check = CheckDone(found.mem, found.dp, HostNow)]
  IN IF Real /\ found.dp \notin {0, dp} THEN MaybeCutoff(t, Profiles[found.dp]) ELSE t
OutsideLimits(found, t) == /\ found.dp # dp /\ ~replay
                           /\ IF Tracked THEN ~InInterval(t, Profiles[found.dp])
                              ELSE Profiles[found.dp].start > 0 \/ Profiles[found.dp].cutoff > 0
RediscoverAs(found) ==
  LET tbl == IF Tracked THEN [table EXCEPT ![cur.conn] = Rediscovered(found)] ELSE table
      a == Target(cur).addr
  IN /\ mem' = found.mem /\ dp' = found.dp
     /\ ipcache' = IF ~PutHost THEN ipcache
                   ELSE [b \in DOMAIN ipcache \cup {a} |->
                           IF b = a THEN [host |-> S.host, last |-> now] ELSE ipcache[b]]
     /\ loc' = [loc EXCEPT !.check = CheckDone(found.mem, found.dp, HostNow)]
     /\ IF found.dp = 0 \/ OutsideLimits(found, Rediscovered(found))
        THEN CancelAndSendOrig(tbl)
        ELSE table' = tbl /\ pc' = "check" /\ UNCHANGED out
Rediscover ==
  /\ FindsL7 \/ FindsHost
  /\ RediscoverAs(DpFind(mem, disk, Target(cur), HostNow, L7Now))
NothingNew ==
  /\ ~FindsL7 /\ ~FindsHost
  /\ table' = Passed
  /\ loc' = [loc EXCEPT !.check = IF Tracked THEN T.check ELSE NoCheck]
  /\ pc' = "check" /\ UNCHANGED <<mem, dp, ipcache, out>>
Discover ==
  /\ pc = "discover"
  /\ Rediscover \/ NothingNew
  /\ UNCHANGED <<lastPurge, fails, failPurge, cur, replay, back>>

\* The host must be on the lists of the profile; a host on neither list of an
\* automatic profile is watched from now on.
Listed(m) == HostlistsReloadOk(mem, disk, DP.incl, DP.excl)
             /\ HostlistCheck(m, DP.incl, DP.excl, S.host)
Excludes(m) == HostlistsReloadOk(mem, disk, DP.incl, DP.excl) /\ Excluded(m, DP.excl, S.host)
ListsRule == loc.have /\ ~HostlistsEmpty(mem, DP)
Watch(t, m) == [t EXCEPT !.ahCheck = DP.auto # NoFile /\ ~Excludes(m)]
CheckHost ==
  LET m == IF loc.check.done THEN mem ELSE Recheck(mem, disk, DP)
      listed == IF loc.check.done THEN loc.check.result ELSE Listed(m)
  IN /\ pc = "check"
     /\ IF ~ListsRule THEN pc' = "act" /\ UNCHANGED <<table, mem, out>>
        ELSE /\ mem' = m
             /\ IF listed
                THEN /\ table' = IF Tracked THEN [table EXCEPT ![cur.conn] = StopRetrans(@, DP)] ELSE table
                     /\ pc' = "act" /\ UNCHANGED out
                ELSE CancelAndSendOrig(
                       IF Tracked THEN [table EXCEPT ![cur.conn] = Watch(@, m)] ELSE table)
     /\ UNCHANGED <<lastPurge, fails, failPurge, ipcache, cur, replay, dp, loc, back>>

\* The desync itself: an unknown protocol only when the profile says so. The
\* pieces replace the packet; when one of them cannot be sent the packet itself
\* goes out too.
Applies == (loc.l7 # "unknown" \/ DP.anyProto) /\ DP.mode # "none"
Act ==
  /\ pc = "act"
  /\ table' = CancelIn(table)
  /\ \E how \in IF Applies THEN {"split", "orig"} ELSE {"orig"} :
       out' = Append(out \o AllOrig(Held), [p |-> cur, how |-> how])
  /\ pc' = After
  /\ UNCHANGED <<lastPurge, mem, fails, failPurge, ipcache, cur, replay, dp, loc, back>>
=============================================================================
