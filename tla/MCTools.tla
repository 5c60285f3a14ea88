------------------------------ MODULE MCTools ------------------------------
(***************************************************************************)
(* The parts of the engine beside the packet path, each for itself: the    *)
(* command lines, the loop of winws around the networks, the start of the  *)
(* listening proxy, the tools mdig and ip2net, and the pieces a request is *)
(* split into on their way to the server (PieceSender).                    *)
(***************************************************************************)
EXTENDS CommandLines, CaptureLoop, ProxyListen, NameLookups, AddressCover

CONSTANTS ListA, ListB, ListGone, DomA, DomB
VARIABLE sys   \* the part that runs

CONSTANTS IdSpace, MaxFake, Margin, MaxFails, MaxLosses
VARIABLES set, session, idx, savedId, plan, fate, gen, net, srv, fails, losses
pieces == <<set, session, idx, savedId, plan, fate, gen, net, srv, fails, losses>>
Shapes == INSTANCE PieceSetups
SomeSetups == Shapes!All
ASetup == CHOOSE s \in SomeSetups : TRUE
Pieces == INSTANCE PieceSender WITH Setups <- SomeSetups

Opt(o, x, a) == [o |-> o, x |-> x, a |-> a]
NewOpt == Opt("new", "", 0)
SkipOpt == Opt("skip", "", 0)
Setting(x, a) == Opt("setting", x, a)
Port(n) == [from |-> n, to |-> n, neg |-> FALSE]
At(m, n) == [m |-> m, at |-> n]
Hello(n, sni, pad) ==
  [src |-> "file", size |-> n, ofs |-> 0, hello |-> TRUE, exts |-> TRUE, sni |-> sni,
   pad |-> pad, rec |-> n - 5, hs |-> n - 9, ext |-> n - 100]
File(n, ofs) == [src |-> "file", size |-> n, ofs |-> ofs]
Words(mods, name) == [mods |-> mods, name |-> name]

SettingOptions ==
  {NewOpt, SkipOpt, Setting("ttl", 261), Setting("ttl6", 7), Setting("ttl6", 255), Setting("repeats", 1024),
   Setting("repeats", 1025), Setting("fooling", {"badsum"}), Setting("fooling", {"ts", "badsum"}),
   Setting("hostspell", 4), Setting("hostnospace", TRUE), Setting("methodeol", TRUE),
   Opt("split", "", <<At("abs", 1), At("midsld", 0)>>), Opt("split", "", <<At("abs", 0)>>),
   Opt("position", "seqovl", At("abs", -2)), Opt("position", "seqovl", At("abs", 3)),
   Opt("desync", "", <<"syndata", "fake", "multisplit">>), Opt("desync", "", <<"multidisorder">>),
   Opt("desync", "", <<"multidisorder", "fake">>),
   Opt("autottl", "autottl", [nums |-> <<2, 3, 12>>, sign |-> "absent"]),
   Opt("autottl", "autottl6", [nums |-> <<>>, sign |-> "alone"]),
   Opt("autottl", "dup_autottl", [nums |-> <<1, 9, 5>>, sign |-> "plus"])}
ListOptions ==
  {NewOpt, SkipOpt, Opt("list", "hl", ListA), Opt("list", "hlx", ListB),
   Opt("list", "ips", ListGone), Opt("list", "hl", ListGone),
   Opt("items", "hl", {DomA}), Opt("items", "hl", {DomB}), Opt("items", "ipsx", {DomA}),
   Opt("items", "hl", {"bad"}), Opt("auto", "", ListA), Opt("auto", "", "bad")}
TlsOptions ==
  {NewOpt, SkipOpt, Opt("faketls", "", Hello(300, 12, "none")), Opt("faketls", "", Hello(517, -1, "end")),
   Opt("faketls", "", Hello(400, 5, "inside")), Opt("faketls", "", Hello(0, 5, "none")),
   Opt("tlsmod", "", Words({"none"}, 0)), Opt("tlsmod", "", Words({"rnd", "padencap"}, 0)),
   Opt("tlsmod", "", Words({"sni"}, 200)), Opt("tlsmod", "", Words({"sni", "dupsid"}, 3)),
   Opt("tlsmod", "", Words({"rndsni"}, 0)), Opt("tlsmod", "", Words({"sni"}, 0)),
   Opt("fake", "quic", File(1200, 0)), Opt("fake", "quic", File(40, 40))}
FilterOptions ==
  {NewOpt, SkipOpt, Opt("ports", "tcp", <<Port(80), Port(443)>>), Opt("ports", "tcp", <<Port(0)>>),
   Opt("ports", "udp", <<[from |-> 50, to |-> 60, neg |-> TRUE]>>),
   Opt("ports", "udp", <<[from |-> 9, to |-> 8, neg |-> FALSE]>>),
   Opt("l3", "", {"ipv4"}), Opt("l7", "", {"tls", "quic"}), Opt("l7", "", {"bad"}),
   Opt("param", "ipcache_lifetime", 60), Opt("param", "ctrack_disable", TRUE),
   Opt("pattern", "seqovl_pattern", File(9, 0))}
Packet(out, proto, port, len, flags, redirect, lan) ==
  [out |-> out, proto |-> proto, port |-> port, len |-> len, redirect |-> redirect, lan |-> lan,
   syn |-> "syn" \in flags, ack |-> "ack" \in flags, rst |-> "rst" \in flags, fin |-> "fin" \in flags,
   own |-> FALSE, iface |-> 1, l3 |-> "ipv4"]
MCPackets ==
  {Packet(TRUE, "tcp", n, l, f, FALSE, lan) : n \in {80, 443}, l \in {0, 9},
     f \in {{"syn"}, {"ack"}, {"rst"}}, lan \in BOOLEAN}
  \cup {Packet(FALSE, "tcp", n, 9 * Cardinality(f), f, r, FALSE) : n \in {80, 443},
     f \in {{"syn", "ack"}, {"ack"}, {"fin"}}, r \in BOOLEAN}
  \cup {Packet(TRUE, "udp", n, 9, {}, FALSE, FALSE) : n \in {53, 443}}
  \cup {[Packet(out, "tcp", 443, 0, f, FALSE, FALSE) EXCEPT !.l3 = "ipv6"] : out \in BOOLEAN,
     f \in {{"ack"}, {"syn", "ack"}}}
WfOptions ==
  {NewOpt, Opt("ports", "tcp", <<Port(80)>>), Setting("dup", 2), Setting("orig_tcp_flags_set", {"ECE"}),
   Setting("orig_ttl", 5), Setting("orig_ttl6", 0), Opt("auto", "", ListA), Opt("l3", "", {"ipv6"}),
   Opt("wfports", "wf_tcp", <<Port(80), Port(443)>>), Opt("wfports", "wf_tcp", <<Port(443)>>),
   Opt("wfports", "wf_udp", <<[from |-> 440, to |-> 450, neg |-> TRUE]>>),
   Opt("wf", "wf_filter_lan", FALSE), Opt("wf", "wf_iface", 2), Opt("wf", "wf_l3", {"ipv4"}),
   Opt("wf", "wf_raw", {}), Opt("wfpart", "", {Packet(TRUE, "udp", 53, 9, {}, FALSE, FALSE)})}
MCRunning == {<<<<>>, <<>>, {}, {{Packet(TRUE, "udp", 53, 9, {}, FALSE, FALSE)}}, {}, {}, 0, L3s>>}
ProxyOptionsA ==
  {NewOpt, SkipOpt, Opt("param", "port", 988), Setting("hostspell", 4), Setting("mss", 88), Setting("mss", 87),
   Opt("split", "", <<At("abs", 1), At("midsld", 0)>>), Opt("tlsrec", "", At("sniext", 1)),
   Opt("tlsrec", "", At("abs", 0)), Opt("limit", "tamper_cutoff", <<"n", 3>>),
   Opt("param", "skip_nodelay", TRUE), Opt("broken", "oob", "tls"), Opt("broken", "disorder", "all")}
ProxyOptionsB ==
  {NewOpt, SkipOpt, Opt("param", "port", 988), Opt("param", "port", 0), Opt("list", "hl", ListA), Opt("items", "hl", {DomA}),
   Opt("auto", "", ListB), Opt("ports", "tcp", <<Port(80)>>), Opt("l3", "", {"ipv4"}),
   Opt("l7", "", {"quic"}), Opt("param", "local_rcvbuf", 9), Opt("param", "nosplice", TRUE),
   Opt("param", "maxfiles", 100)}
ProxyBinds ==
  {Opt("param", "bind_wait_only", TRUE), Opt("bindaddr", "A", "none"), Opt("bindaddr", "B", "I"),
   Opt("bindiface", "I", TRUE), Opt("bindiface", "J", FALSE), Opt("bind", "ll", "prefer"),
   Opt("bind", "ll", "bad"), Opt("bind", "ip", 5), Opt("bind", "ip", 6), Opt("bind", "ifup", 3)}
Engine(options) == [proxy |-> FALSE, options |-> options]
ProxyWith(options) == [proxy |-> TRUE, options |-> options]
MCGroups ==
  <<Engine(SettingOptions), Engine(ListOptions), Engine(TlsOptions), Engine(FilterOptions), Engine(WfOptions),
    ProxyWith(ProxyOptionsA), ProxyWith(ProxyOptionsB), ProxyWith(ProxyBinds)>>

MCLines ==
  {[kind |-> "domain", family |-> 0, bits |-> 0], [kind |-> "blank", family |-> 0, bits |-> 0],
   [kind |-> "address", family |-> 4, bits |-> 24], [kind |-> "address", family |-> 4, bits |-> 33]}
MCSettings ==
  {[ipv6 |-> FALSE, zctMin |-> 1, zctMax |-> 4, mult |-> 3, div |-> 4, threshold |-> 5],
   [ipv6 |-> FALSE, zctMin |-> 1, zctMax |-> 4, mult |-> 1, div |-> 3, threshold |-> 5],
   [ipv6 |-> TRUE, zctMin |-> 1, zctMax |-> 4, mult |-> 3, div |-> 4, threshold |-> 3]}
MCSpace == {1, 2, 3, 4, 6, 7, 15, 16, 25, 26, 28, 29, 30, 31}
On(e, six, ll, ifup, ip, ipll) ==
  [AnyBind EXCEPT !.iface = e, !.v6 = six, !.ll = ll, !.ifup = ifup, !.ip = ip, !.ipll = ipll]
MCRequests ==
  {<<AnyBind>>, <<On("none", FALSE, "prefer", 0, 2, 1)>>, <<On("e0", TRUE, "unwanted", 2, 2, 1)>>,
   <<On("e0", FALSE, "force", 2, 1, 0), On("none", FALSE, "force", 0, 1, 1)>>,
   <<On("e0", TRUE, "no", 0, 1, 1)>>, <<[On("none", FALSE, "no", 0, 1, 1) EXCEPT !.addr = "v4"]>>}

\* dns_parse_query on whole and cut replies.
ASSUME RepliesAreParsed ==
  RepliesParsed({<<>>, <<<<3, 7>>>>, <<<<>>, <<1>>>>},
                {<<>>} \cup [1..1 -> [in : BOOLEAN, type : {1, 28, 5}, dlen : {4, 16}, pointer : {TRUE}]])

\* One part runs; the others stay at one initial state.
Init ==
  /\ sys \in {"command", "loop", "listen", "lookups", "cover", "pieces"}
  /\ IF sys = "command" THEN CommandInit ELSE group = 1 /\ CommandInit
  /\ IF sys = "loop" THEN LoopInit
     ELSE ssidFilter = {} /\ nlmFilter = {} /\ wlan = {} /\ nets = {} /\ answers = TRUE /\ LoopInit
  /\ IF sys = "listen" THEN ListenInit
     ELSE /\ request = <<AnyBind>> /\ transparent = FALSE /\ waitOnly = FALSE
          /\ iface = [i \in Ifaces |-> "up"] /\ present = {} /\ ListenInit
  /\ IF sys = "lookups" THEN LookupsInit ELSE input = <<>> /\ LookupsInit
  /\ IF sys = "cover" THEN CoverInit ELSE settings = (CHOOSE s \in Settings : TRUE) /\ CoverInit
  /\ IF sys = "pieces" THEN Pieces!Init ELSE set = ASetup /\ Pieces!Init
Next ==
  /\ UNCHANGED sys
  /\ \/ sys = "command" /\ CommandNext /\ UNCHANGED <<loop, listen, lookups, cover, pieces>>
     \/ sys = "loop" /\ LoopNext /\ UNCHANGED <<command, listen, lookups, cover, pieces>>
     \/ sys = "listen" /\ ListenNext /\ UNCHANGED <<command, loop, lookups, cover, pieces>>
     \/ sys = "lookups" /\ LookupsNext /\ UNCHANGED <<command, loop, listen, cover, pieces>>
     \/ sys = "cover" /\ CoverNext /\ UNCHANGED <<command, loop, listen, lookups, pieces>>
     \/ sys = "pieces" /\ Pieces!Next /\ UNCHANGED <<command, loop, listen, lookups, cover>>
Spec == Init /\ [][Next]_<<sys, command, loop, listen, lookups, cover, pieces>>

\* The server never reads the junk of seqovl (see PieceSender).
JunkNeverRead == Pieces!JunkNeverRead
\* The pieces hold every byte of the packets they replace (see PieceSender).
NothingMissing == Pieces!NothingMissing
\* No fake has the ip_id of a part of the same packet (see PieceSender).
FakeIdsDiffer == Pieces!FakeIdsDiffer

Alike == Permutations(Threads)
=============================================================================
