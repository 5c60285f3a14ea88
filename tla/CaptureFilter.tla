--------------------------- MODULE CaptureFilter ---------------------------
(***************************************************************************)
(* The WinDivert filter that winws makes of its --wf options and of its    *)
(* profiles (wf_make_filter of nfqws.c): the packets that the driver gives *)
(* to the engine instead of sending them on.                               *)
(*                                                                         *)
(* A packet is [out, l3, proto, syn, ack, rst, fin, len, redirect, port,   *)
(* lan, own]: port is the server's, lan says that the server's address is  *)
(* a local one, own that the packet is looped back or was sent by the      *)
(* engine, redirect that it begins an HTTP answer 302 or 307. A raw filter *)
(* is the set of packets it takes. The settings are p.params.              *)
(***************************************************************************)
EXTENDS EngineOptions

CONSTANT Running  \* keys of the engines that run already

Param(p, x, default) == IF x \in DOMAIN p.params THEN p.params[x] ELSE default
WithParam(p, x, v) == [p EXCEPT !.params = (x :> v) @@ @]

\* The --wf options: the last one counts, but partial raw filters add up.
WfSettings == {"wf_iface", "wf_l3", "wf_raw", "wf_filter_lan", "wf_save", "ssid_filter", "nlm_filter"}
WfOption(p, x, a) == Only(x \in WfSettings /\ (x = "wf_l3" => a \subseteq L3s), WithParam(p, x, a), p)
WfPorts(p, x, items) == Only(\A i \in DOMAIN items : GoodPorts(items[i]), WithParam(p, x, items), p)
WfRawPart(p, part) == WithParam(p, "wf_raw_part", Append(Param(p, "wf_raw_part", <<>>), part))

\* wf_make_pf: an item of one port compares with it, another with both ends.
\* The zero that denies all in a profile is here "not port 0": every packet.
PortText(x, port) ==
  IF x.from = x.to THEN (port = x.from) # x.neg
  ELSE (port >= x.from /\ port <= x.to) # x.neg
WfTakes(p, k) ==
  \E proto \in {"tcp", "udp"} :
    /\ k.proto = proto
    /\ LET items == Param(p, IF proto = "tcp" THEN "wf_tcp" ELSE "wf_udp", <<>>)
       IN \E i \in DOMAIN items : PortText(PfParse(items[i]), k.port)

\* dp_list_have_autohostlist and dp_list_need_all_out: without copies or
\* changed originals the empty segments of a connection are not of interest.
Profiles(p) == {p.profiles[i] : i \in DOMAIN p.profiles}
HaveAutoHostlist(p) == \E d \in Profiles(p) : d.auto # "none"
\* PROFILE_HAS_ORIG_MOD.
HasOrigMod(d) ==
  \/ Value(d, "orig_ttl", 0) # 0 \/ Value(d, "orig_ttl6", 0) # 0
  \/ Value(d, "orig_tcp_flags_set", {}) # {} \/ Value(d, "orig_tcp_flags_unset", {}) # {}
\* Mutant: only the copies are thought of.
NeedAllOutForDups(p) == \E d \in Profiles(p) : Value(d, "dup", 0) > 0
NeedAllOut(p) == \E d \in Profiles(p) : Value(d, "dup", 0) > 0 \/ HasOrigMod(d)

TcpNotEmpty(k) == k.proto # "tcp" \/ k.syn \/ k.rst \/ k.fin \/ k.len > 0
TcpInbounds(k) == (k.ack /\ k.syn) \/ k.rst \/ k.fin
Outbound(p, k) ==
  /\ k.out /\ WfTakes(p, k)
  /\ Param(p, "wf_tcp", <<>>) # <<>> /\ ~NeedAllOut(p) => TcpNotEmpty(k)
Inbound(p, k) ==
  /\ ~k.out /\ k.proto = "tcp" /\ WfTakes(p, k)
  /\ TcpInbounds(k) \/ (HaveAutoHostlist(p) /\ k.redirect)
\* wf_make_filter, or the filter that --wf-raw gave.
MadeFilter(p, k) ==
  /\ ~k.own /\ k.l3 \in Param(p, "wf_l3", L3s)
  /\ Param(p, "wf_iface", 0) \in {0, k.iface}
  /\ \/ \E i \in DOMAIN Param(p, "wf_raw_part", <<>>) : k \in Param(p, "wf_raw_part", <<>>)[i]
     \/ Outbound(p, k) \/ Inbound(p, k)
  /\ Param(p, "wf_filter_lan", TRUE) => ~k.lan
Captured(p, k) ==
  IF "wf_raw" \in DOMAIN p.params THEN k \in p.params["wf_raw"] ELSE MadeFilter(p, k)

\* The start of winws: there must be something to filter, a saved filter ends
\* the program, and two engines do not run with the same filter options. The
\* key takes partial filters by XOR: two that are equal leave no trace.
Something(p) == \E x \in {"wf_raw", "wf_tcp", "wf_udp", "wf_raw_part"} : x \in DOMAIN p.params
OddParts(p) ==
  LET parts == Param(p, "wf_raw_part", <<>>)
  IN {a \in ToSet(parts) : Cardinality({i \in DOMAIN parts : parts[i] = a}) % 2 = 1}
Key(p) ==
  <<Param(p, "wf_tcp", <<>>), Param(p, "wf_udp", <<>>), Param(p, "wf_raw", {}), OddParts(p),
    Param(p, "ssid_filter", {}), Param(p, "nlm_filter", {}), Param(p, "wf_iface", 0),
    Param(p, "wf_l3", L3s)>>
Launched(p) ==
  Only(Something(p) /\ "wf_save" \notin DOMAIN p.params /\ Key(p) \notin Running, p, p)

-----------------------------------------------------------------------------
\* What the handlers may do with a packet for profile d (desync.c), whatever
\* the filter says: copy what leaves, change its TTL by family and those flags
\* that are not yet as asked, replace a SYN or a payload, follow the start and
\* the end of a client's connection, and count a reset or a redirect as a
\* failure. Four effects are left out because the filter does not provide for
\* them: --wssize and --orig-autottl alone do not ask for empty segments,
\* incoming payload that would reset the failure counter is not taken, nor is
\* an incoming datagram whose TTL autottl could use.
MayApply(d, k) ==
  /\ d.n # 0 /\ k.l3 \in d.l3
  /\ TakesPort(IF k.proto = "tcp" THEN d.tcp ELSE d.udp, k.port)
FlagsOf(k) ==
  {f \in {"SYN", "ACK", "RST", "FIN"} :
     [SYN |-> k.syn, ACK |-> k.ack, RST |-> k.rst, FIN |-> k.fin][f]}
Copies(d, k) == k.out /\ Value(d, "dup", 0) > 0
NewTtl(d, k) == k.out /\ Value(d, IF k.l3 = "ipv4" THEN "orig_ttl" ELSE "orig_ttl6", 0) # 0
NewFlags(d, k) ==
  /\ k.out /\ k.proto = "tcp"
  /\ (FlagsOf(k) \ Value(d, "orig_tcp_flags_unset", {})) \cup Value(d, "orig_tcp_flags_set", {}) # FlagsOf(k)
Replaces(k) == k.out /\ (k.len > 0 \/ k.syn)
Follows(k) == k.proto = "tcp" /\ (k.fin \/ k.rst \/ (k.syn /\ (k.out \/ k.ack)))
Counts(d, k) == ~k.out /\ k.proto = "tcp" /\ d.auto # "none" /\ (k.rst \/ k.redirect)
HasEffect(d, k) ==
  Copies(d, k) \/ NewTtl(d, k) \/ NewFlags(d, k) \/ Replaces(k) \/ Follows(k) \/ Counts(d, k)
\* What the --wf options name, read as a user would.
Named(p, k) ==
  /\ ~k.own /\ (Param(p, "wf_filter_lan", TRUE) => ~k.lan)
  /\ k.l3 \in Param(p, "wf_l3", L3s) /\ Param(p, "wf_iface", 0) \in {0, k.iface}
  /\ LET items == Param(p, IF k.proto = "tcp" THEN "wf_tcp" ELSE "wf_udp", <<>>)
     IN \E i \in DOMAIN items : InRange(k.port, PfParse(items[i]))
Seen(p, k) ==
  "wf_raw" \notin DOMAIN p.params /\ Named(p, k) /\ (\E d \in Profiles(p) : MayApply(d, k) /\ HasEffect(d, k))
    => Captured(p, k)
\* A packet of a protocol the model knows.
IsPacket(k) == k.proto \in {"tcp", "udp"} /\ k.port \in 1..65535
=============================================================================
