---------------------------- MODULE ProxyOptions ----------------------------
(***************************************************************************)
(* The command line of tpws (parse_params of tpws.c). Profiles, lists,     *)
(* positions, --new and --skip are those of EngineOptions; what the proxy  *)
(* reads otherwise is here. It redirects only TCP, listens at up to        *)
(* MAX_BINDS places, and must know whether any profile may change data:    *)
(* params.tamper decides between splice and a buffer of its own.           *)
(***************************************************************************)
EXTENDS CaptureFilter

CONSTANT MaxBinds   \* MAX_BINDS
ASSUME BindsAssumption == MaxBinds \in Nat \ {0}

\* params and the first profile before the options.
AnyBind == [addr |-> "none", iface |-> "none", v6 |-> FALSE, ll |-> "unwanted",
            ifup |-> 0, ip |-> 0, ipll |-> 0]
ProxyStart(linux) ==
  Start @@ [binds |-> <<>>, linux |-> linux]
\* Set by most options and never reset, not even for a profile that is skipped.
Tampers(p) == WithParam(p, "tamper", TRUE)
Tamper(p) == Param(p, "tamper", FALSE)

\* nextbind_clean and checkbind_clean: an address or an interface begins a
\* bind, its other settings are for the bind begun last.
NextBind(p, b) == Only(Len(p.binds) < MaxBinds, [p EXCEPT !.binds = Append(@, b)], p)
BindAddr(p, addr, iface) == NextBind(p, [AnyBind EXCEPT !.addr = addr, !.iface = iface])
BindIface(p, iface, v6) == NextBind(p, [AnyBind EXCEPT !.iface = iface, !.v6 = v6])
LinkLocal == {"unwanted", "no", "prefer", "force"}
BindSetting(p, x, a) ==
  Only(p.binds # <<>> /\ (x = "ll" => a \in LinkLocal),
       [p EXCEPT !.binds[Len(p.binds)][x] = a], p)

\* Settings of the program: what it serves, the sockets and threads it does it
\* with, and what only some builds have. Linux doubles the buffer sizes that it
\* is given.
Buffers == {"local_rcvbuf", "local_sndbuf", "remote_rcvbuf", "remote_sndbuf"}
Flag == {TRUE}
ServiceArgs ==
  [bind_wait_only |-> Flag, port |-> 1..65535, daemon |-> Flag, uid |-> Seq(Nat),
   maxconn |-> 1..10000, maxfiles |-> Nat, max_orphan_time |-> Nat, ipcache_lifetime |-> Nat,
   cache_hostname |-> BOOLEAN]
SocketArgs ==
  [x \in Buffers |-> Int] @@
  [socks |-> Flag, no_resolve |-> Flag, resolver_threads |-> 1..300, skip_nodelay |-> Flag]
BuildArgs ==
  [tcp_user_timeout_local |-> 0..86400, tcp_user_timeout_remote |-> 0..86400,
   nosplice |-> Flag, fix_seg |-> 0..1000, pf_enable |-> Flag]
ProxyParamArgs == ServiceArgs @@ SocketArgs @@ BuildArgs
\* Only one of the builds knows these: Linux (with a kernel that has what
\* fix_seg needs), or FreeBSD.
LinuxParams == {"tcp_user_timeout_local", "tcp_user_timeout_remote", "nosplice", "fix_seg"}
KnownParam(p, x) == /\ x \in LinuxParams => p.linux
                    /\ x = "pf_enable" => ~p.linux
Halved(a) == IF a < 0 THEN -((-a) \div 2) ELSE a \div 2
ProxyParam(p, x, a) ==
  Only(KnownParam(p, x) /\ a \in ProxyParamArgs[x],
       WithParam(p, x, IF x \in Buffers /\ p.linux THEN Halved(a) ELSE a), p)

\* Settings of a profile: changes to requests, and the rest.
HostArgs ==
  [hostcase |-> Flag, hostspell |-> {4}, hostdot |-> Flag, hostnospace |-> Flag, hostpad |-> Int,
   domcase |-> Flag]
LineArgs == [methodspace |-> Flag, methodeol |-> Flag, hosttab |-> Flag, unixeol |-> Flag]
RequestArgs == HostArgs @@ LineArgs
SplitArgs == [split_any_protocol |-> Flag]
OobArgs == [oob_byte |-> 0..255]
FailArgs == [fail_threshold |-> 1..20, fail_time |-> Nat \ {0}]
MssArgs == [mss |-> 88..32767]
OtherArgs == SplitArgs @@ OobArgs @@ FailArgs @@ MssArgs
RequestSetting(p, x, a) ==
  LET dp == Set(Dp(p), x, a)
  IN Only(a \in RequestArgs[x],
          Tampers(WithDp(p, IF x = "hostspell" THEN Set(dp, "hostcase", TRUE) ELSE dp)), p)
OtherSetting(p, x, a) ==
  Only(a \in OtherArgs[x] /\ (x = "mss" => p.linux), WithDp(p, Set(Dp(p), x, a)), p)
\* tamper_start and tamper_cutoff: a position, or with "n" a count of chunks.
TamperLimit(p, x, a) == WithParam(WithDp(p, Set(Dp(p), x, a)), "tamper_lim", TRUE)

ProxySplit(p, xs) == Only(GoodPositions(xs), Tampers(SplitPos(p, xs)), p)
ProxyTlsrec(p, x) == Only(GoodPos(x), Tampers(WithDp(p, Set(Dp(p), "tlsrec", x))), p)
\* --disorder and --oob, for all protocols or for one; both for the same only
\* where the kernel is Linux (check_oob_disorder).
Overlap(a, b) == \E x \in a, y \in b : x = y \/ x = "all" \/ y = "all"
CheckOobDisorder(dp) == ~Overlap(Value(dp, "oob", {}), Value(dp, "disorder", {}))
Broken(p, x, a) ==
  LET dp == Set(Dp(p), x, Value(Dp(p), x, {}) \cup {a})
  IN Only(a \in {"all", "http", "tls"} /\ (p.linux \/ CheckOobDisorder(dp)), WithDp(p, dp), p)

\* Lists and filters; a filter of TCP ports denies nothing of UDP.
ProxyList(p, kind, name) == IF p.skip THEN p ELSE Tampers(List(p, kind, name))
ProxyItems(p, kind, items) == IF p.skip THEN p ELSE Tampers(Anonymous(p, kind, items))
ProxyAutoList(p, name) == IF p.skip THEN p ELSE Tampers(AutoList(p, name))
ProxyPorts(p, xs) ==
  Only(\A i \in DOMAIN xs : GoodPorts(xs[i]), WithDp(p, [Dp(p) EXCEPT !.tcp = ParsePfList(@, xs)]), p)
ProxyL3(p, words) == FilterL3(p, words)
ProxyL7(p, words) == Only(words \subseteq {"http", "tls", "unknown"}, FilterL7(p, words), p)
ProxyNew(p) == NewProfile(p)

\* The switch of parse_params.
ReadProxy(p, o) ==
  CASE o.o = "bindaddr" -> BindAddr(p, o.x, o.a)
    [] o.o = "bindiface" -> BindIface(p, o.x, o.a)
    [] o.o = "bind" -> BindSetting(p, o.x, o.a)
    [] o.o = "param" -> ProxyParam(p, o.x, o.a)
    [] o.o = "setting" -> IF o.x \in DOMAIN RequestArgs THEN RequestSetting(p, o.x, o.a)
                          ELSE OtherSetting(p, o.x, o.a)
    [] o.o = "limit" -> TamperLimit(p, o.x, o.a)
    [] o.o = "split" -> ProxySplit(p, o.a)
    [] o.o = "tlsrec" -> ProxyTlsrec(p, o.a)
    [] o.o = "broken" -> Broken(p, o.x, o.a)
    [] o.o = "list" -> ProxyList(p, o.x, o.a)
    [] o.o = "items" -> ProxyItems(p, o.x, o.a)
    [] o.o = "auto" -> ProxyAutoList(p, o.a)
    [] o.o = "ports" -> ProxyPorts(p, o.a)
    [] o.o = "l3" -> ProxyL3(p, o.a)
    [] o.o = "l7" -> ProxyL7(p, o.a)
    [] o.o = "new" -> ProxyNew(p)
    [] o.o = "skip" -> Skip(p)

\* After the options: a bind to all when none was given, threads for the
\* number of connections, the default profile, and the last checks.
ResolverThreads(p) == Param(p, "resolver_threads", 5 + Param(p, "maxconn", 512) \div 50)
ProxyFinished(p) ==
  LET kept == IF p.skip THEN Front(p.profiles) ELSE p.profiles
      q == [p EXCEPT !.profiles = Append(kept, DpInit(0)),
                     !.count = IF p.skip THEN @ - 1 ELSE @,
                     !.binds = IF @ = <<>> THEN <<AnyBind>> ELSE @]
  IN Only(/\ Param(p, "bind_wait_only", FALSE) \/ "port" \in DOMAIN p.params
          /\ Param(p, "skip_nodelay", FALSE) => \A i \in DOMAIN kept : kept[i].splits = <<>>
          /\ p.files \cap Missing = {},
          WithParam(q, "resolver_threads", ResolverThreads(p)), p)

\* set_ulimit: the descriptors that so many connections may need. Only Linux
\* has splice.
SocketsAndPipes(p) ==
  IF ~p.linux \/ Param(p, "nosplice", FALSE) THEN 2
  ELSE IF Tamper(p) /\ ~Param(p, "tamper_lim", FALSE) THEN 4 ELSE 6
FdMax(p) ==
  LET n == SocketsAndPipes(p) * Param(p, "maxconn", 512)
  IN IF Param(p, "maxfiles", 0) # 0 THEN p.params["maxfiles"] ELSE n + n \div 2 + 16
FdMinSystem(p) == FdMax(p) + 4096
=============================================================================
