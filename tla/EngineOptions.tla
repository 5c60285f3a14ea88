--------------------------- MODULE EngineOptions ---------------------------
(***************************************************************************)
(* The command line of nfqws and winws (nfqws.c): how a list of options    *)
(* becomes the list of desync profiles, the last of them the empty         *)
(* profile 0 for packets that fit no other.                                *)
(*                                                                         *)
(* An option is [o |-> its name, a |-> its argument as the parser of that  *)
(* option reads it]: a number, a set or a sequence of known words, a blob. *)
(* A word the parser does not know is "bad". An operator takes the         *)
(* program's state `p` and gives the next; p.exit is exit_clean(1).        *)
(***************************************************************************)
EXTENDS SequencesExt, TlsFakes

CONSTANTS MaxSplits,  \* MAX_SPLITS
          Missing     \* files that do not exist
ASSUME SizeAssumption == MaxSplits \in Nat \ {0}

Nothing == [x \in {} |-> {}]
ListKinds == {"hl", "hlx", "ips", "ipsx"}  \* hl_collection, .._exclude, ips_collection, .._exclude

\* dp_init. A setting that no option gave is not in `set` and has its default:
\* zero, off or empty but for these.
Default == [repeats |-> 1, skip_nosni |-> TRUE, ipfrag_pos_udp |-> 8, ipfrag_pos_tcp |-> 32,
            ts_increment |-> -600000, dup_ts_increment |-> -600000,
            badseq_increment |-> -10000, dup_badseq_increment |-> -10000,
            badack_increment |-> -66000, dup_badack_increment |-> -66000,
            udplen_increment |-> 2, fail_threshold |-> 3, fail_time |-> 60,
            retrans_threshold |-> 3, dup_ip_id |-> "same"]
L3s == {"ipv4", "ipv6"}
L7s == {"http", "tls", "quic", "wireguard", "dht", "discord", "stun", "unknown"}
FakeKinds == {"http", "tls", "unknown", "quic", "wireguard", "dht", "discord", "stun", "unknown_udp"}
DpInit(n) ==
  [n |-> n, set |-> Nothing, modes |-> <<"none", "none", "none">>,
   splits |-> <<>>, fakes |-> [k \in FakeKinds |-> <<>>], tlsLast |-> NoMod,
   lists |-> [k \in ListKinds |-> {}], auto |-> "none",
   tcp |-> <<>>, udp |-> <<>>, l3 |-> L3s, l7 |-> {}]

\* main before the options: one profile, number 1.
NoAnon == [k \in ListKinds |-> 0]
Start == [profiles |-> <<DpInit(1)>>, count |-> 1, skip |-> FALSE, anon |-> NoAnon,
          items |-> <<>>, files |-> {}, params |-> Nothing, exit |-> FALSE]
Dp(p) == Last(p.profiles)
WithDp(p, dp) == [p EXCEPT !.profiles[Len(p.profiles)] = dp]
Refused(p) == [p EXCEPT !.exit = TRUE]
Only(ok, q, p) == IF ok THEN q ELSE Refused(p)
Set(dp, x, v) == [dp EXCEPT !.set = (x :> v) @@ @]
Given(dp, x) == x \in DOMAIN dp.set
Value(dp, x, zero) ==
  IF Given(dp, x) THEN dp.set[x] ELSE IF x \in DOMAIN Default THEN Default[x] ELSE zero

-----------------------------------------------------------------------------
\* Options that check their argument and store it: the arguments they take.
\* Counters are "n", "d" or "s" and a number; atoi takes any number and a TTL
\* keeps the low eight bits of it.
Cutoffs == {"n", "d", "s"} \X Nat
Switch == BOOLEAN
WindowArgs ==
  [wsize |-> 0..65535, wscale |-> 0..255, wssize |-> 0..65535, wsscale |-> 0..255,
   wssize_cutoff |-> Cutoffs, wssize_forced_cutoff |-> Switch,
   synack_split |-> {"syn", "synack", "acksyn"}]
\* Settings of the program and not of a profile.
ParamArgs ==
  [ctrack_timeouts |-> Seq(Nat), ctrack_disable |-> Switch, ipcache_lifetime |-> Nat,
   ipcache_hostname |-> Switch, uid |-> Seq(Nat)]
HttpArgs == [ip_id |-> {"zero", "seq", "seqgroup", "rnd"}, hostcase |-> {TRUE}, domcase |-> {TRUE},
             hostnospace |-> {TRUE}, methodeol |-> {TRUE}, hostspell |-> {4}]
Flags == SUBSET {"FIN", "SYN", "RST", "PSH", "ACK", "URG", "ECE", "CWR", "AE", "R1", "R2", "R3"}
Foolings == SUBSET {"md5sig", "ts", "badsum", "badseq", "datanoack", "hopbyhop", "hopbyhop2"}
DupArgs ==
  [dup |-> 0..1024, dup_ttl |-> Int, dup_ttl6 |-> Int, dup_tcp_flags_set |-> Flags,
   dup_tcp_flags_unset |-> Flags, dup_replace |-> Switch, dup_fooling |-> Foolings,
   dup_ts_increment |-> Int, dup_badseq_increment |-> Int, dup_badack_increment |-> Int,
   dup_cutoff |-> Cutoffs, dup_start |-> Cutoffs, dup_ip_id |-> {"zero", "same", "seq", "rnd"}]
OrigArgs ==
  [orig_ttl |-> Int, orig_ttl6 |-> Int, orig_tcp_flags_set |-> Flags,
   orig_tcp_flags_unset |-> Flags, orig_mod_cutoff |-> Cutoffs, orig_mod_start |-> Cutoffs]
DesyncArgs ==
  [ttl |-> Int, ttl6 |-> Int, tcp_flags_set |-> Flags, tcp_flags_unset |-> Flags,
   fooling |-> Foolings, repeats |-> 1..1024, skip_nosni |-> Switch]
\* Fragments start at a multiple of eight; positions and increments are checked.
Eights == {i \in Int : i >= 1 /\ i <= 9216 /\ i % 8 = 0}
LaterArgs ==
  [ipfrag_pos_tcp |-> Eights, ipfrag_pos_udp |-> Eights, ts_increment |-> Int,
   badseq_increment |-> Int, badack_increment |-> Int, any_protocol |-> Switch,
   fake_tcp_mod |-> {"none", "seq"}]
UdpArgs == [udplen_increment |-> (-32768)..32767, cutoff |-> Cutoffs, start |-> Cutoffs]
AutoArgs == [fail_threshold |-> 1..20, fail_time |-> Nat \ {0}, retrans_threshold |-> 2..10]
\* The orders of fakedsplit leave bit 2 free and end at 2 in bits 3 and 4.
ModArgs == [fakedsplit_mod |-> {o \in 0..31 : (o \div 4) % 2 = 0 /\ o \div 8 <= 2},
            hostfakesplit_mod |-> 0..1]

Stored == WindowArgs @@ HttpArgs @@ DupArgs @@ OrigArgs @@ DesyncArgs @@ LaterArgs
             @@ UdpArgs @@ AutoArgs @@ ModArgs
Ttls == {"ttl", "ttl6", "dup_ttl", "dup_ttl6", "orig_ttl", "orig_ttl6"}
Kept(x, a) == IF x \in Ttls THEN a % 256 ELSE a
\* --hostnospace and --methodeol exclude each other, whichever comes first.
Excludes(dp, x) == \/ x = "hostnospace" /\ Given(dp, "methodeol")
                   \/ x = "methodeol" /\ Given(dp, "hostnospace")
\* --fooling only adds, and a mod option "none" leaves what was there.
Accumulated(dp, x, a) ==
  CASE x \in {"fooling", "dup_fooling"} -> Value(dp, x, {}) \cup a
    [] x = "fake_tcp_mod" /\ a = "none" -> Value(dp, x, "none")
    [] OTHER -> Kept(x, a)
Store(p, x, a) ==
  LET dp == Set(Dp(p), x, Accumulated(Dp(p), x, a))
  IN Only(a \in Stored[x] /\ ~Excludes(Dp(p), x),
          WithDp(p, IF x = "hostspell" THEN Set(dp, "hostcase", TRUE) ELSE dp), p)
StoreParam(p, x, a) == Only(a \in ParamArgs[x], [p EXCEPT !.params = (x :> a) @@ @], p)

\* parse_autottl: delta:min-max with defaults; "-" alone disables. A delta
\* other than 0 needs both bounds, and 2 or 3 numbers a minimum not above.
AutoTtls == {"autottl", "autottl6", "dup_autottl", "dup_autottl6", "orig_autottl", "orig_autottl6"}
AutoDefault(x) ==
  IF x \in {"autottl", "autottl6"} THEN [delta |-> -1, min |-> 3, max |-> 20]
  ELSE IF x \in {"dup_autottl", "dup_autottl6"} THEN [delta |-> -1, min |-> 3, max |-> 64]
  ELSE [delta |-> 5, min |-> 3, max |-> 64]
Disabled == [delta |-> 0, min |-> 0, max |-> 0]
ParseAutottl(a, def) ==
  LET max == IF Len(a.nums) > 2 THEN a.nums[3] ELSE def.max
      min == IF Len(a.nums) > 1 THEN a.nums[2] ELSE def.min
      d == a.nums[1]
      ok == /\ Len(a.nums) > 0 /\ d <= 127
            /\ Len(a.nums) > 2 => (d = 0 \/ max > 0) /\ max <= 255
            /\ Len(a.nums) > 1 => (d = 0 \/ min > 0) /\ min <= 255 /\ min <= max
  IN IF a.nums = <<>> /\ a.sign = "alone" THEN [ok |-> TRUE, t |-> Disabled]
     ELSE IF a.nums = <<>> /\ a.sign = "absent" THEN [ok |-> TRUE, t |-> def]
     ELSE IF ~ok THEN [ok |-> FALSE, t |-> Disabled]
     ELSE [ok |-> TRUE, t |-> [delta |-> IF a.sign = "plus" THEN d ELSE -d,
                               min |-> min, max |-> max]]
Autottl(p, x, a) ==
  LET r == ParseAutottl(a, AutoDefault(x))
      q == WithDp(p, Set(Dp(p), x, r.t))
  IN Only(r.ok, [q EXCEPT !.params = ("autottl" :> TRUE) @@ @], p)

-----------------------------------------------------------------------------
\* --dpi-desync: up to three modes; the first may be of the zero stage, then
\* the first and the second stage follow.
Modes == {"none", "fake", "fakeknown", "rst", "rstack", "synack", "syndata", "fakeddisorder",
          "fakedsplit", "multisplit", "multidisorder", "hostfakesplit", "ipfrag2", "hopbyhop",
          "destopt", "ipfrag1", "udplen", "tamper"}
ZeroStage == {"synack", "syndata"}
FirstStage == {"fake", "fakeknown", "rst", "rstack", "hopbyhop", "destopt", "ipfrag1"}
SecondStage == {"none", "fakeddisorder", "fakedsplit", "multisplit", "multidisorder",
                "hostfakesplit", "ipfrag2", "udplen", "tamper"}
Mode(s, i) == IF i > Len(s) THEN "none" ELSE IF s[i] = "none" THEN "bad" ELSE s[i]
Desync(p, s) ==
  LET zero == Mode(s, 1) \in ZeroStage
      rest == IF zero THEN Tail(s) ELSE s
      first == Mode(rest, 1)
      second == Mode(rest, 2)
      ok == /\ first \in Modes /\ second \in Modes
            /\ Len(rest) <= 2
            /\ second # "none" => first \in FirstStage /\ second \in SecondStage
  IN Only(ok, WithDp(p, [Dp(p) EXCEPT !.modes =
                           <<IF zero THEN s[1] ELSE "none", first, second>>]), p)

\* Positions to split at: a marker and a signed distance; an absolute
\* position is not 0 (parse_split_pos, parse_httpreqpos, parse_tlspos).
Markers == {"abs", "host", "endhost", "sld", "midsld", "endsld", "method", "sniext"}
Int16 == (-32768)..32767
GoodPos(x) == x.m \in Markers /\ x.at \in Int16 /\ (x.m = "abs" => x.at # 0)
GoodPositions(xs) == \A i \in DOMAIN xs : GoodPos(xs[i])
\* parse_split_pos_list, --split-http-req and --split-tls append to the list.
SplitPos(p, xs) ==
  Only(GoodPositions(xs) /\ Len(Dp(p).splits) + Len(xs) <= MaxSplits,
       WithDp(p, [Dp(p) EXCEPT !.splits = @ \o xs]), p)
NoPos == [m |-> "abs", at |-> 0]
\* --dpi-desync-split-seqovl and -hostfakesplit-midhost: a position or "0".
OnePos(p, x, at) == Only(GoodPos(at) \/ at = NoPos, WithDp(p, Set(Dp(p), x, at)), p)

-----------------------------------------------------------------------------
\* Fake payloads. load_file_or_exit refuses what cannot be read, is empty or
\* ends before its offset; a TLS fake keeps room for a longer name.
Loads(b) == b.size > 0 /\ b.ofs < b.size
Blob(b, reserve) == b @@ [buf |-> b.size + reserve]
Fake(p, kind, b) ==
  Only(Loads(b), WithDp(p, [Dp(p) EXCEPT !.fakes[kind] = Append(@, Blob(b, 0))]), p)
\* A TLS fake starts with the modifications given so far; later ones are those
\* of the last fake, and of the fakes that follow.
FakeTls(p, b) ==
  LET dp == Dp(p)
      own == Blob(b, TlsReserve) @@ [mods |-> dp.tlsLast.mods \cup {"custom"}, name |-> dp.tlsLast.name]
  IN Only(Loads(b), WithDp(p, [dp EXCEPT !.fakes["tls"] = Append(@, own)]), p)
FakeTlsMod(p, a) ==
  LET dp == Dp(p)
      mod == ParseTlsMod(dp.tlsLast, a)
      n == Len(dp.fakes["tls"])
      q == [dp EXCEPT !.tlsLast = mod]
  IN Only(GoodTlsMod(a),
          WithDp(p, IF n = 0 THEN q ELSE [q EXCEPT !.fakes["tls"][n] = mod @@ @]), p)
\* load_file_or_exit into a buffer of the profile: a pattern or the SYN's data.
Pattern(p, x, b) ==
  Only(Loads(b), WithDp(p, Set(Dp(p), x, b)), p)

-----------------------------------------------------------------------------
\* Lists. Under --skip these options, and only these, are not even read. The
\* items given in place make one anonymous list per kind and profile.
Listed(p, kind, name) == WithDp(p, [Dp(p) EXCEPT !.lists[kind] = @ \cup {name}])
Register(p, kind, name) == [Listed(p, kind, name) EXCEPT !.files = @ \cup {name}]
List(p, kind, name) ==
  IF p.skip THEN p
  ELSE Only(kind \in {"ips", "ipsx"} => name \notin Missing, Register(p, kind, name), p)
Anonymous(p, kind, items) ==
  LET n == Len(p.items) + 1
      q == IF p.anon[kind] # 0 THEN p
           ELSE [Listed(p, kind, n) EXCEPT !.items = Append(@, {}), !.anon[kind] = n]
  IN IF p.skip THEN p
     ELSE Only("bad" \notin items, [q EXCEPT !.items[q.anon[kind]] = @ \cup items], p)
AutoList(p, name) ==
  LET q == Register(p, "hl", name)
  IN IF p.skip THEN p
     ELSE Only(Dp(p).auto = "none" /\ name # "bad", WithDp(q, [Dp(q) EXCEPT !.auto = name]), p)

\* Filters: parse_pf_list puts each item in front; the other protocol is
\* denied while it has no filter of its own.
DenyAll == [from |-> 0, to |-> 0, neg |-> TRUE]
DenyIfEmpty(pf) == IF pf = <<>> THEN <<DenyAll>> ELSE pf
GoodPorts(x) == x.from <= x.to /\ x.to <= 65535
\* pf_parse: zero denies all whether or not it is negated.
PfParse(x) == IF x.from = 0 /\ x.to = 0 THEN DenyAll ELSE x
ParsePfList(pf, xs) == Reverse([i \in DOMAIN xs |-> PfParse(xs[i])]) \o pf
Ports(p, proto, xs) ==
  LET dp == Dp(p)
      q == IF proto = "tcp"
           THEN [dp EXCEPT !.tcp = ParsePfList(@, xs), !.udp = DenyIfEmpty(@)]
           ELSE [dp EXCEPT !.udp = ParsePfList(@, xs), !.tcp = DenyIfEmpty(@)]
  IN Only(\A i \in DOMAIN xs : GoodPorts(xs[i]), WithDp(p, q), p)
\* pf_in_range and port_filters_in_range.
InRange(port, x) ==
  port > 0 /\ ((x.from = 0 /\ x.to = 0) \/ (port >= x.from /\ port <= x.to)) # x.neg
TakesPort(pf, port) == pf = <<>> \/ \E i \in DOMAIN pf : InRange(port, pf[i])
\* --filter-l3 and --filter-l7 replace the set.
FilterL3(p, words) == Only(words \subseteq L3s, WithDp(p, [Dp(p) EXCEPT !.l3 = words]), p)
FilterL7(p, words) == Only(words \subseteq L7s, WithDp(p, [Dp(p) EXCEPT !.l7 = words]), p)

\* --new ends a profile; a skipped one is cleared and its place used again.
\* Mutant: the anonymous lists of the profile before are used on.
NewProfileKeepingLists(p) ==
  IF p.skip THEN [WithDp(p, DpInit(p.count)) EXCEPT !.skip = FALSE]
  ELSE [p EXCEPT !.profiles = Append(@, DpInit(p.count + 1)), !.count = @ + 1]
NewProfile(p) ==
  LET q == [p EXCEPT !.anon = NoAnon]
  IN IF p.skip THEN [WithDp(q, DpInit(p.count)) EXCEPT !.skip = FALSE]
     ELSE [q EXCEPT !.profiles = Append(@, DpInit(p.count + 1)), !.count = @ + 1]
Skip(p) == [p EXCEPT !.skip = TRUE]

-----------------------------------------------------------------------------
\* After the options. What was not given for IPv6 is that of IPv4, and "not
\* given" for autottl6 includes given as "-".
Enabled(t) == t.delta # 0 \/ t.min # 0 \/ t.max # 0
Six == [ttl6 |-> "ttl", dup_ttl6 |-> "dup_ttl", orig_ttl6 |-> "orig_ttl"]
AutoSix == [autottl6 |-> "autottl", dup_autottl6 |-> "dup_autottl", orig_autottl6 |-> "orig_autottl"]
ForIPv6(dp) ==
  LET ttl(x) == IF Value(dp, x, 255) = 255 THEN Value(dp, Six[x], 0) ELSE dp.set[x]
      auto(x) == IF Enabled(Value(dp, x, Disabled)) THEN dp.set[x] ELSE Value(dp, AutoSix[x], Disabled)
  IN [dp EXCEPT !.set = [x \in DOMAIN Six |-> ttl(x)] @@ [x \in DOMAIN AutoSix |-> auto(x)] @@ @]

\* split_compat.
SplitCompat(dp) ==
  [dp EXCEPT !.splits = IF @ = <<>> THEN <<[m |-> "abs", at |-> 2]>> ELSE @]
SeqovlFits(dp) ==
  LET at == Value(dp, "seqovl", NoPos)
  IN (at.m # "abs" \/ at.at < 0) =>
       {dp.modes[2], dp.modes[3]} \cap {"fakedsplit", "multisplit"} = {}

\* dp_fake_defaults: every kind has a fake; the default hello takes the mods.
DefaultSize == [http |-> 254, unknown |-> 256, quic |-> 620, wireguard |-> 64, dht |-> 64,
                discord |-> 64, stun |-> 64, unknown_udp |-> 64, tls |-> 680]
DefaultFake(dp, kind) ==
  IF kind = "tls" THEN Blob(DefaultHello, TlsReserve) @@ dp.tlsLast
  ELSE Blob([src |-> "default", size |-> DefaultSize[kind], ofs |-> 0], 0)
FakeDefaults(dp) ==
  [dp EXCEPT !.fakes = [k \in FakeKinds |-> IF @[k] = <<>> THEN <<DefaultFake(dp, k)>> ELSE @[k]]]

\* onetime_tls_mod.
OnetimeTlsMod(dp) ==
  [dp EXCEPT !.fakes["tls"] = [i \in DOMAIN @ |-> OnetimeMod(dp.n, @[i])]]
TlsModsFit(dp) == \A i \in DOMAIN dp.fakes["tls"] : dp.fakes["tls"][i].ok

Completed(dp) == OnetimeTlsMod(FakeDefaults(SplitCompat(ForIPv6(dp))))
Finished(p) ==
  LET kept == IF p.skip THEN Front(p.profiles) ELSE p.profiles
      all == Append(kept, DpInit(0))
      done == [i \in DOMAIN all |-> Completed(all[i])]
  IN Only(/\ \A i \in DOMAIN all : SeqovlFits(all[i]) /\ TlsModsFit(done[i])
          /\ p.files \cap Missing = {},
          [p EXCEPT !.profiles = done, !.count = IF p.skip THEN @ - 1 ELSE @], p)
=============================================================================
