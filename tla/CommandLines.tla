---------------------------- MODULE CommandLines ----------------------------
(***************************************************************************)
(* main of nfqws, winws and tpws up to where they start to work: the       *)
(* options are read from left to right, then the profiles are completed.   *)
(* `args` remembers what was given; AsAsked reads it as a user would.      *)
(* winws then makes its filter and starts the capture.                     *)
(***************************************************************************)
EXTENDS ProxyOptions

CONSTANTS MaxOptions, \* bound: options on a command line
          Groups,     \* sequence of [proxy |-> is it tpws, options |-> options given together]
          Packets     \* packets to ask about

VARIABLES group,    \* the program and its options are of Groups[group]
          args,     \* the options read
          cmd,      \* what they make of the program
          begun     \* "no", "complete" (the profiles) or "capture"

command == <<group, args, cmd, begun>>

Proxy == Groups[group].proxy

\* The switch over getopt's index.
ReadEngine(p, o) ==
  CASE o.o = "setting" -> Store(p, o.x, o.a)
    [] o.o = "param" -> StoreParam(p, o.x, o.a)
    [] o.o = "autottl" -> Autottl(p, o.x, o.a)
    [] o.o = "desync" -> Desync(p, o.a)
    [] o.o = "split" -> SplitPos(p, o.a)
    [] o.o = "position" -> OnePos(p, o.x, o.a)
    [] o.o = "fake" -> Fake(p, o.x, o.a)
    [] o.o = "faketls" -> FakeTls(p, o.a)
    [] o.o = "tlsmod" -> FakeTlsMod(p, o.a)
    [] o.o = "pattern" -> Pattern(p, o.x, o.a)
    [] o.o = "list" -> List(p, o.x, o.a)
    [] o.o = "items" -> Anonymous(p, o.x, o.a)
    [] o.o = "auto" -> AutoList(p, o.a)
    [] o.o = "ports" -> Ports(p, o.x, o.a)
    [] o.o = "l3" -> FilterL3(p, o.a)
    [] o.o = "l7" -> FilterL7(p, o.a)
    [] o.o = "wf" -> WfOption(p, o.x, o.a)
    [] o.o = "wfports" -> WfPorts(p, o.x, o.a)
    [] o.o = "wfpart" -> WfRawPart(p, o.a)
    [] o.o = "new" -> NewProfile(p)
    [] o.o = "skip" -> Skip(p)

CommandInit ==
  /\ group \in DOMAIN Groups
  /\ cmd \in IF Proxy THEN {ProxyStart(linux) : linux \in BOOLEAN} ELSE {Start}
  /\ args = <<>> /\ begun = "no"
ReadOption(o) ==
  /\ begun = "no" /\ ~cmd.exit /\ Len(args) < MaxOptions
  /\ args' = Append(args, o) /\ cmd' = (IF Proxy THEN ReadProxy(cmd, o) ELSE ReadEngine(cmd, o))
  /\ UNCHANGED <<group, begun>>
Begin ==
  /\ begun = "no" /\ ~cmd.exit
  /\ cmd' = (IF Proxy THEN ProxyFinished(cmd) ELSE Finished(cmd)) /\ begun' = "complete"
  /\ UNCHANGED <<group, args>>
Launch ==
  /\ begun = "complete" /\ ~cmd.exit /\ ~Proxy
  /\ cmd' = Launched(cmd) /\ begun' = "capture"
  /\ UNCHANGED <<group, args>>
CommandNext == Begin \/ Launch \/ \E o \in Groups[group].options : ReadOption(o)

-----------------------------------------------------------------------------
\* What was asked for: the options between two --new make a profile unless
\* --skip is among them.
Begins == {0} \cup {i \in DOMAIN args : args[i].o = "new"}
Own(b) == {i \in DOMAIN args : i > b /\ \A k \in (b + 1)..i : args[k].o # "new"}
Wanted == {b \in Begins : \A i \in Own(b) : args[i].o # "skip"}
NumberOf(b) == Cardinality({c \in Wanted : c <= b})
Of(D, kind) == {i \in D : args[i].o = kind}
About(D, kind, x) == {i \in Of(D, kind) : args[i].x = x}
LastGiven(S) == args[Max(S)].a
InOrder(S) == SetToSortSeq(S, <)

\* The numbers of an autottl count where they are given; "-" alone turns it
\* off, which for IPv6 means the values of IPv4, as 255 does for a TTL.
AutoAsked(x, a) ==
  LET at(i, y) == IF Len(a.nums) >= i THEN a.nums[i] ELSE AutoDefault(x)[y]
  IN IF a.nums = <<>> THEN IF a.sign = "alone" THEN Disabled ELSE AutoDefault(x)
     ELSE [delta |-> IF a.sign = "plus" THEN a.nums[1] ELSE -a.nums[1],
           min |-> at(2, "min"), max |-> at(3, "max")]
LastAuto(D, x) ==
  IF About(D, "autottl", x) = {} THEN Disabled ELSE AutoAsked(x, LastGiven(About(D, "autottl", x)))
LastTtl(D, x) ==
  IF About(D, "setting", x) = {} THEN 255 ELSE LastGiven(About(D, "setting", x)) % 256
SettingsAsAsked(D, d) ==
  /\ \A i \in Of(D, "setting") :
       LET x == args[i].x
           all == About(D, "setting", x)
       IN x \notin DOMAIN Six =>
            d.set[x] = IF x \in {"fooling", "dup_fooling"} THEN UNION {args[k].a : k \in all}
                       ELSE IF x \in Ttls THEN LastTtl(D, x) ELSE LastGiven(all)
  /\ \A x \in DOMAIN Six :
       d.set[x] = IF LastTtl(D, x) = 255 THEN Value(d, Six[x], 0) ELSE LastTtl(D, x)
  /\ \A x \in DOMAIN AutoSix :
       /\ Value(d, AutoSix[x], Disabled) = LastAuto(D, AutoSix[x])
       /\ d.set[x] = LastAuto(D, IF Enabled(LastAuto(D, x)) THEN x ELSE AutoSix[x])
  /\ DOMAIN d.set \subseteq {args[i].x : i \in Of(D, "setting") \cup Of(D, "autottl")
                                          \cup Of(D, "position") \cup Of(D, "pattern")}
                              \cup DOMAIN Six \cup DOMAIN AutoSix \cup {"hostcase"}
SplitsAsAsked(D, d) ==
  LET given == FlattenSeq([k \in 1..Cardinality(Of(D, "split")) |-> args[InOrder(Of(D, "split"))[k]].a])
  IN d.splits = IF given = <<>> THEN <<[m |-> "abs", at |-> 2]>> ELSE given
ListsAsAsked(D, d) ==
  \A kind \in ListKinds :
    LET anon == d.lists[kind] \cap DOMAIN cmd.items
        own == About(D, "items", kind)
    IN /\ UNION {cmd.items[n] : n \in anon} = UNION {args[i].a : i \in own}
       /\ (anon = {}) = (own = {})
       /\ d.lists[kind] \ anon = {args[i].a : i \in About(D, "list", kind)}
            \cup (IF kind = "hl" THEN {args[i].a : i \in Of(D, "auto")} ELSE {})
\* A filter of ports for one protocol only keeps the other out.
PortsAsAsked(D, d) ==
  \A port \in {53, 80, 443, 8080} :
    \A proto \in IF Proxy THEN {"tcp"} ELSE {"tcp", "udp"} :
      LET own == About(D, "ports", proto)
          pf == IF proto = "tcp" THEN d.tcp ELSE d.udp
          items == UNION {ToSet(args[i].a) : i \in own}
      IN TakesPort(pf, port) =
           IF own = {} THEN Of(D, "ports") = {} ELSE \E x \in items : InRange(port, PfParse(x))
FiltersAsAsked(D, d) ==
  /\ d.l3 = IF Of(D, "l3") = {} THEN L3s ELSE LastGiven(Of(D, "l3"))
  /\ d.l7 = IF Of(D, "l7") = {} THEN {} ELSE LastGiven(Of(D, "l7"))
  /\ d.modes[2] = IF Of(D, "desync") = {} THEN "none"
                  ELSE LET s == LastGiven(Of(D, "desync"))
                       IN IF s[1] \notin ZeroStage THEN s[1] ELSE IF Len(s) > 1 THEN s[2] ELSE "none"
\* A fake is modified as the last words before the next fake say; one that is
\* neither chosen nor modified gets the old default.
WordsFor(D, i) ==
  LET later == {k \in Of(D, "faketls") : k > i}
      said == {k \in Of(D, "tlsmod") : \A n \in later : k < n}
  IN IF said = {} THEN [mods |-> {}, name |-> 0] ELSE LastGiven(said)
NameSaid(D, i) ==
  LET later == {k \in Of(D, "faketls") : k > i}
      said == {k \in Of(D, "tlsmod") : (\A n \in later : k < n) /\ "sni" \in args[k].a.mods}
  IN IF said = {} THEN 0 ELSE CutName(LastGiven(said).name)
HelloAsAsked(b, blob, words, name) ==
  /\ b.mods \ Marks = words \ {"none"}
  /\ LET moved == (IF "sni" \in words THEN name - blob.sni ELSE 0)
                   + (IF "padencap" \in words /\ blob.pad = "none" THEN 4 ELSE 0)
     IN /\ b.size - blob.size = moved /\ b.rec - blob.rec = moved
        /\ b.hs - blob.hs = moved /\ b.ext - blob.ext = moved
FakesAsAsked(D, d) ==
  LET own == InOrder(Of(D, "faketls"))
      plain == d.n # 0 /\ Of(D, "tlsmod") = {}
  IN /\ Len(d.fakes["tls"]) = IF own = <<>> THEN 1 ELSE Len(own)
     /\ \A k \in DOMAIN own :
          HelloAsAsked(d.fakes["tls"][k], args[own[k]].a,
                       WordsFor(D, own[k]).mods, NameSaid(D, own[k]))
     /\ own = <<>> => HelloAsAsked(d.fakes["tls"][1], DefaultHello,
                        IF plain THEN {"rnd", "rndsni", "dupsid"} ELSE WordsFor(D, 0).mods,
                        NameSaid(D, 0))
     /\ \A kind \in FakeKinds \ {"tls"} :
          LET given == InOrder(About(D, "fake", kind))
          IN given # <<>> => [k \in DOMAIN d.fakes[kind] |-> d.fakes[kind][k].size]
                               = [k \in DOMAIN given |-> args[given[k]].a.size]

EngineProfileAsAsked(D, d) ==
  /\ SettingsAsAsked(D, d) /\ SplitsAsAsked(D, d) /\ ListsAsAsked(D, d)
  /\ PortsAsAsked(D, d) /\ FiltersAsAsked(D, d) /\ FakesAsAsked(D, d)

\* A profile of the proxy.
RequestsAsAsked(D, d) ==
  LET own == Of(D, "setting") \cup Of(D, "limit")
      given == {args[i].x : i \in own \cup Of(D, "broken")} \cup {"tlsrec" : i \in Of(D, "tlsrec")}
  IN /\ \A i \in own : d.set[args[i].x] = LastGiven({k \in own : args[k].x = args[i].x})
     /\ \A x \in {"oob", "disorder"} : Value(d, x, {}) = {args[i].a : i \in About(D, "broken", x)}
     /\ given \subseteq DOMAIN d.set /\ DOMAIN d.set \subseteq given \cup {"hostcase"}
     /\ d.splits = FlattenSeq([k \in 1..Cardinality(Of(D, "split")) |-> args[InOrder(Of(D, "split"))[k]].a])
ProxyProfileAsAsked(D, d) ==
  /\ RequestsAsAsked(D, d) /\ ListsAsAsked(D, d) /\ PortsAsAsked(D, d)
  /\ ~cmd.linux => CheckOobDisorder(d)

\* Of a bind, what is given before the next one begins.
BindsBegin == InOrder({i \in DOMAIN args : args[i].o \in {"bindaddr", "bindiface"}})
BindsAsAsked ==
  IF BindsBegin = <<>> THEN cmd.binds = <<AnyBind>>
  ELSE /\ Len(cmd.binds) = Len(BindsBegin)
       /\ \A k \in DOMAIN BindsBegin :
            LET from == BindsBegin[k]
                to == IF k = Len(BindsBegin) THEN Len(args) ELSE BindsBegin[k + 1] - 1
            IN \A x \in {"ll", "ifup", "ip", "ipll"} :
                 LET own == About(from..to, "bind", x)
                 IN cmd.binds[k][x] = IF own = {} THEN AnyBind[x] ELSE LastGiven(own)
\* What the remaining profiles need of the program: a buffer where anything
\* changes data, and descriptors for the sockets and pipes of each connection.
NeedsTamper(i) ==
  \/ args[i].o \in {"split", "tlsrec", "list", "items", "auto"}
  \/ args[i].o = "setting" /\ args[i].x \in DOMAIN RequestArgs
ProgramAsAsked ==
  LET kept == UNION {Own(b) : b \in Wanted}
      legs == IF ~cmd.linux \/ Param(cmd, "nosplice", FALSE) THEN 0
              ELSE IF \E i \in kept : args[i].o = "limit" THEN 2
              ELSE IF Tamper(cmd) THEN 1 ELSE 2
  IN /\ \A i \in kept : NeedsTamper(i) => Tamper(cmd)
     /\ \A i \in kept : args[i].o = "split" => ~Param(cmd, "skip_nodelay", FALSE)
     /\ "maxfiles" \notin DOMAIN cmd.params =>
          FdMax(cmd) >= Param(cmd, "maxconn", 512) * (2 + 2 * legs) + Len(cmd.binds)

ProfileAsAsked(D, d) == IF Proxy THEN ProxyProfileAsAsked(D, d) ELSE EngineProfileAsAsked(D, d)

\* The command line means what it says: when the program starts, each group of
\* options between two --new that was not skipped is one profile, in order and
\* numbered from one, with what was given for it and nothing that was given
\* for another; the last profile is number 0 and has only defaults. The proxy
\* has its binds likewise and knows what its profiles need of it (main,
\* nfqws.c:2448-3526; parse_params, tpws.c:866-1650).
AsAsked ==
  begun = "complete" /\ ~cmd.exit =>
    /\ Len(cmd.profiles) = Cardinality(Wanted) + 1 /\ cmd.count = Cardinality(Wanted)
    /\ \A b \in Wanted : /\ cmd.profiles[NumberOf(b)].n = NumberOf(b)
                         /\ ProfileAsAsked(Own(b), cmd.profiles[NumberOf(b)])
    /\ Dp(cmd).n = 0 /\ ProfileAsAsked({}, Dp(cmd))
    /\ Proxy => BindsAsAsked /\ ProgramAsAsked

\* The engine is shown what its profiles need: of the packets whose ports,
\* family and interface the --wf options name, every one that a profile of
\* that port would copy, change in TTL or flags, replace, follow or count as a
\* failure is captured, although the filter leaves out empty segments and
\* answers where no profile is thought to need them (wf_make_filter,
\* nfqws.c:1678; dp_list_need_all_out, params.c:348; the effects are those of
\* desync.c:950, 1010, 1265-1345, 1430-1480). What the filter does not provide
\* for is named at HasEffect in CaptureFilter.
SeesWhatIsNeeded ==
  begun = "capture" /\ ~cmd.exit => \A k \in Packets : Seen(cmd, k)
=============================================================================
