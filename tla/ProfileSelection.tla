-------------------------- MODULE ProfileSelection --------------------------
(***************************************************************************)
(* Which desync profile a flow gets (dp_match, dp_find of desync.c), how   *)
(* failed requests teach an automatic host list (auto_hostlist_failed),    *)
(* and the counters of those failures (HostFailPool of pools.c).           *)
(*                                                                         *)
(* A profile is a record: the families, ports and protocols it filters on, *)
(* its include and exclude lists, its automatic list (one of the include   *)
(* lists) or NoFile, and what it does with a request.                      *)
(***************************************************************************)
EXTENDS HostLists

CONSTANTS Profiles   \* sequence of profiles, in the order of the command line

NoFile == ""
\* The lists of a profile are registered, the automatic one as an include list.
NamesIn(coll) == {coll[k] : k \in DOMAIN coll}
ASSUME ProfilesAssumption ==
  /\ Profiles \in Seq({Profiles[i] : i \in DOMAIN Profiles})
  /\ NoFile \notin Files /\ Impossible \notin Hosts
  /\ \A i \in DOMAIN Profiles :
       LET p == Profiles[i]
       IN /\ NamesIn(p.incl) \cup NamesIn(p.excl) \cup NamesIn(p.ipIncl) \cup NamesIn(p.ipExcl) \subseteq Files
          /\ p.auto \in {NoFile} \cup NamesIn(p.incl)

\* Lists that some profile fills by itself.
AutoLists == {Profiles[i].auto : i \in DOMAIN Profiles} \ {NoFile}

\* A target is [fam, proto, port, addr]; an empty port filter takes any port.
MatchesL3L4(dp, t) ==
  /\ t.fam \in dp.l3
  /\ LET ports == IF t.proto = "tcp" THEN dp.tcp ELSE dp.udp
     IN ports = {} \/ t.port \in ports
MatchesL7(dp, l7) == dp.l7 = {} \/ l7 \in dp.l7

HostlistsEmpty(mem, dp) == CollectionEmpty(mem, dp.incl) /\ CollectionEmpty(mem, dp.excl)

\* The tests of dp_match that come before the address is looked up. Hopeless
\* is the shortcut that saves the look-up.
BeforeIpset(mem, disk, dp, t, h, l7) ==
  /\ HostlistsReloadOk(mem, disk, dp.incl, dp.excl)
  /\ MatchesL3L4(dp, t)
  /\ MatchesL7(dp, l7)
Hopeless(mem, dp, h) == dp.auto = NoFile /\ h = NoHost /\ ~HostlistsEmpty(mem, dp)

\* What one dp_match leaves in memory: the host lists are read again first,
\* the address sets only when the other filters let the flow through.
AfterHostlists(mem, disk, dp) == HostlistsReloaded(mem, disk, dp.incl, dp.excl, AutoLists)
AfterIpsets(m, disk, dp) ==
  IF ReloadOk(m, disk, dp.ipIncl) THEN Reloaded(Reloaded(m, disk, dp.ipIncl), disk, dp.ipExcl)
  ELSE Reloaded(m, disk, dp.ipIncl)

\* dp_match of profile i: an automatic list or no list at all wins without a
\* host name, other lists only with a known name that they contain. The result
\* is i or 0 with the memory; m is the memory after the host lists, n after
\* the address sets.
MatchesLists(mem, dp, h) ==
  \/ dp.auto # NoFile
  \/ HostlistsEmpty(mem, dp)
  \/ h # NoHost /\ HostlistCheck(mem, dp.incl, dp.excl, h)
MatchIpsets(m, n, disk, i, t, h) ==
  LET dp == Profiles[i]
      matches == /\ ReloadOk(m, disk, dp.ipIncl) /\ ReloadOk(m, disk, dp.ipExcl)
                 /\ IpsetCheck(n, dp.ipIncl, dp.ipExcl, t.addr)
                 /\ MatchesLists(n, dp, h)
  IN [dp |-> IF matches THEN i ELSE 0, mem |-> n]
MatchHostlists(m, suits, disk, i, t, h) ==
  IF suits /\ ~Hopeless(m, Profiles[i], h)
  THEN MatchIpsets(m, AfterIpsets(m, disk, Profiles[i]), disk, i, t, h)
  ELSE [dp |-> 0, mem |-> m]
DpMatch(mem, disk, i, t, h, l7) ==
  MatchHostlists(AfterHostlists(mem, disk, Profiles[i]),
                 BeforeIpset(mem, disk, Profiles[i], t, h, l7), disk, i, t, h)

\* dp_find: the first profile that matches, 0 for NULL, and the memory after
\* the profiles tried on the way.
DpFind(mem, disk, t, h, l7) ==
  LET tried[i \in 0..Len(Profiles)] ==
        IF i = 0 THEN [dp |-> 0, mem |-> mem]
        ELSE IF tried[i - 1].dp # 0 THEN tried[i - 1]
        ELSE DpMatch(tried[i - 1].mem, disk, i, t, h, l7)
  IN tried[Len(Profiles)]

\* The list check that dp_match makes with the host leaves its result with the
\* connection; no check was made for an automatic list or without lists.
NoCheck == [done |-> FALSE, result |-> FALSE, excluded |-> FALSE]
CheckDone(mem, i, h) ==
  IF i = 0 \/ h = NoHost THEN NoCheck
  ELSE LET dp == Profiles[i]
       IN IF dp.auto # NoFile \/ HostlistsEmpty(mem, dp) THEN NoCheck
          ELSE [done |-> TRUE, result |-> TRUE, excluded |-> FALSE]

-----------------------------------------------------------------------------
\* Failure counters of one profile: a function from hosts to [n, expire].
NoFails == <<>>
HostFailPoolAdd(pool, h, expire) ==
  [k \in DOMAIN pool \cup {h} |-> IF k = h THEN [n |-> 0, expire |-> expire] ELSE pool[k]]
HostFailPoolDel(pool, h) == [k \in DOMAIN pool \ {h} |-> pool[k]]
HostFailPoolPurge(pool, now) ==
  [k \in {j \in DOMAIN pool : pool[j].expire > now} |-> pool[k]]

\* auto_hostlist_failed up to the decision: one more failure of h, counted in
\* an entry that lives failTime seconds from the first of them.
CountedFail(pool, h, dp, now) ==
  LET p == IF h \in DOMAIN pool THEN pool ELSE HostFailPoolAdd(pool, h, now + dp.failTime)
  IN [p EXCEPT ![h].n = @ + 1]
ThresholdReached(pool, h, dp, now) == CountedFail(pool, h, dp, now)[h].n >= dp.threshold
AfterFail(pool, h, dp, now) ==
  IF ThresholdReached(pool, h, dp, now) THEN HostFailPoolDel(pool, h)
  ELSE CountedFail(pool, h, dp, now)

\* The lists are read once more before the host is added to the automatic one.
Recheck(mem, disk, dp) == HostlistsReloaded(mem, disk, dp.incl, dp.excl, AutoLists)
\* A failed reload returns false with excluded cleared: the host is added.
\* Mutant: no second look at the lists.
ToBeAddedUnchecked(mem, disk, dp, h) == TRUE
Unknown(m, dp, h) == ~HostlistCheck(m, dp.incl, dp.excl, h) /\ ~Excluded(m, dp.excl, h)
ToBeAdded(mem, disk, dp, h) ==
  \/ ~HostlistsReloadOk(mem, disk, dp.incl, dp.excl)
  \/ Unknown(Recheck(mem, disk, dp), dp, h)
=============================================================================
