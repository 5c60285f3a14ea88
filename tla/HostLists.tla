----------------------------- MODULE HostLists -----------------------------
(***************************************************************************)
(* Host lists and IP sets of the packet engine (hostlist.c, ipset.c and    *)
(* their pools): lists kept in memory, read again whenever the file's      *)
(* modification time or size changed, and searched by the name of a host   *)
(* or by an address.                                                       *)
(*                                                                         *)
(* A pool is a function from the keys it holds to TRUE when the entry was  *)
(* written with '^' (strict match).  The keys of a host list are names,    *)
(* those of an IP set are prefixes; an IP literal among the hosts has no   *)
(* parent, which is what no_match_subdomains does for it.                  *)
(***************************************************************************)
EXTENDS Naturals, Sequences, FiniteSets

CONSTANTS Hosts,      \* names a list or a request can hold
          Parent,     \* [Hosts -> Hosts \cup {NoHost}]: the name after the first dot
          Files,      \* lists registered by the profiles
          Inline      \* the lists given on the command line, which have no file

\* "@&()", which MakeAutolistsNonEmpty adds so that an automatic list is never
\* taken for an absent one.
Impossible == "@&()"
NoHost == ""    \* hostname == NULL

EmptyPool == <<>>
PoolAdd(pool, key, strict) ==
  IF key \in DOMAIN pool THEN pool
  ELSE [k \in DOMAIN pool \cup {key} |-> IF k = key THEN strict ELSE pool[k]]

\* The signature of a file and the one of a list that was never loaded.
Stat(f) == <<f.mtime, Cardinality(DOMAIN f.content)>>
NoSig == <<0, 0>>
Unloaded == [sig |-> NoSig, pool |-> EmptyPool]

\* One list: a file that cannot be examined leaves the memory as it is, one
\* that cannot be opened empties it and keeps the old signature.
Examined(name, file) == name \notin Inline /\ file.there
UpToDate(name, e, file) == Examined(name, file) => e.sig = Stat(file)
LoadOk(name, e, file) == UpToDate(name, e, file) \/ file.readable
\* Mutant: the file is read on top of the old entries.
LoadHostListOver(name, e, file) ==
  IF UpToDate(name, e, file) THEN e
  ELSE [sig |-> Stat(file),
        pool |-> [k \in DOMAIN e.pool \cup DOMAIN file.content |->
                    k \in DOMAIN e.pool /\ e.pool[k]]]
LoadHostList(name, e, file) ==
  IF UpToDate(name, e, file) THEN e
  ELSE IF file.readable THEN [sig |-> Stat(file), pool |-> file.content]
  ELSE [e EXCEPT !.pool = EmptyPool]

\* A collection is a sequence of lists; the check stops at the first failure.
Failing(mem, disk, coll) ==
  {i \in DOMAIN coll : ~LoadOk(coll[i], mem[coll[i]], disk[coll[i]])}
ReloadOk(mem, disk, coll) == Failing(mem, disk, coll) = {}
Touched(mem, disk, coll) ==
  {coll[i] : i \in {j \in DOMAIN coll : \A k \in 1..(j - 1) : k \notin Failing(mem, disk, coll)}}
Reloaded(mem, disk, coll) ==
  [f \in DOMAIN mem |-> IF f \in Touched(mem, disk, coll)
                        THEN LoadHostList(f, mem[f], disk[f]) ELSE mem[f]]

MakeAutolistsNonEmpty(mem, autos) ==
  [f \in DOMAIN mem |-> IF f \in autos /\ mem[f].pool = EmptyPool
                        THEN [mem[f] EXCEPT !.pool = PoolAdd(EmptyPool, Impossible, FALSE)]
                        ELSE mem[f]]

\* HostlistsReloadCheck over the two collections of a profile: the exclude
\* lists are looked at only when the include lists could be read.
ReloadedOne(mem, disk, coll, autos) ==
  IF ReloadOk(mem, disk, coll)
  THEN MakeAutolistsNonEmpty(Reloaded(mem, disk, coll), autos)
  ELSE Reloaded(mem, disk, coll)
HostlistsReloaded(mem, disk, incl, excl, autos) ==
  LET first == ReloadedOne(mem, disk, incl, autos)
  IN IF ReloadOk(mem, disk, incl) THEN ReloadedOne(first, disk, excl, autos) ELSE first
HostlistsReloadOk(mem, disk, incl, excl) ==
  /\ ReloadOk(mem, disk, incl)
  /\ ReloadOk(Reloaded(mem, disk, incl), disk, excl)

\* The names a search looks up: the host and what follows each of its dots.
Domains[h \in Hosts] ==
  {h} \cup IF Parent[h] \in Hosts THEN Domains[Parent[h]] ELSE {}
SearchHostList(pool, h) ==
  \E d \in Domains[h] \cap DOMAIN pool : d = h \/ ~pool[d]

CollectionEmpty(mem, coll) == \A i \in DOMAIN coll : mem[coll[i]].pool = EmptyPool
InCollection(mem, coll, h) == \E i \in DOMAIN coll : SearchHostList(mem[coll[i]].pool, h)

\* HostlistCheck_ once the lists are loaded: exclusion wins, and include lists
\* that are all empty let every host pass.
Excluded(mem, excl, h) == InCollection(mem, excl, h)
\* Mutant: the exclude lists are not searched.
HostlistCheckIncludeFirst(mem, incl, excl, h) ==
  CollectionEmpty(mem, incl) \/ InCollection(mem, incl, h)
HostlistCheck(mem, incl, excl, h) ==
  /\ ~Excluded(mem, excl, h)
  /\ CollectionEmpty(mem, incl) \/ InCollection(mem, incl, h)

-----------------------------------------------------------------------------
\* IP sets. A prefix is a sequence of bits; the tree of kavl_bit compares two
\* prefixes on the shorter of the two, so that it never holds both a network
\* and a part of it: an added prefix is dropped when a wider one is there, and
\* otherwise evicts the narrower ones.
Overlap(p, q) == \A i \in 1..(IF Len(p) < Len(q) THEN Len(p) ELSE Len(q)) : p[i] = q[i]
PrefixAdd(set, p) ==
  IF \E q \in set : Overlap(p, q) /\ Len(q) <= Len(p) THEN set
  ELSE {q \in set : ~Overlap(p, q)} \cup {p}
SearchIpset(set, addr) == \E q \in set : Overlap(q, addr)

\* IpsetCheck_ over pools whose keys are prefixes.
IpsetCheck(mem, incl, excl, addr) ==
  LET hit(coll) == \E i \in DOMAIN coll : SearchIpset(DOMAIN mem[coll[i]].pool, addr)
  IN \/ incl = <<>> /\ excl = <<>>
     \/ ~hit(excl) /\ (CollectionEmpty(mem, incl) \/ hit(incl))
=============================================================================
