# FOG Prime: TLA+ models of the Agent, the packet engine and the proxy

FOG Prime keeps Discord and YouTube reachable on Windows. A small UI starts a
local Agent; the Agent decides whether traffic goes through a packet engine
(`FOG.Engine.exe`, the Windows build `winws` of the upstream program `nfqws`) or
directly through a VPN that is already up, and it starts, adopts, qualifies,
replaces and stops Engine processes. The engine's source is part of the
repository (`src/FOG.Engine/upstream`), together with its siblings: the proxy
`tpws`, the resolver `mdig` and the address tool `ip2net`.

This directory holds TLA+ modules translated from the C# and C code under `src/`,
TLC runs that check them on small instances, and TLAPS proofs of the safety
properties that matter most.

1. [Inventory](#1-inventory)
2. [Modules, and how they correspond to the code](#2-modules-and-how-they-correspond-to-the-code)
3. [What is abstracted](#3-what-is-abstracted)
4. [Properties](#4-properties)
5. [Runs, bounds and mutants](#5-runs-bounds-and-mutants)
6. [Fairness](#6-fairness)
7. [Proofs](#7-proofs)
8. [Where the code differs from its documents](#8-where-the-code-differs-from-its-documents)
9. [Not modelled](#9-not-modelled)

## 1. Inventory

### Parts and their state

**Agent** (`src/FOG.Agent`, C#)

| Part | State it keeps | Operations | Status |
| --- | --- | --- | --- |
| `EngineSupervisor` | the attached process and its profile, wanted or not, direct mode or not, the qualification of a new Engine (pending, failures, attempted profiles), the last probe list, the tunnel seen last, the remembered profile, the last snapshot | start, stop, recheck, status; reconcile, recover; the handler of `Process.Exited` | modelled |
| `TransportPolicy` | none | may direct mode be used, may a pending profile be rotated, may a profile be remembered | modelled |
| `ProfileRotation`, `ProfileSearch` | the profile tried next; a score per profile, whether a voice session is wanted | order, move past, prefer; record, best, reset | modelled |
| `SessionRecoveryPolicy`, `DriverConflictBackoff` | failures in a row and their times; recent driver conflicts and the pause | observe; record, active pause, reset | counts and pauses, not their lengths |
| `PreferredProfileStore`, `EngineSessionLeaseStore` | `preferred-profile.json`, `engine-session.json` | load, save, clear | one field each |
| `Worker`, `AgentPipeServer` | the signature saved last; four connection slots | two loops; the commands of the pipe | what reaches the supervisor |
| `ConnectionHealthChecker`, `ExternalTunnelDetector`, `RuntimeIntegrityVerifier` | none | probes, the tunnel that is up, hashes | their results |
| UI, state file, logs, service manager | | | not modelled, section 9 |

**Packet engine** (`src/FOG.Engine/upstream/nfq`, C)

| Part | State it keeps | Operations | Status |
| --- | --- | --- | --- |
| host lists and IP sets (`hostlist.c`, `ipset.c`, `pools.c`) | per list its entries and the signature of the file read | load, reload when the file changed, search with parents | modelled |
| profile selection, automatic lists (`desync.c`, `pools.c`) | counters of failed requests per profile | `dp_find`, `auto_hostlist_failed`, append | modelled |
| connection tracking (`conntrack.c`, `packet_queue.c`) | per connection its state, counters, positions, reassembly buffer, held packets | feed, purge, reassembly, queue | modelled |
| TCP and UDP handlers (`desync.c`, `protocol.c`) | the packet at hand, the cache of host names | one packet: profile, limits, reassembly, replay, lists, verdict | modelled |
| splitting and fakes (`desync.c`) | `ip_id` of the connection | all modes that cut, reorder, overlap, fake | modelled |
| command line, filter (`nfqws.c`, `params.c`) | profiles, lists, fakes | options, `--new`, `--skip`, `wf_make_filter` | modelled |
| capture loop of winws (`nfqws.c`, `darkmagic.c`) | the driver's handle, the networks seen | open, receive, wait for a network, end | modelled |
| raw sockets, cryptography, privileges, other systems | | | partly or not, section 9 |

**Proxy and tools** (`tpws`, `mdig`, `ip2net`, C)

| Part | State it keeps | Operations | Status |
| --- | --- | --- | --- |
| event loop and legs (`tpws_conn.c`) | two sockets per connection, pipe and four send buffers per leg, epoll masks and the flags they are cached from | accept, connect, SOCKS, relay, half-close, delayed close, limits | modelled |
| tampering (`tamper.c`) | block counters, lists | split a block, flags per part | that it happens, not the bytes |
| resolver threads (`resolver.c`) | jobs | queue, answer, orphan | modelled as one thread |
| command line and listening (`tpws.c`) | profiles, binds | options; wait for interface and address, bind, retry | modelled |
| `mdig` | input, two logs, counters, locks | look up lines in threads, parse replies | modelled |
| `ip2net` | the sorted list of addresses | find the networks | modelled |

### How they interact

```
MainWindow -> AgentClient ==named pipe==> AgentPipeServer --+
                                                            |  start stop recheck status
Worker: compatibility loop (2 s)  -- reconcile ------------>+--> _gate --> EngineSupervisor
        health loop (3/5/20 s)    -- recover -------------->+                |  |  |
Process.Exited (thread pool, no gate) ---------------------------------------+  |  |
                                     files: lease, preferred profile <----------+  |
                                     tunnel detector, probes, Engine processes <---+
                                                                     |
   command line -> profiles, lists, filter -> capture loop <---------+
                                                  | packet
     lists <-- files     conntrack <--> TCP / UDP handler --> pieces --> network
```

The Agent and the engine share nothing but the process: its command line, its
exit code, and the traffic the probes see. The Agent's model therefore takes the
engine as an environment that starts, exits and answers probes in any way; the
engine's models know no Agent. `tpws`, `mdig` and `ip2net` are programs of their own.

Every operation of the supervisor takes the semaphore `_gate` and keeps it across
awaits that last seconds. While it waits there, three things may still change
what it read before: the network, an Engine that exits together with its handler
on another thread, and a stop request, which clears `_desiredRunning` *before* it
queues for the gate. The engine has one thread, but it holds packets back across
captures, plays them through the same handler again, and reads list files that
change under it. The proxy has one thread and an event loop whose events may be
older than the state they meet.

### What is hard, and what makes each part correct

* **The supervisor.** Interleaving of an operation with exits, tunnel changes and
  stop requests between any two awaits; state that lives across many operations
  (the search); crash of the Agent between launching an Engine and saving its
  lease; kills that time out; a launch that fails after the old Engine is gone.
  Correct means: never two WinDivert filters, never one under a tunnel the Agent
  trusts, a bounded and justified choice of profiles, no verdict on evidence of
  another route, a stop that holds, a wanted connection that returns, and a gate
  that always comes free.
* **The packet path.** A request in several segments is held until it can be read;
  segments are lost, repeated, overlap; the session ends by a dozen exits of two
  long handlers. Correct means: what is captured leaves once and in order, what is
  held is exactly one unfinished request, and the request arrives in the end.
* **Profiles and lists.** Profile, host and verdict change as more of the request
  is known, from the cache, the real name and the protocol. Correct means: the
  profile that acts fits the host, an excluded host is neither split nor learned,
  and what is in memory is what the file holds.
* **Pieces.** Positions from markers that may be equal, out of range or at an end;
  `ip_id` that wraps; sends that fail after half of the pieces. Correct means: the
  receiver reads the request, and nothing of the junk.
* **Command lines.** One parser with state (anonymous lists, TLS modifications,
  `--skip`) shared by all profiles, and a filter that must show the engine what
  its profiles act on without taking more.
* **The relay.** Four buffers, a pipe and a cached mask per leg; events of one turn
  that meet a leg closed by an earlier one. Correct means: each direction keeps its
  units and their order, no wake-up is missed, and both legs are freed.
* **Start and tools.** Waiting for networks, interfaces and addresses that come and
  go; threads over one input; blocks at the ends of the address space.

`PROJECT.json` lists the hazards at their lines, with the properties that would
catch each one, or the reason why none does. Smaller ones it does not list:
`--dpi-desync-autottl6=-` is replaced by the IPv4 setting when the profiles are
completed (`nfqws.c:3496`); a TTL of 256 would be 0 in its byte; two equal
`--wf-raw-part` cancel in the key against a second instance (`nfqws.c:3378`);
`SO_ERROR`, which reading clears, is read at two places of the proxy
(`tpws_conn.c:739`, `:764`); a resolver whose write to the pipe fails
(`resolver.c:119`) leaves its connection waiting.

## 2. Modules, and how they correspond to the code

```
Agent
  TransportPolicy   ProfileRotation            pure decisions
            \         /
           ProfileSearch                       scores, best, voice requirement
                 |
          EngineSupervisor                     state, actions, Spec, FairSpec
                 |
        SupervisorProperties                   TypeOK, safety, liveness
          /      |        \
  MCSupervisor   |    SupervisorHistory        what the steps have done so far
          \      |        /
           \   MCHistory                       constants for TLC
            \
  SupervisorTypes -> EngineSupervisorProofs -> HistoryProofs            theorems

Packets
  HostLists -> ProfileSelection --+
  Conntrack ----------------------+-> TcpDesync -> Flow -> FlowProperties -> MCFlow
      |                                                        |
      +--- QuicCrypto -> QuicDesync -> Datagrams -> MCDatagrams|
                                           \                   |
                                            +-- PacketPath <---+   abstract specification
  SplitSegments -> PieceSetups, PieceSender                        pieces on the wire
  SequenceFacts -> FlowProofs, DatagramsProofs                     theorems

Proxy
  ProxySockets (the kernel) -> ProxyLegs -> TcpProxy -> TcpProxyProperties -> MCProxy
  TcpProxyProperties, SequenceFacts -> ProxyProofs                            theorems

Command lines, start, tools
  TlsFakes -> EngineOptions -> CaptureFilter -> ProxyOptions -> CommandLines --+
  CaptureLoop   ProxyListen   NameLookups   AddressCover   PieceSender --------+-> MCTools
  CaptureLoop, ProxyListen, TlsFakes, NameLookups -> ToolsProofs               theorems
```
(`SupervisorTypes` extends `SupervisorProperties`, `HistoryProofs` also
`SupervisorHistory`, `FlowProofs` extends `FlowProperties`, `ProxyProofs`
`TcpProxyProperties`: no proof module depends on an MC module.)

### Agent

**`TransportPolicy`, `ProfileRotation`, `ProfileSearch`** are operators, one per
method. A probe list is a function from probe names to BOOLEAN; a profile is its
index in the catalogue, which is sorted by priority and fixed while the Agent
lives.

**`EngineSupervisor`.**

| Variable | In the code |
| --- | --- |
| `tunnel` | what `FindActiveTunnel` would return now |
| `procs` | the Engine processes of the machine and the profile each really runs |
| `lease`, `pref` | the two files of the stores |
| `engine` | `_engine` with `_activeProfile` |
| `exit` | an `Exited` event raised and not handled yet, with its exit code class |
| `m` | the other fields of the supervisor and of the policies it owns |
| `pc`, `op` | the code between two awaits that runs next, and the locals it uses |
| `waiting` | commands that wait for the gate |
| `snap` | `_latestSnapshot`, what a client is told while the gate is taken |

Each action is one stretch of code between two awaits, with every call it makes:
`StartBest`, for instance, is `StartBestAsync` from the granted gate to its first
await, whichever of its three branches leads there. The labels in order of a start:

```
idle -> startProbe -> startBest -> adopt -> stale -> candidates -> kill -> start -> lease -> settle -> idle
                                     `-> idle (adopted)    ^__________________________________|  (exited early)
```
and of a check of a running Engine:
```
idle -> refresh -> engineProbe -> apply -> idle                              kept
                                    |-> kill -> startBest ...                rotated
                                    |-> kill -> restore -> lease -> restored no profile left: best again
                                    `-> kill -> persistent -> startBest ...  three failures when qualified
```
with `recheckProbe`, `recoverDirect`, `recoverEngine`, `reevaluate` and
`directProbe` for the other checks.

Methods that only touch fields (`ResetStartupCycle`,
`MarkStartupQualificationPending`, `EnterDirectMode`, ...) are functions from the
memory before to the memory after, composed in the order of the calls. The
environment is `TunnelChanges`, `EngineExits`, `ExitedHandler`, `TimePasses` and
`Request`; the faults are `AgentCrash`, `KillTimesOut`, `VerifyFails`,
`LaunchFails` and `SaveLeaseFails`, each switched on by its name in the constant
`Faults`.

**`SupervisorHistory`** adds one record, `hist`, computed from the steps alone and
never read by them: what carried the last probes, failed checks in a row through
the current process, automatic launches in the current search, and how far the
last stop has come. `Tracked` names the fields a run follows, so no run pays for
the others. What ends a search, in `SearchEnds`, is what resets the launch count: a
command is taken, an Engine exits, another tunnel is evaluated, a check keeps the
profile, a persistent failure begins a search of its own, an operation fails, or
the driver back-off interrupts one. Everything else must not launch again.

### Packets

**`HostLists`** has a pool of entries, a signature (modification time and size) and
the functions that load, reload and search; **`ProfileSelection`** has `dp_find` and
the decision to learn a host. Host names are model values with a `Parent`, which is
the name after the first dot; addresses are members of prefixes.

**`Conntrack`** is the entry of a connection as a record, and each C function an
operator on it: `ConntrackFeed`, the reassembly (`ReasmStart`, `ReasmFeed`, ...), the
purge. Sequence numbers are taken modulo `SeqSpace`, and all distances are computed
modulo it, as the code does with 32-bit differences.

**`TcpDesync`** is `dpi_desync_tcp_packet_play` cut where it calls something that may
look at the world (a list reload) or comes back to itself (the replay):

```
idle -> find -> limits -> gate -> payload -> classify -> discover -> check -> act -> done
                   |                           |   ^          |
                   `-> inbound (answers)       |   `----------+------- replay: next held packet
                                               `-> done (held), or replay when the request is whole
from inbound and payload, when a request failed: recheck -> append -> sign -> back
```
An answer to a connection that has no entry goes the way of an outgoing packet, as
`bReverse` stays false then (`desync.c:1224`). `pc` is the place, `cur` the packet, `dp` the profile in force, `loc` what the
handler has found out, `out` what was sent since the capture. **`Flow`** puts it between
clients with a small window that retransmit, servers that acknowledge, a network
that loses, a censor that resets or redirects, and an editor of list files;
**`FlowProperties`** states what must hold.

**`QuicCrypto`** is `QUICDefragCrypto`: frames sorted, overlaps dropped, holes
detected, the size read off the front. **`QuicDesync`** is
`dpi_desync_udp_packet_play`, **`Datagrams`** its surroundings. Of the lists
(`HostLists` has them) it knows what those of each profile say of the host of the
run (`says`), which edits change on the way; the verdict that an entry keeps of
them (`bCheckDone` and its companions) may therefore be older than the lists.

**`PacketPath`** is the abstract specification both handlers implement: a captured
packet leaves once or is held; held ones leave in order and before any later
payload of their connection; only what the engine forgets with its connection is
lost. The refinement mapping takes `held` from the queues of the entries, with the
packet in replay put back at the head of its queue, `here` from the captured packet
until it is decided, and `sent` from `out` without the fakes.

**`SplitSegments`** computes, for a packet and the options of a profile, the pieces
sent instead: the real parts, the fakes, the overlaps (`seqovl`), the order and the
`ip_id` of each. **`PieceSender`** sends them, with failing raw sends, over a network
that reorders and loses, to a TCP receiver that reads what comes first, while the
client sends again what was lost; a request sent again from its first byte is split
again (`Resplit`).
**`PieceSetups`** lists profiles and requests for its runs.

### Proxy

**`ProxySockets`** is the kernel: external, modelled from how `tpws_conn.c` calls it.
**`ProxyLegs`** has one operator per function of `tpws_conn.c` that handles a leg; each
takes the pair of legs and gives the pair it leaves. The range of tampering counts
units of the stream or, with the form `n`, blocks (`Position`). **`TcpProxy`** is the loop: `Wait`
takes the events that are there, `HandleLeg` and `HandleResolver` handle one each,
while client, server, network and resolver go on. Units that leave the program
unsent are recorded with the reason, a ghost that only `LossHasReason` and
`RelayIntact` read.

### Command lines, start, tools

**`TlsFakes`**, **`EngineOptions`**, **`CaptureFilter`** and **`ProxyOptions`** are the parsers:
an option is a record of its name and its argument as that option reads it, and an
operator takes the program's state `p` to the next. **`CommandLines`** reads a command
line from left to right, completes the profiles and makes the filter. `AsAsked`
compares the result with a reading of the options by position that has no parser
state; `SeesWhatIsNeeded` asks, packet by packet, what the handlers would do with it
(`HasEffect`, from `desync.c` and `conntrack.c`, not from the filter) and whether the
filter takes it.

**`CaptureLoop`** is `win_main` with `windivert_recv`; **`ProxyListen`** the part of
`main` of tpws that waits and binds; **`NameLookups`** the threads of mdig;
**`AddressCover`** the search of ip2net. `MCTools` runs these independent parts in one
state space: a variable says which part runs, the others stay at rest.

## 3. What is abstracted

Agent:

* **Code between two awaits is atomic**, except that the Exited handler and stop
  requests run between any two stretches. `StopInternalAsync` is split at its
  await, since a kill may time out, and `StartProfile` before its lease is saved,
  since the Agent may die there.
* **Durations.** A deadline the code compares with the clock has passed or not,
  nondeterministically: the 30 s a wanted voice session is given
  (`ApplyInconclusive` and its successors are both possible), the 60 s and 5 min
  of `SessionRecoveryPolicy` (`ApplyStable` stays possible at three failures), the
  5 min hold after an exhausted search and the back-off pause (both end by
  `TimePasses`). What is proved or checked holds for every timing.
* **Probe results** come from a set the environment chooses from;
  `OutcomeAssumption` asks only that they are non-empty probe lists.
* **Network identity** is the tunnel only. `PreferredProfileStore` also keys on
  the network and on age (7 days) and version: a file under another context, too
  old or unreadable is the absent file.
* **A process identity** is a pid with its start time, which the code compares, so
  it is never reused while a lease or an attached process names it.
* **Commands**: at most one outstanding of each kind. A second identical command
  in the queue acts as one taken later.
* **Gate order.** A free gate may be taken by any waiter; `SemaphoreSlim` serves
  them in order, so the model has more behaviours than the code. Fairness
  (section 6) and the property about queued starts (`StopSticks`) account for it.
* **Branches that are not there.** `_waitingForTunnel` is never set to true, and
  `NeverDefers` (proved) shows that `DeferToActiveTunnelAsync` never finds a
  tunnel to defer to. The step is kept in the model as `Defer`; left out are the
  stop of a running Engine inside it, which its own condition excludes, and the
  snapshot mode "tunnel-wait".
* Logging, texts of the snapshot, the protected-game label and the signature of
  the lease.

Engine, proxy and tools:

* **Bytes.** A unit of payload is as much as a detection needs; that bytes make a
  request of some protocol is a field of the stream. Which bytes a fake, a changed
  header or a tampered request has is left out, as are checksums and header
  options. What makes a fake die before the server (TTL, wrong checksum) is not
  modelled: a fake is a piece the receiver does not read.
* **One request per connection** in `Flow`: a second HTTP request on a kept connection,
  which may name another host and so change profile and verdict (`desync.c:1708`), is
  not there. `ExcludedNeverSplit` and `ProfileFitsHost` are about the first; two
  requests with different hosts come on two connections.
* **Cryptography** is the difference between an Initial packet that decrypts
  and one that does not.
* **What only reports read**: counters of the reply side, window sizes, debug output.
* **Sockets** hold a few units; an error of the kernel is an event, not a number.
* **One connection at a time in the proxy**: the list of connections, its limit and
  orphans are settings of the environment (`maxOrphan`), since legs of
  different connections share nothing else.
* **Threads of the resolver** are one: its jobs share no state but the pipe.
* **Options that print and end** the program (`--version`, `--wf-save`, `--dry-run`)
  are not there.

## 4. Properties

| Property | What it says |
| --- | --- |
| **Agent** | |
| `TypeOK` (`SupervisorProperties`) | types of all variables, memory fields and locals |
| `AtMostOneEngine` | two Engine processes never live at once |
| `DirectModeOwnsNoEngine` | in direct mode no attached Engine lives |
| `NoEngineUnderDirectMode` | without faults, in direct mode no Engine lives at all |
| `ActiveProfileIsReal` | the profile the Agent reports is the one the process runs |
| `HealthIsFresh` | an Engine counts as healthy only on probes made through it |
| `NeverDefers` | a start never rests on old healthy probes |
| `StopSticks` | after a stop has returned, no Engine comes back and the connection stays unwanted until the next start; direct mode is not spoken of, as a check under a healthy tunnel may enter it (`EngineSupervisor.cs:287`) |
| `BoundedSearch` | a search makes at most one launch per profile and one rollback |
| `SwitchNeedsTwoFailures` | a pending Engine is replaced only after two failed checks in a row through it |
| `CommandsAnswered` | every command is answered |
| `WantedConnectionReturns` | a wanted connection is restored after anything |
| **Packets** | |
| `KeepsPackets`, `KeepsDatagrams` | the handlers implement `PacketPath` |
| `HeldIsReassembled` | held segments are one unbroken, unfinished request, the same the buffer holds |
| `HeldIsIncomplete` | held datagrams are what the buffer has, and not yet a whole hello |
| `RequestDelivered`, `HelloAnswered` | the request arrives, however it is cut, lost, repeated and held |
| `FakesLead` | fakes come before a whole request, never inside it |
| `TypeOK` (`Datagrams`) | the reassembly buffer never holds more than it was made for |
| `SignatureMeansContent` | a list with the file's signature holds the file's entries |
| `ExcludedNeverSplit` | a request of an excluded host is not cut |
| `ProfileFitsHost` | the profile that acts is the one found with the real host and protocol |
| `LearnedIsNew` | a host is learned only when no list of the profile knows it |
| `ReportsAreEarned` | a flow is reported once, after as many repeats as its automatic profile waits for, each under lists that did not know the host |
| `JunkNeverRead`, `NothingMissing` | the receiver reads the request and nothing of the overlap |
| `FakeIdsDiffer` | no fake has the `ip_id` of a part, save in a replay that begins with the id of an earlier one and in multidisorder whose ids step over zero |
| **Proxy** | |
| `TypeOK` (`TcpProxyProperties`) | shapes; a job points to a living leg, and no send buffer is filled twice |
| `RelayIntact` | each direction holds exactly the units sent, in order, save recorded losses |
| `LossHasReason` | a unit is lost only for a reset, a refusal, early data, or one of two known gaps |
| `MaskFits` | the epoll mask lets a leg do what it has to: no missed wake-up |
| `LegsReleased` | both legs are freed in the end |
| **Command lines, start, tools** | |
| `AsAsked` | each group of options is one profile with what was given for it, automatic TTLs and an IPv6 TTL of its own included, and nothing else |
| `SeesWhatIsNeeded` | a packet that the `--wf` options name is captured if a profile copies it, changes its TTL or flags, replaces it, follows its connection by it or counts it as a failure; section 8 lists what the filter does not provide for |
| `OnlyOnNetwork` | packets are taken at most a second after the last sight of a wanted network |
| `ListensAsAsked` | the proxy binds to what suits the request, after the waits it was given |
| `LinesAnswered` | every line of mdig is answered once and counted |
| `CoverIsExact` | the networks of ip2net hold every address, disjoint, and as full as asked wherever the product with the block's size fits the width |

## 5. Runs, bounds and mutants

| Run | Checks | Bounds |
| --- | --- | --- |
| `search` | `BoundedSearch`, `SwitchNeedsTwoFailures` | 3 profiles, 2 pids, 5 outcomes, driver exits, no tunnel |
| `tunnel` | `NoEngineUnderDirectMode`, `NeverDefers`, `HealthIsFresh`, `StopSticks` | 1 profile, 2 pids, 1 tunnel or none, start, stop and recheck, exits |
| `faults` | `TypeOK`, `AtMostOneEngine`, `DirectModeOwnsNoEngine`, `ActiveProfileIsReal` | 2 profiles, 2 pids, 1 tunnel, 3 outcomes of different score, start and recheck, exits, all five faults |
| `recovery` | `WantedConnectionReturns` | 1 profile, 1 pid, 1 tunnel, start, exits |
| `commands` | `CommandsAnswered`, `WantedConnectionReturns` | 1 profile, 1 pid, 3 outcomes, start, stop and status, driver exits with their pauses |
| `flow` | `HeldIsReassembled`, `KeepsPackets`, `RequestDelivered` | 1 connection in any state at start, hellos of 3 units, one of them without a name and one too large, 2 profiles, window 3, segments of 1 or 2 units, sequence numbers modulo 16 that wrap in the request, 1 trouble, 1 reuse of the ports, 1 tick |
| `lists` | `SignatureMeansContent`, `ExcludedNeverSplit`, `ProfileFitsHost`, `LearnedIsNew` | 2 connections to one address, 4 hosts, a kept, an automatic and an exclude list, 3 profiles, resets of a censor, 1 edit, 1 tick |
| `datagrams` | `TypeOK`, `HeldIsIncomplete`, `FakesLead`, `ReportsAreEarned`, `KeepsDatagrams`, `HelloAnswered` | 1 flow, a hello of 3 units in two datagrams that overlap, 5 other kinds of datagram, buffer of 3, 3 profiles, 3 edits of their lists, 2 troubles (losses, other datagrams or edits), 1 tick |
| `proxy` | `TypeOK`, `RelayIntact`, `LossHasReason`, `MaskFits`, `LegsReleased` | 1 connection, send buffers of 1 and receive buffers of 2 units, 3 units from the client and 2 from the server, 5 option sets |
| `tools` | `AsAsked`, `SeesWhatIsNeeded`, `OnlyOnNetwork`, `ListensAsAsked`, `LinesAnswered`, `CoverIsExact`, `JunkNeverRead`, `NothingMissing`, `FakeIdsDiffer` | command lines of up to 4 options out of one of 8 groups, 4 seconds and 2 packets, 1 interface with 3 changes, 2 threads with 3 lines, lists of 6 out of 14 addresses of 5 bits, both ends and the edges of blocks, some 1900 setups of pieces with 1 failing send and 1 loss |
| `vproof` | `DirectModeIsProven`, violated | as `tunnel`, start only |
| `vshut` | `ShutWhenEmpty`, violated | as `proxy` |

Why these bounds are enough:

* **Three profiles** give a search a first, a middle and a last candidate, a best
  that is not the current one, and a wrap of the rotation.
* **Two pids** are a process and its successor; a third could live only if two
  already did, which `AtMostOneEngine` excludes. They are interchangeable, hence
  `PidSymmetry` in the safety runs and none in the liveness runs.
* **One tunnel or none** suffices for a tunnel that appears, vanishes and
  comes back during a check. A change from one tunnel to another takes the same
  path as `ReconcileChanged` after a vanishing; the theorems hold for any set.
* **Outcomes**: everything passes, everything fails, a client that is connected
  although one endpoint fails (kept), a voice session that fails, and one that is
  idle, which lifts the voice requirement. They make every branch of
  `ApplyEngineProbeResultsAsync` reachable, equal and different scores included.
* **Counters** are capped where the code stops telling values apart: `qfails` at 2
  (only `>= 2` is asked), `failures` at 3, `hist.launches` at `NumProfiles + 2`
  (one more than the claim), `hist.bad` at 3; packet counters of a connection at
  `CountCap`, above every limit of a profile.
* **Three units** of a request are a first, a middle and a last part, so that any of
  them can be missing, repeated or overtaken, and the name can be in the part that
  comes last. The hello that exceeds `MaxReasm` takes the path without reassembly.
* **`SeqSpace`** is four times the window; the initial number is just below it, so
  positions wrap within the request. `Grace` is half of it, as `0x1000000` is far
  beyond any window and far below the wrap.
* **Two connections** to one address share the name cache and the lists, which is
  all connections share in the engine.
* **One unit of send buffer** makes every send of two units partial; **two of receive
  buffer** let data and the end of the stream be seen together or apart.
* **`tools`** enumerates inputs; its bounds are the length of the inputs. The addresses
  reach both ends of the five bits and fill blocks of several sizes; with the largest
  block, 16, the product leaves the five bits, and `CoverIsExact` promises only the
  cover there. The `ip_id` of a packet is low or one to three below the wrap, so that
  fakes or parts cross it. Two threads can meet at each lock.

Deadlock is checked in every run of the Agent: its two loops never stop, so an
Agent without a possible step would be a bug. The other runs may stop: all packets
are sent and the clock is at its bound, both legs are freed, the input is at its end.

Every property of a passing run has a mutant in `PROJECT.json`: an operator beside
the original, marked `Mutant:`, with a plausible mistake, under which TLC finds the
property violated. Examples: processes no lease vouches for are not stopped
(`AtMostOneEngine`), a stop request does not clear `_desiredRunning`
(`StopSticks`), the held packets are sent after the packet that ends the session
(`KeepsPackets`), a buffer that ends its session is not freed (`RequestDelivered`),
all buffers of a leg are written before the first is empty (`RelayIntact`), the
overlap is used whatever is sent before it (`JunkNeverRead`), `--new` keeps the
anonymous lists (`AsAsked`).

## 6. Fairness

**Agent.** `Fairness` has these conjuncts.

* `WF_vars(GateStep)`: the holder of the gate goes on. Every await it makes is
  bounded: probes have time limits, a kill waits 5 s, the settle delay is 300 ms,
  and verification reads local files.
* `SF_vars` of each operation that takes the gate. The gate is free only now and
  then, so weak fairness would promise nothing; `SemaphoreSlim` queues its
  asynchronous waiters and serves them in order, and the loops of `Worker` come
  back every few seconds, so each of them gets the gate whenever it is wanted
  again and again.
* `WF_vars(ExitedHandler)` and `WF_vars(TimePasses)`: Windows delivers the
  exit, and pauses end.

Nothing is assumed of tunnels, exits or commands: an Engine may exit for ever, and
no tunnel has to come or go. Probes have no fairness either. The liveness
properties therefore say that the Agent keeps restoring the connection, not that
the network is good.

**Packets** (`Flow`, `Datagrams`). `WF_vars(Engine)`: the engine has one thread and no
wait inside a handler. `WF_vars(Transmit)`: what it has sent goes out. `SF_vars` of
each kind of packet of the ends: TCP retransmits and repeats what is not
acknowledged, QUIC repeats its Initials, servers acknowledge; strong, because they
can be captured only while the engine is idle. Losses, resets, other traffic and
ticks have none and are bounded by `MaxTrouble` and `MaxTime`: a network that
loses everything delivers nothing, whatever the engine does.

**Proxy** (`TcpProxy`). The loop goes on while there are events: this is the weak
fairness of `Program`, whose enabling condition, a pending batch or a socket that
is ready, is written out as `ProgramIdle`. A resolver thread serves its job, the
network delivers and answers a connect, and the ends send all they have and then
end: `LegsReleased` is about connections that end.

The runs of safety properties alone use `Spec`; `tools` has no liveness.

## 7. Proofs

All theorems are about the specification without fairness, hence about every
behaviour with or without it, for every value of the constants. The assumptions
are the named ones of the modules.

| Theorem | States | Inductive invariant |
| --- | --- | --- |
| `TypeInvariant`, `TypeCorrect` | `[]TypeInv`, `[]TypeOK` | `TypeInv` |
| `OneEngine` | `[]AtMostOneEngine` | `OneInv` (with `TypeInv`) |
| `ProfileIsReal` | `[]ActiveProfileIsReal` | `RealInv` |
| `DirectMode` | `[]DirectModeOwnsNoEngine` | `DirectInv` |
| `NoEngineInDirectMode` | `Faults = {}` implies `[]NoEngineUnderDirectMode` | `OwnedInv` (with `DirectInv`) |
| `StartsWithoutProof` | `[]NeverDefers` | `DeferInv` |
| `HealthStaysFresh` | with the carrier tracked, `[]HealthIsFresh` | `FreshInv` (with `DownInv`) |
| `SwitchAfterTwoFailures` | with failed checks tracked, `SwitchNeedsTwoFailures` | `BadInv` (with `DownInv`) |
| `StopIsKept` | `Faults = {}` and stops tracked: `[]StopSticks` | `StopInv` (with `OneInv`, `OwnedInv`) |
| `TakesOnlyOnNetwork` | `[]OnlyOnNetwork` | `LoopInv` |
| `ListensWhereAsked` | `[]ListensAsAsked` | `ListenInv` |
| `AllLinesAnswered` | `[]LinesAnswered` | `LookupsInv` |
| `RoomIsEnough`, `LengthsStayTrue` | a fake hello has room for its changes, and its lengths move with its size | none: lemmas on operators |
| `DatagramTypes` | `[]TypeOK` of `Datagrams` | `PathInv` |
| `HeldStaysIncomplete`, `FakesComeFirst` | `[]HeldIsIncomplete`, `[]FakesLead` | `PathInv` (theorem `PathIsKept`) |
| `ReportsEarned` | `[]ReportsAreEarned` | `RepeatsInv` (with `PathInv`) |
| `DatagramsAreKept` | `KeepsDatagrams`: `Datagrams` implements `PacketPath` | `PathInv` |
| `HeldIsOneRequest` | `[]HeldIsReassembled` | `FlowInv` (theorem `FlowKept`) |
| `PacketsAreKept` | `KeepsPackets`: `Flow` implements `PacketPath` | `FlowInv` |
| `ExcludedNotSplit`, `ChosenByName` | `Tidy` implies `[]ExcludedNeverSplit`, `[]ProfileFitsHost` | `ChoiceInv` (with `FlowInv`) |
| `SignaturesTell` | `Alone` implies `[]SignatureMeansContent` | `Honest` (with `FlowInv`) |
| `OnlyNewLearned` | `Legible` implies `LearnedIsNew` | `LearnInv`, `ReadInv` (with `FlowInv`) |
| `ProxyTypes` | `[]TypeOK` of `TcpProxyProperties` | `ProxyInv` (theorem `ProxyInvHolds`) |
| `RelayIsIntact` | `[]RelayIntact` | `ProxyInv` |

Assumptions of the Agent's theorems: a non-empty catalogue, `NoTunnel` is no tunnel
and `NoPid` no pid, outcomes are non-empty probe lists, commands, exit codes and
faults are among the known ones. Those of the others:

* the buffer of a name has at least two bytes (128 in the code);
* `ListenAssumption`: the binds of tpws have interfaces that are not "none" and
  limits that are natural numbers, which excludes a negative `--bind-wait-ip` that the
  parser accepts and which makes the time left true for ever (`tpws.c:2113`);
* `LookupAssumption`: mdig makes at least one attempt and one thread, and its lines and
  answers are of the known kinds;
* `DatagramAssumption`: a datagram fits the buffer it is read into, which is as
  large as that of a session (16384 bytes, `nfqws.c:553` and `desync.c:84`), and lists say
  one of four things of a host;
* `FlowAssumption`: what a client asks is shorter than the sequence space, so that
  one request does not wrap onto itself (2^32 in the code), and nobody writes the
  entry that marks an automatic list, `@&()`, which is no name, into a file;
* `ProfilesAssumption`: the lists of a profile are registered files, and its automatic list
  is one of its include lists, as `--hostlist-auto` makes it (`nfqws.c`);
* `Tidy`, `Alone`, `Legible` are hypotheses of single theorems, on the configuration and on
  who may touch the files (below: what they exclude, and why they are needed);
* `CapAssumption`, `ProxyAssumption`: sockets have room for at least one unit, and the
  number of a unit is not that of a SOCKS message, which is how the model tells them
  apart; the option sets are arbitrary.

### Agent

* **`TypeInv` is `TypeOK` with `Placed`.** Types alone are not inductive:
  `op.cand` may be "no profile", but the code that launches reads it. `Placed`
  says where a candidate must be there, where `kill` and `lease` return to, and
  that an exit is pending only for an attached process.
* **`OneInv`.** A launch does not look for other Engines. What makes it safe is the
  path that led to it, the scan for stale processes or the kill of the only one,
  so the invariant follows the process that may still live: at `candidates` only
  the attached one, while a launch waits for a kill only the victim, at `start`
  and `restore` none. An exception in between returns to `idle`, where `OneInv`
  asks only that an attached process is the only one.
* **`RealInv`.** An adopted process gets its profile from the lease, so the
  invariant speaks of the leased process as well as of the attached one.
* **`DirectInv`.** Direct mode is entered where no Engine runs, and must have been
  left wherever one is launched or probed. The delicate case is the known-tunnel
  branch of `ReconcileCompatibilityAsync`, which starts an Engine without clearing
  `_directMode`. It is safe because an idle Agent in direct mode whose connection
  is wanted has seen no tunnel or holds a healthy list, and then that branch is not
  taken; this is the last conjunct.
* **`OwnedInv`.** Without faults, the processes that live are the attached one and
  the victim of a stop in progress. With a crash of the Agent it is false, and so
  is `NoEngineUnderDirectMode` (section 8).

**Properties over many operations** (`HistoryProofs`). There are over
forty actions and four invariants that each look at a few fields only, so the
proofs meet in the lemma `StepShape`: every step that changes anything has one of
ten shapes. It keeps engine and probes (`Keeps`), goes on at another label
(`GoesOn`), returns to `idle` (`Returns`), begins a start with empty probes
(`StartsOver`) or with failed ones (`StartsUnhealthy`), has measured the Engine
(`Checks`), detaches (`Stops`), launches (`Launching`), adopts (`Adopts`) or is a
crash (`Crashes`). Each invariant is then preserved shape by shape.

* **`DeferInv`**: every way to a launch begins with empty probes, with a direct
  check that failed, or with a failed qualification, and nothing on the way
  replaces them. So `AllPassed` is false at every label of a start.
* **`FreshInv`** needs more than `HealthIsFresh`: not only an idle Agent, any place
  but the moment between launch and its lease. A start marks the new process as
  pending before anyone can look; `DownInv` (a direct check and the wait for a kill
  run without an Engine) excludes that a check of the bare route ends beside one.
* **`BadInv`**: the failures counted against a pending profile are at most those
  measured through the present process. A new process begins at zero of both;
  the two counts move together only in `apply`.
* **`StopInv`** follows a stop from its request to its answer. `Asked`: from the
  moment a stop is asked without a start behind it, the wish for a connection
  stays cleared; only a start sets it, which is a lemma of its own. `Detached`: the
  kill and the end of a stop have no attached Engine. `Calm`: after the stop the
  gate is with operations that launch nothing, and no process lives.

### Packets

`SequenceFacts` has what the proofs of packets and relay need about sequences. The induction theorems
of the library take an operator as parameter, which the provers cannot give a
value; they can give one to a set. `NatSets` and `SeqSets` are therefore stated for
sets that contain 0 (or `<<>>`) and are closed under `+ 1` (or `Append`), and are
proved from the least counterexample. They reach recursive functions and the
folds of the community modules: `FlattenAppend` says what `FlattenSeq` does with one
more element, and so what the frames of the held datagrams are.

* **`PathInv`** (`DatagramsProofs`). `HeldIsIncomplete` is false in the middle of a
  replay, when the queue and the buffer part. The invariant asks it, as `Settled`,
  of every entry but the one being replayed, and says at each place of the
  handler what is known of the datagram at hand: that its entry has a profile,
  that nothing is held once the session has ended, that nothing was sent before
  the first fake. The actions on one datagram come down to seven shapes
  (`StepShape`); invariance and refinement are proved per shape.
* **`RepeatsInv`** (`ReportsEarned`). The counter of an entry never exceeds the repeats
  that came while the lists did not know the host (the ghost `repeats`), and a report is
  made when they agree. The verdict that counts may be an old one; what saves the claim is
  that `dp_match` keeps none of an automatic profile, the only one that counts, so its
  lists are asked each time. And a repeat is counted once, though each of its datagrams
  passes the handler: only the first of a replay counts, before anything of it has left.
* **`FlowInv`** (`FlowProofs`). What is held of a TCP connection is one run of adjacent
  segments of its request, which the buffer has and no more (`Session`). The
  handler adds a segment to the buffer two steps before it puts it in the queue,
  and plays the queue through itself when the request is whole or given up; in
  between `PlaceInv` says what holds instead (`Grown`, `Late`). That a segment which
  fits the buffer by its number continues the last one held rests on three
  facts: both lie in one request, shorter than the sequence space; numbers of one
  request that agree modulo the space are equal (`Nonlinear`); and the segments
  belong to the connection the client has now (`AllFresh`), since a reused pair of
  ports starts with a SYN that frees the entry.
* **`Honest`** (`SignaturesTell`). The signature is time and size of a file, in seconds:
  two writes of one second are told apart by the size only, so the model's editors
  do not write twice within a second, but may write at any moment, between a look
  at a list and its use included. The invariant says that the signature in memory
  is never later than the file, and that with equal signatures the entries are equal.
  For a list the engine fills itself the entries agree at every moment, as
  `AppendHost` adds the host to both; the step between append and signature is then
  no exception. `Alone` (nobody else writes or locks those lists) is needed: an entry
  written between the append and the new signature is taken for read and never is (`desync.c:460`).
* **`LearnInv`** (`OnlyNewLearned`). Between the recheck and the append nothing touches
  the memory, so what the recheck found still holds. `Legible` is needed: when a list
  cannot be read the recheck reports neither "listed" nor "excluded", and the host is
  added although it may be on that list.
* **`ChoiceInv`** (`ExcludedNotSplit`, `ChosenByName`). Without edits the lists in memory
  stay those of the start, save the automatic ones (`Settled`), so the search has one
  outcome for given name and protocol (`FindSettled`: the first profile that `Fits`,
  by induction over the profiles). Then: the profile in force is that of the
  connection (`DpPlace`); once the name was read in a request it is the choice for it,
  and stays so (`Told`, `NameInv`); a profile that excludes the name does not pass the
  check (`ActInv`). The replay needs two conjuncts more, as one request is judged
  packet by packet and a profile without the name may cut: all its packets see the
  name or none does (`ReplayInv`), so a packet cut early in a replay was cut by the profile
  in force at its end (`SplitInv`). `Tidy` (no profile chooses by a list that another one
  fills) is needed because learning a host is an edit of such a list.
* **Refinement.** The mapping is that of `PacketPath` (section 2): for both handlers
  the initial states map to initial states, and each action, under the
  invariant, to a step of `PacketPath` or to a stutter. What takes the argument is
  the replay, where the packet in hand is the head of a queue that the entry no
  longer has, and the exits that drop an entry with what it holds.

### Relay

`ProxyProofs` follows a connection of tpws through handlers that call each other ten
deep on one record, so nothing is proved per action of `Next` but the outermost step.
`ProxyInv` has two halves.

* **`PairInv`** is true of the pair of legs after every operation. `LastRead` is what
  makes the buffers safe: those for the end of a stream (`tpws_conn.c:1376`) are filled
  once, because the leg that was read to fill them has ended since, so the program
  does not stop at "buffer is not empty" (line 146). That a leg is not ended twice needs
  `Told` (epoll was told not to report the end again) and, since the events of a turn
  are older than the handlers before them, `Awaits`: an end that was handled is in
  the batch no more. `Quiet` and `Heard` say that nothing is relayed before a SOCKS
  request is served, and that what a client says until then is one message.
* **`Arrives`** is conservation, as one sequence per direction: what the receiver got,
  then the line of send buffer, pipe, the four buffers and receive buffer.

Each operator on the pair has a lemma with one of two shapes. `Still`: flags, masks
and states change, no unit moves (epoll updates, shutdown, close). `Good`: units move,
and each line either stays as a sequence, or loses a block in its middle that is
recorded as lost (`Saves`); `ExactWithout` shows that order and completeness survive.
Both shapes compose, so a handler is the chain of its calls. The handlers of the end
of a stream (`Ended`, `Done`), the end of a turn that frees legs (`Leaves`) and the
resolver's answer (`Resolved`) get shapes of their own, as each breaks one half for
a moment. What the proof shows of the code: the check of line 146 never
fires, whatever the sizes of blocks and sockets.

### Engine's loop, listening, fakes, lookups

* **`LoopInv`** (`CaptureLoop`). The claim speaks of seconds since a network was
  there; the code only remembers the second it asked last. The invariant ties both:
  at the places after a positive answer the last second with a network is at most
  one behind, after a second has begun unseen at most two.
* **`ListenInv`** (`ProxyListen`). The waits for interface and address share one
  counter, the passes of preference end at different times, and a bind that
  finds its address gone is tried again while time is left. The invariant says at each place
  how much of the two limits is used, and that what is in the list suited the
  request when it was chosen.
* **`LookupsInv`** (`NameLookups`). The threads of mdig share input, logs and counters, and
  hold a lock only while they touch one of them. The invariant therefore accounts for
  every line by who has it: the lines read are always the first ones (`FirstRead`), no line is
  in two hands, what a thread knows of its line is true (`Knows`), and each log and counter
  is exactly the lines that nobody has in hand any more at the place where it is written
  (`Logged`, `Counted`). The counters are cardinalities of such sets, so that
  "all were counted" follows once every thread has ended, and `Told` ties the last report
  to them. It holds for any number of threads, whichever could be created.
* **`RoomIsEnough`** (`TlsFakes`) shows that the reserve of a loaded hello covers a
  new name and the padding together, although each of the two changes checks for
  itself; **`LengthsStayTrue`** that record, handshake and extension lengths follow.

`SupervisorTypes` holds one lemma for each function on the memory and one for each
group of actions; the steps in the proof modules cite them.

### Only model-checked

* All liveness (`WantedConnectionReturns`, `CommandsAnswered`, `RequestDelivered`,
  `HelloAnswered`, `LegsReleased`): fairness and ENABLED are out of the prover's reach.
* `BoundedSearch`: the number of launches is bounded by that of the profiles not
  attempted yet, the rotation and the rollback together; the invariant would
  follow all three through every branch of a failed qualification.
* The relay's `LossHasReason` and `MaskFits`: the first needs the order in which the
  peers end, the second what epoll is told at every return of every handler; `ProxyInv`
  says neither.
* `JunkNeverRead`, `NothingMissing`, `FakeIdsDiffer`: the receiver of `PieceSender` is a
  RECURSIVE operator, for which tlapm has no SMT backend.
* `AsAsked`, `SeesWhatIsNeeded`, `CoverIsExact`: TLC enumerates the
  inputs; a proof would be about powers of two and the grammar of options.

## 8. Where the code differs from its documents

Two runs show a difference; their only property states the document.

| Run | Document | Code |
| --- | --- | --- |
| `vproof` | `CHANGELOG.md:37`: probes made through an Engine are no proof that a VPN route is healthy | an Engine qualifies under a tunnel and exits; `EngineSupervisor.cs:213` enters direct mode on its probes |
| `vshut` | `tpws_conn.c:1703`: a leg with unsent data delays its shutdown; `tpws_conn.h:26`: after the end of the stream only unsent buffers are sent | `tpws_conn.c:1748` shuts the partner down without asking for unsent data, whose next write then fails: the data is lost |

The following were met while modelling. They have no run, but each is a trace of
the model, or the reason why a property is stated as it is.

* `ARCHITECTURE.md:15` says reserve profiles are used only after a real Engine
  process failure; `EngineSupervisor.cs:432` replaces a live Engine for failed probes
  (introduced in 0.1.9).
* `CHANGELOG.md:14` says checks helped by a VPN are not saved; line 1016 asks for the
  tunnel when the results are applied, not when they were measured.
* `CHANGELOG.md:84` says direct mode needs a detected, healthy VPN; a recheck after the
  tunnel has closed answers "ready" in direct mode (line 352). The next loop repairs
  it within two seconds.
* `ARCHITECTURE.md:15` says FOG does not layer WinDivert over a tunnel. An Agent
  restarted under a tunnel enters direct mode without looking for the Engine of its
  predecessor (line 82); and an Engine started while the tunnel was unhealthy is
  kept after it recovers, since a running Engine excludes direct mode (line 287).
* The answer "Engine stopped." (`AgentPipeServer.cs:217`) is given although a start
  queued before the stop sets `_desiredRunning` again after the stop has cleared
  it. `StopSticks` therefore speaks of stops no start was queued before.
* The failure counters of an automatic list are purged at most once a second for
  all profiles together (`host_fail_purge_prev`), so that of two profiles only one may
  be purged in a second.
* `docs/readme.md:564` warns of fakes that repeat the nonzero `ip_id` of other packets.
  They do in two cases, which `FakeIdsDiffer` leaves out. For a second request of a
  connection `ctrack->ip_id` is still that of the first, so that its fakes and parts
  begin with the same id. In multidisorder the highest id is found by one addition,
  which skips zero only when it lands on it, while the way down skips it always
  (`desync.c:857`, `:2340`): the lowest part gets the id below its own, that of the last
  fake.
* `docs/readme.md:715` wants the window size changed in every outgoing packet, and
  `:602` says `--orig-autottl` works on the originals. Empty ACKs of an established
  connection are handed to the engine only for `--dup`, a fixed `--orig-ttl` or flags
  (`params.c:348`, `nfqws.c:1692`): with `--wssize` (`desync.c:1350`) or `--orig-autottl`
  (`:957`) alone they leave unchanged.
* `docs/readme.md:1741` says the failure counter is reset when the site answers without
  signs of blocking. The reset is made for incoming payload (`desync.c:1336`), of which
  the filter takes only HTTP redirects and what comes with SYN, FIN or RST, so hardly
  any answer resets it. Nor does it take incoming datagrams, from whose TTL the
  handler would learn the distance (`desync.c:2868`).
* `ip2net --help` includes subnets with more than mul/div addresses. The product is
  taken in 32 bits (`ip2net.c:480`, `:485`): `--prefix-length=9 --v4-threshold=512/513`
  leaves a threshold of 0, and 3/4 overflows for a prefix of 1.
* A part of a split block that a full socket refuses is not kept
  (`tpws_conn.c:1294`): the stream has a gap, one of the two losses `LossHasReason`
  admits.

## 9. Not modelled

* **`AgentClient`, `MainWindow`, `App`, the process job, `PipeServerIdentity`**: the UI's
  side of the pipe. To the supervisor all of it is a command, or a crash of the Agent
  and a new one, which are actions of `EngineSupervisor`. What is left is
  rendering and Windows calls.
* **`AgentStateStore`, `HealthRefreshSignal`, `CompatibilityGuard`,
  `WinDivertServiceManager`, `DiagnosticLog`, `UpdateChecker`, `Program`**: no decision of
  the Agent reads what they do. The order of the writers of `state.json` is a
  hazard without a property.
* **The file operations of the two stores**: `Clear` reads and deletes in one step in
  the model. That the Exited handler may delete a lease saved in between is a
  hazard without a property.
* **The lengths of the timed policies** (seconds, minutes) and clocks set back.
* **`DiscordGatewayEvidence`, `ProfileCatalog`, `RuntimeIntegrityVerifier`**: string
  matching and file reading; their results are inputs.
* **Engine**: header bytes and checksums (`darkmagic.c`), the raw sockets of three
  systems, gzip, the parsers of a line of a list, cryptography, capabilities and
  seccomp (`sec.c`), the Windows service wrapper, the capture loops of Linux and
  BSD (`nfq_main`, `dvt_main`), which hand each packet to the same handlers, and
  conntrack's dump.
* **Proxy**: the bytes of tampering, the redirector of BSD and macOS (`redirect.c`),
  the epoll shim (vendored), daemon mode and privileges.
* **Scripts** of the upstream project for routers, which FOG does not run, `wwwroot`,
  build scripts and tests.
