----------------------------- MODULE ProxyListen -----------------------------
(***************************************************************************)
(* How tpws comes to listen (main of tpws.c): bind by bind it waits for    *)
(* the interface to be up and for an address that the options allow, then  *)
(* it binds to what it found, which may have gone in between.              *)
(*                                                                         *)
(* A request is a bind of the command line (AnyBind of ProxyOptions); an   *)
(* address is [iface, kind]. The system lists its addresses in any order.  *)
(***************************************************************************)
EXTENDS Integers, Sequences, FiniteSetsExt

CONSTANTS Requests,   \* sequences of binds
          Ifaces,
          MaxMoves    \* bound: changes of interfaces and addresses

Kinds == {"v4", "ll", "private", "global"}
Addresses == [iface : Ifaces, kind : Kinds]
Anywhere == [iface |-> "any", kind |-> "any"]

\* What a bind may ask for: an address of its own ("none" if not), an interface,
\* a family, link-local addresses or not, and three limits in seconds.
Binds == [addr : STRING, iface : Ifaces \cup {"none"}, v6 : BOOLEAN,
          ll : {"unwanted", "no", "prefer", "force"}, ifup : Nat, ip : Nat, ipll : Nat]
ASSUME ListenAssumption ==
  /\ "none" \notin Ifaces
  /\ \A r \in Requests : r \in Seq(Binds) /\ r # <<>>

VARIABLES request, transparent, waitOnly,  \* options
          iface,      \* per interface "absent", "down" or "up"
          present,    \* addresses of the system
          moves,      \* changes so far
          stage, at,  \* place in main, and the bind it is at
          sec,        \* seconds of the wait that is going on
          list,       \* per bind prepared: [addr, left, sec, seen]; the last two are ghosts
          waited      \* ghost: seconds waited for each bind

listen == <<request, transparent, waitOnly, iface, present, moves, stage, at, sec, list, waited>>

ListenInit ==
  /\ request \in Requests /\ transparent \in BOOLEAN /\ waitOnly \in BOOLEAN
  /\ iface \in [Ifaces -> {"absent", "down", "up"}]
  /\ present \in {{}} \cup {{a} : a \in Addresses}
  /\ moves = 0 /\ stage = "prepare" /\ at = 1 /\ sec = 0
  /\ list = <<>> /\ waited = [i \in DOMAIN request |-> 0]

Bind == request[at]
Options == UNCHANGED <<request, transparent, waitOnly>>
World == UNCHANGED <<iface, present, moves>>
Stay == UNCHANGED <<list, waited>>
Sleep == waited' = [waited EXCEPT ![at] = @ + 1]
Fail == stage' = "failed" /\ UNCHANGED <<at, sec>>
Chosen(a, left) ==
  /\ list' = Append(list, [addr |-> a, left |-> left, sec |-> sec, seen |-> present])
  /\ sec' = 0
  /\ IF at < Len(request) THEN at' = at + 1 /\ stage' = "prepare"
     ELSE IF waitOnly THEN stage' = "done" /\ UNCHANGED at
     ELSE at' = 1 /\ stage' = "bind"

Prepare ==
  /\ stage = "prepare"
  /\ stage' = IF Bind.iface # "none" /\ Bind.ifup > 0 /\ iface[Bind.iface] # "up"
              THEN "ifup" ELSE "index"
  /\ Options /\ World /\ Stay /\ UNCHANGED <<at, sec>>
\* The interface that comes up in the last second is given up all the same.
WaitIfup ==
  /\ stage = "ifup"
  /\ Sleep
  /\ IF sec + 1 >= Bind.ifup THEN Fail
     ELSE IF iface[Bind.iface] = "up" THEN stage' = "index" /\ sec' = 0 /\ UNCHANGED at
     ELSE sec' = sec + 1 /\ UNCHANGED <<stage, at>>
  /\ Options /\ World /\ UNCHANGED list
Index ==
  /\ stage = "index"
  /\ IF Bind.iface # "none" /\ iface[Bind.iface] = "absent" /\ Bind.ip <= 0 THEN Fail /\ Stay
     ELSE IF Bind.addr = "bad" THEN Fail /\ Stay
     ELSE IF Bind.addr # "none" THEN Chosen([iface |-> "given", kind |-> Bind.addr], Bind.ip) /\ UNCHANGED waited
     ELSE IF Bind.iface # "none" \/ Bind.ll # "unwanted"
          THEN stage' = "search" /\ Stay /\ UNCHANGED <<at, sec>>
     ELSE Chosen(Anywhere, Bind.ip) /\ UNCHANGED waited
  /\ Options /\ World

\* bindll_1: for the first seconds a preference is a demand.
\* Mutant: the preference is all there is.
BindllAtOnce(b, s) == b.ll
Bindll(b, s) ==
  CASE b.ll = "prefer" /\ s < b.ipll -> "force"
    [] b.ll = "unwanted" /\ s < b.ipll -> "no"
    [] OTHER -> b.ll
\* find_listen_addr: the first pass that has an address decides.
V4(b) == {a \in present : a.kind = "v4" /\ b.iface = a.iface /\ ~b.v6}
V6(b) == {a \in present : a.kind # "v4" /\ IF b.iface = "none" THEN b.ll \in {"prefer", "force"}
                                           ELSE b.v6 /\ a.iface = b.iface}
Passes(ll) ==
  CASE ll = "force" -> <<{"ll"}>>
    [] ll = "prefer" -> <<{"ll"}, {"private"}, Kinds>>
    [] ll = "no" -> <<{"private"}, {"private", "global"}>>
    [] ll = "unwanted" -> <<{"private"}, {"private", "global"}, Kinds>>
FindListenAddr(b, ll) ==
  LET c == [b EXCEPT !.ll = ll]
      pass(i) == {a \in V6(c) : a.kind \in Passes(ll)[i]}
      some == {i \in DOMAIN Passes(ll) : pass(i) # {}}
      six == IF some = {} THEN {} ELSE pass(Min(some))
  IN V4(c) \cup six
\* The system may fail to list its addresses (getifaddrs).
SearchAddress(found) ==
  /\ stage = "search"
  /\ found => FindListenAddr(Bind, Bindll(Bind, sec)) # {}
  /\ IF found
     THEN /\ \E a \in FindListenAddr(Bind, Bindll(Bind, sec)) : Chosen(a, Bind.ip - sec)
          /\ UNCHANGED waited
     ELSE IF sec >= Bind.ip THEN Fail /\ Stay
     ELSE Sleep /\ sec' = sec + 1 /\ UNCHANGED <<stage, at, list>>
  /\ Options /\ World

\* bind: an address that is not there, or not yet usable, is tried again each
\* second while time is left.
CanBind(a) == transparent \/ a = Anywhere \/ a.iface = "given" \/ a \in present
BindTo(outcome) ==
  /\ stage = "bind"
  /\ outcome = "ok" => CanBind(list[at].addr)
  /\ CASE outcome = "ok" ->
            /\ IF at < Len(request) THEN at' = at + 1 /\ UNCHANGED stage
               ELSE stage' = "listening" /\ UNCHANGED at
            /\ Stay /\ UNCHANGED sec
       [] outcome = "unavailable" /\ ~transparent /\ list[at].left # 0 ->
            /\ list' = [list EXCEPT ![at].left = @ - 1] /\ Sleep
            /\ UNCHANGED <<stage, at, sec>>
       [] OTHER -> Fail /\ Stay
  /\ Options /\ World

Moves(i, to, p) ==
  /\ moves < MaxMoves /\ stage \notin {"failed", "done", "listening"}
  /\ moves' = moves + 1
  /\ \/ iface' = [iface EXCEPT ![i] = to] /\ UNCHANGED present
     \/ present' = p /\ UNCHANGED iface
  /\ Options /\ UNCHANGED <<stage, at, sec, list, waited>>

ListenNext ==
  \/ Prepare \/ WaitIfup \/ Index \/ (\E found \in BOOLEAN : SearchAddress(found))
  \/ \E outcome \in {"ok", "unavailable", "error"} : BindTo(outcome)
  \/ \E i \in Ifaces, to \in {"absent", "down", "up"}, a \in Addresses :
       Moves(i, to, IF a \in present THEN present \ {a} ELSE present \cup {a})

-----------------------------------------------------------------------------
\* What the system had for this bind when it chose.
Rivals(b, c) ==
  {a \in c.seen : a.kind # "v4" /\ (b.iface # "none" => a.iface = b.iface)}
Suits(b, c) ==
  IF b.addr # "none" THEN c.addr = [iface |-> "given", kind |-> b.addr]
  ELSE IF b.iface = "none" /\ b.ll = "unwanted" THEN c.addr = Anywhere
  ELSE LET kind == c.addr.kind
           rivals == {a.kind : a \in Rivals(b, c)}
       IN /\ c.addr \in c.seen
          /\ b.iface # "none" => c.addr.iface = b.iface /\ (kind = "v4") = ~b.v6
          /\ b.iface = "none" => kind # "v4"
          /\ kind # "v4" =>
               /\ b.ll = "force" => kind = "ll"
               /\ b.ll = "no" => kind # "ll"
               /\ b.ll = "prefer" /\ kind # "ll" => c.sec >= b.ipll /\ "ll" \notin rivals
               /\ b.ll = "unwanted" /\ kind = "ll" =>
                    c.sec >= b.ipll /\ rivals \cap {"private", "global"} = {}
               /\ kind = "global" => "private" \notin rivals
\* The proxy listens where it was asked to: each address is of the interface
\* and family of its bind, link-local or not as demanded, and one that is only
\* second choice was taken after the time to wait for the first choice and
\* when there was none; and for no bind it waits longer than its two limits
\* together (main and find_listen_addr, tpws.c:1727-2080).
ListensAsAsked ==
  /\ \A i \in DOMAIN list : Suits(request[i], list[i])
  /\ \A i \in DOMAIN request : waited[i] <= request[i].ifup + request[i].ip
=============================================================================
