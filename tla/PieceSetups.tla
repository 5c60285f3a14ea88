---------------------------- MODULE PieceSetups ----------------------------
(***************************************************************************)
(* Profiles and requests for model checking PieceSender.                   *)
(***************************************************************************)
EXTENDS SplitSegments

Abs(n) == [m |-> "abs", pos |-> n]
At(m, n) == [m |-> m, pos |-> n]
Plain == [mode |-> "fake", mode2 |-> "none", splits |-> <<>>, seqovl |-> Abs(0),
          order |-> 0, order0 |-> 0, hostOrder |-> 0, midhost |-> Abs(0),
          idMode |-> "seq", fakes |-> 2, ip6 |-> FALSE]

\* A ClientHello of eight units for "ab.c", in one packet or in two; the first
\* packet's id is just below the point where ids wrap, or so that the parts that
\* follow two fakes reach it.
Req == [l7 |-> "tls", len |-> 8, method |-> Nowhere, host |-> 2, labels |-> <<2, 1>>, sniext |-> 1]
Pk(off, len, id) == [off |-> off, len |-> len, id |-> id]
One == <<Pk(0, 8, IdSpace - 2)>>
Edge == <<Pk(0, 8, IdSpace - 3)>>
TwoPk == <<Pk(0, 5, IdSpace - 2), Pk(5, 3, IdSpace - 1)>>
Late == <<Pk(0, 2, 3), Pk(2, 6, 4)>>

Markers == {<<Abs(1), At("midsld", 0)>>, <<Abs(-2), At("endhost", 1)>>, <<At("sld", 0), Abs(6), Abs(1)>>}
Overlap == {Abs(0), Abs(1), Abs(2), At("midsld", -1), Abs(5)}
SplitModes == {"multisplit", "multidisorder", "fakedsplit", "fakeddisorder"}
Splitting ==
  {[Plain EXCEPT !.mode = f, !.mode2 = m, !.splits = s, !.seqovl = o, !.order = n, !.order0 = n] :
     f \in {"fake", "hopbyhop"}, m \in SplitModes, s \in Markers, o \in Overlap, n \in 0..3}
Useful == {x \in Splitting : /\ x.mode2 \in {"multisplit", "multidisorder"} => x.order = 0
                             /\ x.mode = "hopbyhop" => x.seqovl = Abs(0)}
Others ==
  {[Plain EXCEPT !.mode = f, !.mode2 = m, !.hostOrder = h, !.midhost = mid, !.idMode = i, !.ip6 = v] :
     f \in {"fake", "rst", "destopt", "fakeknown"}, m \in {"none", "hostfakesplit", "ipfrag2"},
     h \in {0, 1}, mid \in {Abs(0), At("midsld", 0)}, i \in {"seq", "seqgroup", "zero"}, v \in BOOLEAN}
Setup(x, k, n) == [d |-> x, r |-> Req, ks |-> k, n |-> n]
Retried == {Setup(x, TwoPk, 2) : x \in {y \in Useful : y.order = 0 /\ y.seqovl = Abs(0)}}
All == {Setup(x, k, 1) : x \in Useful \cup Others, k \in {One, Edge, TwoPk, Late}} \cup Retried
=============================================================================
