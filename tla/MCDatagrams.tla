---------------------------- MODULE MCDatagrams ----------------------------
(***************************************************************************)
(* Values of the constants of Datagrams for model checking: a hello of     *)
(* three units in two datagrams that overlap and come padded and out of    *)
(* order, with an Initial that cannot be read, one that only acknowledges, *)
(* and voice traffic on the same flow.                                     *)
(***************************************************************************)
EXTENDS Datagrams

Part(frames) == [NoDatagram EXCEPT !.conn = "q", !.kind = "initial", !.len = 1, !.frames = frames]
Halves == [q |-> {Part(<<Crypto(1, 1), Pad, Crypto(0, 1)>>), Part(<<Crypto(1, 2)>>)}]
Kinded(kind) == [Part(<<>>) EXCEPT !.kind = kind]
Strays == [q |-> {Part(<<Ack>>), Kinded("garbled"), Kinded("other"), Kinded("discord"),
                  [Kinded("other") EXCEPT !.len = 0]}]
Hello3 == [size |-> 3, sni |-> 2, host |-> "a"]

Base == [l7 |-> {}, start |-> 0, startMode |-> "n", cutoff |-> 0, cutoffMode |-> "n", wsCutoff |-> 0,
         wsCutoffMode |-> "n", retrans |-> 2, auto |-> FALSE, anyProto |-> FALSE,
         skipNoSni |-> FALSE, mode |-> "fake", mode2 |-> "none"]
\* A profile with a list kept by hand that stops after four datagrams, an
\* automatic one for QUIC, and one for the rest that fragments.
Plans == <<[Base EXCEPT !.cutoff = 4],
           [Base EXCEPT !.auto = TRUE, !.l7 = {"quic"}],
           [Base EXCEPT !.mode = "fakeknown", !.mode2 = "ipfrag2", !.anyProto = TRUE, !.skipNoSni = TRUE]>>
\* The profiles that suit the flow, what the first two say of the host, and an
\* automatic list that is edited while its profile counts.
Rule(fits, first1, second) == [hello |-> Hello3, fits |-> fits, says |-> <<first1, second, "empty">>]
SomeRules == {Rule({1, 2, 3}, "unlisted", "unlisted"), Rule({1, 2, 3}, "listed", "unlisted"),
              Rule({1, 3}, "unlisted", "unlisted"), Rule({1, 2}, "unlisted", "excluded"),
              [Rule({2, 3}, "unlisted", "unlisted") EXCEPT !.hello.sni = 0]}
SomeEdits == {<<1, "unlisted">>, <<2, "excluded">>, <<2, "unlisted">>}

\* The frames of the hello assemble right, however they are cut: every sequence
\* of up to three frames (QUICDefragCrypto).
ASSUME FramesAssemble ==
  \A n \in 0..3 : \A frames \in [1..n -> {Crypto(o, l) : o \in 0..3, l \in 0..2} \cup {Pad, Ack}] :
    AssemblesRight(frames)
=============================================================================
