------------------------------- MODULE MCFlow -------------------------------
(***************************************************************************)
(* Values of the constants of Flow for model checking.                     *)
(***************************************************************************)
EXTENDS FlowProperties, TLC

\* One profile that works on every TCP connection.
Plain == [l3 |-> {4}, tcp |-> {}, udp |-> {}, l7 |-> {}, incl |-> <<>>, excl |-> <<>>,
          ipIncl |-> <<>>, ipExcl |-> <<>>, auto |-> NoFile, failTime |-> 2, threshold |-> 2,
          retrans |-> 2, start |-> 0, startMode |-> "n", cutoff |-> 0, cutoffMode |-> "n",
          wsCutoff |-> 0, wsCutoffMode |-> "n", noForced |-> FALSE, skipNoSni |-> FALSE,
          anyProto |-> FALSE, mode |-> "split"]
\* Another one for port 80 stops after three packets with payload.
UpTo3 == <<[Plain EXCEPT !.tcp = {80}, !.cutoff = 3, !.cutoffMode = "d"],
           [Plain EXCEPT !.skipNoSni = TRUE]>>

Server(port) == [fam |-> 4, proto |-> "tcp", port |-> port, addr |-> <<1, 0>>]
Hello(size, sni) == [l7 |-> "tls", hello |-> size, sni |-> sni, host |-> "a.b", total |-> size,
                     to |-> Server(443)]
\* A ClientHello of three units for either profile, one without a name, and
\* one that announces more than the engine is ready to hold.
Hellos ==
  LET h == Hello(3, 2)
  IN [Conns -> {h, [h EXCEPT !.to = Server(80)], [h EXCEPT !.sni = 0], [h EXCEPT !.hello = 9]}]
Client5 == [c \in Conns |-> [fam |-> 4, proto |-> "tcp", port |-> 5, addr |-> <<0, 0>>]]
Parents == [h \in Hosts |-> IF h = "a.b" THEN "b" ELSE NoHost]
NearWrap == [c \in Conns |-> SeqSpace - 2]
Nothing == <<>>
Empty == [f \in Files |-> EmptyPool]

\* A list kept by hand, an automatic one with an exclude list, and the rest.
ByHand == [Plain EXCEPT !.incl = <<"list">>, !.anyProto = TRUE]
Learning == [Plain EXCEPT !.incl = <<"auto">>, !.excl = <<"excl">>, !.auto = "auto",
                          !.l7 = {"tls", "http"}]
Rest == [Plain EXCEPT !.mode = "none"]
Three == <<ByHand, Learning, Rest>>
Pool(h) == h :> FALSE
Lists == [f \in Files |-> CASE f = "list" -> Pool("d") [] OTHER -> Pool("c")]
Edits == ("excl" :> {Pool("b")}) @@ ("list" :> {Pool("b"), EmptyPool})
Single == [Hello(1, 1) EXCEPT !.total = 1]
Get(h) == [Single EXCEPT !.l7 = "http", !.host = h]
Requests == {[c \in Conns |-> IF c = "c1" THEN Single ELSE Get(h)] : h \in {"c", "d"}}
=============================================================================
