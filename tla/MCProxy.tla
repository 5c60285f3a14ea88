------------------------------ MODULE MCProxy ------------------------------
(***************************************************************************)
(* Small instances of TcpProxy: a client and a server that send a few      *)
(* units through sockets that hold one or two.                             *)
(***************************************************************************)
EXTENDS TcpProxyProperties

Base == [mode |-> "transparent", tamper |-> TRUE, nosplice |-> FALSE, start |-> 0, startForm |-> "b",
         cutoff |-> 0, cutoffForm |-> "b",
         auto |-> FALSE, listed |-> FALSE, excluded |-> FALSE, fails |-> 0, threshold |-> 2,
         maxOrphan |-> TRUE, resets |-> FALSE]
MCSettings ==
  {Base, [Base EXCEPT !.tamper = FALSE, !.resets = TRUE],
   [Base EXCEPT !.cutoff = 2, !.cutoffForm = "n", !.maxOrphan = FALSE],
   [Base EXCEPT !.auto = TRUE, !.fails = 1, !.nosplice = TRUE, !.resets = TRUE],
   [Base EXCEPT !.mode = "socks", !.start = 1, !.cutoff = 2]}
MCSends == [c \in Legs |-> IF c = "local" THEN 3 ELSE 2]
=============================================================================
