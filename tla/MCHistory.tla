------------------------------ MODULE MCHistory ------------------------------
(***************************************************************************)
(* SupervisorHistory with the constants of MCSupervisor.                   *)
(***************************************************************************)
EXTENDS MCSupervisor, SupervisorHistory
=============================================================================
