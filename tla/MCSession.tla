----------------------------- MODULE MCSession -----------------------------
(* One or two backends on one port for TLC.                                 *)
EXTENDS VirtUsbSession

AnyProgram == [Procs -> {"device", "unregister", "rollback"}]
TestDevices == [Procs -> {"device"}]
MCPortOf == [p \in Procs |-> CHOOSE n \in Ports : TRUE]
=============================================================================
