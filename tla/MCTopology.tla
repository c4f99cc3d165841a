----------------------------- MODULE MCTopology -----------------------------
(***************************************************************************)
(* Small instances of VirtUsbTopology for TLC.                             *)
(***************************************************************************)
EXTENDS VirtUsbTopology, TLC

\* One kind of device.
OneDevice == {{"full"}}

\* Devices of different speeds, one of them with a choice.
TwoKinds == {{"full"}, {"low", "high"}}

\* Clients and ports are interchangeable.
Symmetry == Permutations(Clients) \cup Permutations(Ports)
=============================================================================
