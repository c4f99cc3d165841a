----------------------------- MODULE MCLifecycle -----------------------------
(***************************************************************************)
(* Small instances of VirtUsbLifecycle for TLC.                            *)
(***************************************************************************)
EXTENDS VirtUsbLifecycle

\* Devices are numbered: the registry is searched in the order of ids.
TwoDevices == 1..2

\* Only the first instance may fail, so that user space cannot have begun.
FirstFails == {0}

\* Every instance may fail.
AnyFails == Instances
=============================================================================
