------------------------------ MODULE MCBackend ------------------------------
(***************************************************************************)
(* Small instances of VirtUsbBackend for TLC.                              *)
(***************************************************************************)
EXTENDS BackendRefinement, TLC

\* Threads of one kind, files, devices and URBs are interchangeable.
Symmetry ==
    Permutations(HostThreads) \cup Permutations(UserThreads)
        \cup Permutations(Files) \cup Permutations(Devices) \cup Permutations(Urbs)
=============================================================================
