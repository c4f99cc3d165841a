-------------------------- MODULE BackendRefinement --------------------------
(***************************************************************************)
(* VirtUsbBackend implements UrbContract.  A transfer's phase is read off  *)
(* where its request is: nowhere yet, in the hands of submit, in a list,   *)
(* in the hands of the handler that took it, or back with the USB core.    *)
(***************************************************************************)
EXTENDS VirtUsbBackend

HeldAt(t, p) == \E th \in Threads : At(th, p) /\ call[th].req = t

PhaseOf(t) ==
    CASE t > next_id              -> "none"
      [] resolved[t] > 0          -> "done"
      [] HeldAt(t, "submit")      -> "offered"
      [] t \in Range(pending)     -> "waiting"
      [] t \in Range(active)      -> "routed"
      [] HeldAt(t, "complete")    -> "answered"
      [] HeldAt(t, "giveback")    -> "cancelled"

JobOf(t) ==
    [phase |-> PhaseOf(t),
     device |-> IF PhaseOf(t) = "done" THEN NoDevice ELSE xfer[t].device,
     owner |-> CASE PhaseOf(t) = "done"     -> NoFile
                 [] PhaseOf(t) = "answered" ->
                       call[CHOOSE th \in Threads : At(th, "complete")
                                         /\ call[th].req = t].file
                 [] OTHER                   -> owner[t]]

Contract == INSTANCE UrbContract
            WITH bound <- bindings, job <- [t \in Ids |-> JobOf(t)]

\* Every step of the data plane is a step of the contract or changes nothing in
\* it: URBs are accepted only for bound devices, routed only to the bound file,
\* answered only by the file they are routed to, and each ends once.
ImplementsContract == Contract!Spec
=============================================================================
