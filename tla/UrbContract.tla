----------------------------- MODULE UrbContract -----------------------------
(***************************************************************************)
(* What the data plane promises, seen from outside: the life of each       *)
(* transfer and who takes part in it.  There are no lists, locks, threads  *)
(* or references here.                                                     *)
(***************************************************************************)
CONSTANTS Ids, Files, Devices, NoFile, NoDevice

VARIABLES
    bound,  \* the (device, owner) pairs of registered backends
    job     \* each transfer's phase, device and the backend it is routed to

contractVars == <<bound, job>>

Phases == {"none", "offered", "waiting", "routed", "answered", "cancelled", "done"}

Job(p, d, f) == [phase |-> p, device |-> d, owner |-> f]
Nothing == Job("none", NoDevice, NoFile)
Done == Job("done", NoDevice, NoFile)

Init ==
    /\ bound = {}
    /\ job = [t \in Ids |-> Nothing]

Move(t, from, to) ==
    /\ job[t].phase \in from
    /\ job' = [job EXCEPT ![t] = to]

\* The host offers a URB for device d.
Offer(t, d) ==
    /\ Move(t, {"none"}, Job("offered", d, NoFile))
    /\ UNCHANGED bound

\* A URB is refused: it never reaches a backend and the host has it back.
Refuse(t) ==
    /\ Move(t, {"none", "offered"}, Done)
    /\ UNCHANGED bound

\* An offered URB is accepted only for a device that has a backend.
Accept(t) ==
    /\ \E b \in bound : b.device = job[t].device
    /\ Move(t, {"offered"}, Job("waiting", job[t].device, NoFile))
    /\ UNCHANGED bound

\* A waiting transfer is routed to the backend bound to its device.
Route(t, f) ==
    /\ [device |-> job[t].device, owner |-> f] \in bound
    /\ Move(t, {"waiting"}, Job("routed", job[t].device, f))
    /\ UNCHANGED bound

\* A backend that could not be handed the transfer gives it back unseen.
Unroute(t) ==
    /\ Move(t, {"routed"}, Job("waiting", job[t].device, NoFile))
    /\ UNCHANGED bound

\* Only a transfer that is routed, to f, is answered by f.
Answer(t, f) ==
    /\ job[t].owner = f
    /\ Move(t, {"routed"}, Job("answered", job[t].device, f))
    /\ UNCHANGED bound

\* An unlink, an unregistration or a removal ends an accepted transfer.
Drop(t) ==
    /\ Move(t, {"waiting", "routed"}, Job("cancelled", job[t].device, job[t].owner))
    /\ UNCHANGED bound

\* The host gets the URB back.
End(t) ==
    /\ Move(t, {"answered", "cancelled"}, Done)
    /\ UNCHANGED bound

Bind(d, f) ==
    /\ \A b \in bound : b.device # d /\ b.owner # f
    /\ bound' = bound \cup {[device |-> d, owner |-> f]}
    /\ UNCHANGED job

Unbind(b) ==
    /\ b \in bound
    /\ bound' = bound \ {b}
    /\ UNCHANGED job

TransferStep(t) ==
    \/ \E d \in Devices : Offer(t, d)
    \/ Refuse(t)
    \/ Accept(t)
    \/ \E f \in Files : Route(t, f) \/ Answer(t, f)
    \/ Unroute(t)
    \/ Drop(t)
    \/ End(t)

Next ==
    \/ \E t \in Ids : TransferStep(t)
    \/ \E d \in Devices, f \in Files : Bind(d, f)
    \/ \E b \in bound : Unbind(b)

Spec == Init /\ [][Next]_contractVars
=============================================================================
