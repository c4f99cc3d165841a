--------------------------- MODULE VirtUsbSession ---------------------------
(***************************************************************************)
(* Programs of user space at work: the backends under tools/, written with *)
(* libvirtusb or directly on the ioctls, virtusbctl beside them, and the   *)
(* host that enumerates the devices and routes URBs to them.  A backend    *)
(* may be stopped by a signal or killed at any point.                      *)
(*                                                                         *)
(* An ioctl is one step, except that a fetch may sleep and that a faulting *)
(* fetch takes its request and rolls it back in two steps; what happens    *)
(* inside the other ioctls is modelled in VirtUsbBackend and               *)
(* VirtUsbTopology.  urb_enqueue is two steps: it finds the device by the  *)
(* port, and later queues the URB for it.  A device is not freed between   *)
(* the two: the code does not ensure this (see the README).                *)
(***************************************************************************)
EXTENDS Integers, Sequences, FiniteSets, Functions

CONSTANTS
    Procs,          \* backend processes, each of which creates one device
    Programs,       \* what the processes may run: functions from processes to programs
    PortOf,         \* the port it attaches its device to
    Spare,          \* devices that virtusbctl creates
    Ports,          \* ports of the root hub
    Urbs,           \* the host's URBs
    MaxCommands,    \* bound: commands given to virtusbctl
    NoPort, NoUrb, NoDevice

ASSUME SessionAssumption ==
    /\ Programs \subseteq [Procs -> {"device", "unregister", "rollback"}]
    /\ PortOf \in [Procs -> Ports]
    /\ Spare \cap Procs = {}
    /\ NoPort \notin Ports /\ NoUrb \notin Urbs
    /\ NoDevice \notin Procs \cup Spare
    /\ MaxCommands \in Nat

\* A process's device is called after the process.
Devices == Procs \cup Spare

VARIABLES
    program,    \* the program each process runs
    pc,         \* where each process is
    did,        \* what its local variables record: created, attached, ...
    cur,        \* the URB it has fetched
    stop,       \* processes whose stop_requested is set
    life,       \* each device: not created, in the registry, or destroyed
    peer,       \* the port each device is attached to
    signaling,  \* devices that signal their connection
    powered,    \* ports with VBUS
    bound,      \* processes whose file is bound to their device
    change,     \* ports with C_PORT_CONNECTION
    enabled,    \* ports with PORT_ENABLE
    known,      \* ports the host has a usb_device for
    was_reset,  \* devices reset since they were last attached (history)
    urb,        \* each URB: where it is, and the device it was routed to
    pending,    \* the backend's list of pending requests
    submitted,  \* the URBs in the backend, in order of submission (history)
    commands    \* commands virtusbctl was given

procVars == <<pc, did, cur, stop>>
topologyVars == <<life, peer, signaling, powered, change, enabled, was_reset>>
urbVars == <<urb, pending, submitted>>
worldVars == <<program, known, commands>>
vars == <<procVars, topologyVars, bound, urbVars, worldVars>>

OutSteps == {"disconnect", "detach", "unregister", "destroy"}
Pcs == {"open", "create", "attach", "register", "connect", "check", "call", "wait",
        "handle", "fault", "back", "verify1", "unbind", "verify2", "rebind",
        "verify3", "close", "done", "killed"} \cup OutSteps

AtHost == [at |-> "host", port |-> NoPort, dev |-> NoDevice]

Init ==
    /\ program \in Programs
    /\ pc = [p \in Procs |-> "open"] /\ did = [p \in Procs |-> {}]
    /\ cur = [p \in Procs |-> NoUrb] /\ stop = {}
    /\ life = [d \in Devices |-> "new"] /\ peer = [d \in Devices |-> NoPort]
    /\ signaling = {} /\ powered = Ports /\ bound = {}
    /\ change = {} /\ enabled = {} /\ known = {} /\ was_reset = {}
    /\ urb = [u \in Urbs |-> AtHost]
    /\ pending = <<>> /\ submitted = <<>> /\ commands = 0

-----------------------------------------------------------------------------
(* Ports and devices.                                                      *)

ConnectedPorts(pr, sig, pow) == {n \in pow : \E d \in sig : pr[d] = n}
Connected(n) == n \in ConnectedPorts(peer, signaling, powered)

\* Attachment, signaling or power change to pr, sig and pow: a port whose
\* connection changes is marked, and disabled when it is disconnected.
Rewire(pr, sig, pow) ==
    LET was == ConnectedPorts(peer, signaling, powered)
        now == ConnectedPorts(pr, sig, pow)
    IN  /\ peer' = pr /\ signaling' = sig /\ powered' = pow
        /\ change' = change \cup ((was \ now) \cup (now \ was))
        /\ enabled' = enabled \ (was \ now)
        /\ was_reset' = {d \in was_reset : pr[d] \in {peer[d], NoPort}}

\* virtusb_device_create.
DoCreate(d) ==
    /\ life' = [life EXCEPT ![d] = "registered"]
    /\ Rewire(peer, signaling, powered)

\* The lookup of a device by its id, before each of the operations below.
Found(d) == life[d] = "registered"

\* virtusb_device_attach succeeds.
MayAttach(d, n) ==
    Found(d) /\ peer[d] = NoPort /\ \A x \in Devices : peer[x] # n

DoAttach(d, n) ==
    Rewire([peer EXCEPT ![d] = n], signaling, powered) /\ UNCHANGED life

\* virtusb_device_set_connection_signaling.
DoConnection(d, b) ==
    /\ Rewire(peer, IF b THEN signaling \cup {d} ELSE signaling \ {d}, powered)
    /\ UNCHANGED life

DoDetach(d) ==
    Rewire([peer EXCEPT ![d] = NoPort], signaling, powered) /\ UNCHANGED life

\* Slip: a device in use is only unregistered.
DoDestroyAttached(d) ==
    /\ life' = [life EXCEPT ![d] = "destroyed"]
    /\ Rewire(peer, signaling, powered)

\* virtusb_device_destroy, forced or of a device that is not attached.
DoDestroy(d) ==
    /\ life' = [life EXCEPT ![d] = "destroyed"]
    /\ Rewire([peer EXCEPT ![d] = NoPort],
              IF peer[d] = NoPort THEN signaling ELSE signaling \ {d}, powered)

-----------------------------------------------------------------------------
(* The backend's queues.                                                   *)

\* list_del: the list s without the URBs us, the others in their order.
Without(s, us) ==
    LET keep == {i \in DOMAIN s : s[i] \notin us}
        rank(i) == Cardinality({k \in keep : k <= i})
    IN  [j \in 1..Cardinality(keep) |-> s[CHOOSE i \in keep : rank(i) = j]]

\* URBs us go back to the host.
Return(us) ==
    /\ urb' = [u \in Urbs |-> IF u \in us THEN AtHost ELSE urb[u]]
    /\ pending' = Without(pending, us)
    /\ submitted' = Without(submitted, us)

Queued(d) == {u \in Urbs : urb[u].at \in {"pending", "active"} /\ urb[u].dev = d}

\* The (at most one) position of the first pending request for device d.
FirstPending(d) ==
    {i \in DOMAIN pending :
        /\ urb[pending[i]].dev = d
        /\ \A j \in 1..(i - 1) : urb[pending[j]].dev # d}

\* Slip: what the process has fetched is left in the list of active requests.
ReleasePending(p) ==
    /\ bound' = bound \ {p}
    /\ IF p \in bound THEN Return({u \in Queued(p) : urb[u].at = "pending"})
       ELSE UNCHANGED urbVars

\* virtusb_backend_release_owner.
ReleaseOwner(p) ==
    /\ bound' = bound \ {p}
    /\ IF p \in bound THEN Return(Queued(p)) ELSE UNCHANGED urbVars

\* virtusb_backend_register of an attached device.
MayRegister(p) == Found(p) /\ peer[p] # NoPort /\ p \notin bound

\* A fetch takes the first pending request of the file's device.
TakeFirst(p) ==
    \E i \in FirstPending(p) :
        LET u == pending[i] IN
        /\ urb' = [urb EXCEPT ![u].at = "active"]
        /\ pending' = Without(pending, {u})
        /\ cur' = [cur EXCEPT ![p] = u]
        /\ UNCHANGED submitted

\* The request that p has fetched is still there.
Holds(p) == cur[p] # NoUrb /\ urb[cur[p]].at = "active" /\ urb[cur[p]].dev = p

\* virtusb_transfer_complete; it fails when the request is gone.
Complete(p) ==
    IF Holds(p) THEN Return({cur[p]}) ELSE UNCHANGED urbVars

-----------------------------------------------------------------------------
(* The programs: setting up.                                               *)

At(p, x) == pc[p] = x
Goto(p, x) == pc' = [pc EXCEPT ![p] = x]
Record(p, x) == did' = [did EXCEPT ![p] = @ \cup {x}]

\* A step of the set-up either succeeds and is recorded, or the program jumps
\* to its label out.
Succeed(p, x, next) == Goto(p, next) /\ Record(p, x) /\ UNCHANGED <<cur, stop>>
Fail(p) == Goto(p, "disconnect") /\ UNCHANGED <<did, cur, stop>>
Advance(p, next) == Goto(p, next) /\ UNCHANGED <<did, cur, stop>>

\* virtusb_open; it fails when there is no such instance.
Open(p) ==
    /\ At(p, "open")
    /\ Advance(p, "create") \/ Advance(p, "done")
    /\ UNCHANGED <<topologyVars, bound, urbVars, worldVars>>

\* Nothing but the handle is left to release when the creation fails.
Create(p) ==
    /\ At(p, "create")
    /\ \/ DoCreate(p) /\ Succeed(p, "created", "attach")
       \/ UNCHANGED topologyVars /\ Advance(p, "close")
    /\ UNCHANGED <<bound, urbVars, worldVars>>

Attach(p) ==
    /\ At(p, "attach")
    /\ IF MayAttach(p, PortOf[p])
       THEN DoAttach(p, PortOf[p]) /\ Succeed(p, "attached", "register")
       ELSE UNCHANGED topologyVars /\ Fail(p)
    /\ UNCHANGED <<bound, urbVars, worldVars>>

\* virtusb_backend_register, also when a program registers again.
Register(p) ==
    /\ pc[p] \in {"register", "rebind"}
    /\ IF MayRegister(p)
       THEN /\ bound' = bound \cup {p}
            /\ Succeed(p, "registered", IF At(p, "rebind") THEN "verify3" ELSE "connect")
       ELSE UNCHANGED bound /\ Fail(p)
    /\ UNCHANGED <<topologyVars, urbVars, worldVars>>

Connect(p) ==
    /\ At(p, "connect")
    /\ IF Found(p)
       THEN /\ DoConnection(p, TRUE)
            /\ Succeed(p, "connected", IF program[p] = "rollback" THEN "fault" ELSE "check")
       ELSE UNCHANGED topologyVars /\ Fail(p)
    /\ UNCHANGED <<bound, urbVars, worldVars>>

-----------------------------------------------------------------------------
(* The programs: serving.                                                  *)

\* Slip: virtusb-test-device loops for ever.
CheckForever(p) ==
    /\ At(p, "check")
    /\ Advance(p, IF program[p] = "device" \/ "configured" \notin did[p] THEN "call"
                  ELSE IF program[p] = "unregister" THEN "verify1" ELSE "disconnect")
    /\ UNCHANGED <<topologyVars, bound, urbVars, worldVars>>

\* The head of the loop: virtusb-test-device runs until it is asked to stop,
\* the others until the device is configured.
Check(p) ==
    /\ At(p, "check")
    /\ LET over == IF program[p] = "device" THEN p \in stop
                   ELSE "configured" \in did[p]
       IN  Advance(p, IF ~over THEN "call"
                      ELSE IF program[p] = "unregister" THEN "verify1"
                      ELSE "disconnect")
    /\ UNCHANGED <<topologyVars, bound, urbVars, worldVars>>

\* Slip: a fetch that sleeps is not woken by a submission.
FetchOversleeps(p) ==
    /\ At(p, "call")
    /\ \/ TakeFirst(p) /\ Goto(p, "handle")
       \/ FirstPending(p) = {} /\ Goto(p, "wait") /\ UNCHANGED <<cur, urbVars>>
    /\ UNCHANGED <<did, stop, topologyVars, bound, worldVars>>

\* VIRTUSB_IOCTL_TRANSFER_FETCH: take a request or sleep until there is one.
Fetch(p) ==
    /\ \/ /\ pc[p] \in {"call", "wait"}
          /\ TakeFirst(p) /\ Goto(p, "handle")
       \/ /\ At(p, "call") /\ FirstPending(p) = {}
          /\ Goto(p, "wait") /\ UNCHANGED <<cur, urbVars>>
    /\ UNCHANGED <<did, stop, topologyVars, bound, worldVars>>

\* handle_control_transfer and the other answers all complete the request; a
\* SET_CONFIGURATION configures the device.  The completion fails when the host
\* has cancelled the request, and the program ends.
Handle(p) ==
    /\ At(p, "handle")
    /\ cur' = [cur EXCEPT ![p] = NoUrb]
    /\ Complete(p)
    /\ IF Holds(p)
       THEN /\ Goto(p, "check")
            /\ \/ UNCHANGED did
               \/ program[p] # "device" /\ Record(p, "configured")
       ELSE UNCHANGED did /\ Goto(p, "disconnect")
    /\ UNCHANGED <<stop, topologyVars, bound, worldVars>>

\* The fetch of virtusb-test-fetch-rollback with an address that faults: the
\* request is taken, the copy fails, ...
Fault(p) ==
    /\ At(p, "fault")
    /\ TakeFirst(p)
    /\ Goto(p, "back")
    /\ UNCHANGED <<did, stop, topologyVars, bound, worldVars>>

\* Slip: the request is put behind the others.
RollbackToTail(p) ==
    /\ At(p, "back")
    /\ cur' = [cur EXCEPT ![p] = NoUrb]
    /\ IF Holds(p)
       THEN /\ urb' = [urb EXCEPT ![cur[p]].at = "pending"]
            /\ pending' = pending \o <<cur[p]>>
       ELSE UNCHANGED <<urb, pending>>
    /\ Goto(p, "call")
    /\ UNCHANGED <<did, stop, submitted, topologyVars, bound, worldVars>>

\* Slip: whether the request is still there is not checked.
RollbackUnchecked(p) ==
    /\ At(p, "back")
    /\ cur' = [cur EXCEPT ![p] = NoUrb]
    /\ urb' = [urb EXCEPT ![cur[p]].at = "pending"]
    /\ pending' = <<cur[p]>> \o pending
    /\ Goto(p, "call")
    /\ UNCHANGED <<did, stop, submitted, topologyVars, bound, worldVars>>

\* ... and virtusb_backend_fetch_rollback puts it back, if it is still there.
Rollback(p) ==
    /\ At(p, "back")
    /\ cur' = [cur EXCEPT ![p] = NoUrb]
    /\ IF Holds(p)
       THEN /\ urb' = [urb EXCEPT ![cur[p]].at = "pending"]
            /\ pending' = <<cur[p]>> \o pending
       ELSE UNCHANGED <<urb, pending>>
    /\ Goto(p, "call")
    /\ UNCHANGED <<did, stop, submitted, topologyVars, bound, worldVars>>

\* verify_port of virtusb-test-backend-unregister looks at the port, whichever
\* device is attached to it.
Verify(p) ==
    /\ pc[p] \in {"verify1", "verify2", "verify3"}
    /\ LET n == PortOf[p]
       IN  IF Connected(n) /\ n \in enabled /\ n \in powered
           THEN Advance(p, CASE At(p, "verify1") -> "unbind"
                             [] At(p, "verify2") -> "rebind"
                             [] At(p, "verify3") -> "disconnect")
           ELSE Fail(p)
    /\ UNCHANGED <<topologyVars, bound, urbVars, worldVars>>

Unbind(p) ==
    /\ At(p, "unbind")
    /\ ReleaseOwner(p)
    /\ Goto(p, "verify2")
    /\ did' = [did EXCEPT ![p] = @ \ {"registered"}]
    /\ UNCHANGED <<cur, stop, topologyVars, worldVars>>

-----------------------------------------------------------------------------
(* The programs: the end.                                                  *)

\* What a program undoes at its label out: virtusb-test-device everything,
\* virtusb-test-backend-unregister its registration only if it has one, and
\* virtusb-test-fetch-rollback what it has done.
Undoes(p, x) ==
    CASE program[p] = "device" -> TRUE
      [] program[p] = "unregister" -> x # "registered" \/ x \in did[p]
      [] program[p] = "rollback" -> x \in did[p]

\* Calls that fail are ignored.
Out(p) ==
    /\ \/ /\ At(p, "disconnect") /\ Advance(p, "detach")
          /\ IF Undoes(p, "connected") /\ Found(p) THEN DoConnection(p, FALSE)
             ELSE UNCHANGED topologyVars
          /\ UNCHANGED <<bound, urbVars>>
       \/ /\ At(p, "detach") /\ Advance(p, "unregister")
          /\ IF Undoes(p, "attached") /\ Found(p) THEN DoDetach(p)
             ELSE UNCHANGED topologyVars
          /\ UNCHANGED <<bound, urbVars>>
       \/ /\ At(p, "unregister") /\ Advance(p, "destroy")
          /\ IF Undoes(p, "registered") THEN ReleaseOwner(p)
             ELSE UNCHANGED <<bound, urbVars>>
          /\ UNCHANGED topologyVars
       \/ /\ At(p, "destroy") /\ Advance(p, "close")
          /\ IF Undoes(p, "created") /\ Found(p) THEN DoDestroy(p)
             ELSE UNCHANGED topologyVars
          /\ UNCHANGED <<bound, urbVars>>
    /\ UNCHANGED <<worldVars>>

\* virtusb_close: the release of the file.
Close(p) ==
    /\ At(p, "close")
    /\ ReleaseOwner(p)
    /\ Advance(p, "done")
    /\ UNCHANGED <<topologyVars, worldVars>>

\* SIGINT or SIGTERM for virtusb-test-device: a fetch that sleeps is
\* interrupted; a call that is still to come is not.
Signal(p) ==
    /\ program[p] = "device" /\ pc[p] \notin {"done", "killed"}
    /\ p \notin stop
    /\ stop' = stop \cup {p}
    /\ IF At(p, "wait") THEN Goto(p, "check") ELSE UNCHANGED pc
    /\ UNCHANGED <<did, cur, topologyVars, bound, urbVars, worldVars>>

\* The process is killed, and its file released.
Kill(p) ==
    /\ pc[p] \notin {"open", "done", "killed"}
    /\ ReleaseOwner(p)
    /\ Goto(p, "killed")
    /\ cur' = [cur EXCEPT ![p] = NoUrb]
    /\ UNCHANGED <<did, stop, topologyVars, worldVars>>

-----------------------------------------------------------------------------
(* virtusbctl: one ioctl per command.  Commands that fail change nothing.  *)

Command ==
    /\ commands < MaxCommands
    /\ commands' = commands + 1
    /\ UNCHANGED <<program, procVars, bound, known, urbVars>>

CtlCreate(d) == Command /\ d \in Spare /\ life[d] = "new" /\ DoCreate(d)

\* An attached device is destroyed only with --force.
CtlDestroy(d, force) ==
    Command /\ Found(d) /\ (force \/ peer[d] = NoPort) /\ DoDestroy(d)

CtlAttach(d, n) == Command /\ MayAttach(d, n) /\ DoAttach(d, n)

CtlDetach(d) == Command /\ Found(d) /\ DoDetach(d)

CtlConnection(d, b) == Command /\ Found(d) /\ DoConnection(d, b)

CtlPower(n, b) ==
    /\ Command
    /\ Rewire(peer, signaling, IF b THEN powered \cup {n} ELSE powered \ {n})
    /\ UNCHANGED life

\* The commands.
Ctl ==
    \/ \E d \in Devices :
          \/ CtlCreate(d) \/ CtlDetach(d)
          \/ \E b \in BOOLEAN : CtlDestroy(d, b) \/ CtlConnection(d, b)
          \/ \E n \in Ports : CtlAttach(d, n)
    \/ \E n \in Ports, b \in BOOLEAN : CtlPower(n, b)

-----------------------------------------------------------------------------
(* The host.  The hub driver and the drivers of the devices are external.  *)

HostUnchanged == UNCHANGED <<program, procVars, bound, commands>>

\* The hub driver finds the connection of a port changed: the usb_device goes.
HubDisconnect(n) ==
    /\ n \in change /\ n \in known
    /\ known' = known \ {n}
    /\ UNCHANGED <<topologyVars, urbVars>> /\ HostUnchanged

\* When its URBs are back, a device that is connected is reset and enumerated.
HubConnect(n) ==
    /\ n \in change /\ n \notin known
    /\ \A u \in Urbs : urb[u].port # n
    /\ change' = change \ {n}
    /\ IF Connected(n)
       THEN /\ enabled' = enabled \cup {n}
            /\ known' = known \cup {n}
            /\ was_reset' = was_reset \cup {d \in Devices : peer[d] = n}
       ELSE UNCHANGED <<enabled, known, was_reset>>
    /\ UNCHANGED <<life, peer, signaling, powered, urbVars>> /\ HostUnchanged

\* A driver submits an URB: virtusb_hcd_get_urb_device finds the device by the
\* port number.
Resolve(u, n) ==
    /\ urb[u].at = "host" /\ n \in known
    /\ \E d \in Devices :
          /\ peer[d] = n
          /\ urb' = [urb EXCEPT ![u] = [at |-> "resolved", port |-> n, dev |-> d]]
    /\ UNCHANGED <<topologyVars, known, pending, submitted>> /\ HostUnchanged

\* virtusb_backend_submit: -ENODEV if no backend is bound to the device.
Submit(u) ==
    /\ urb[u].at = "resolved"
    /\ IF urb[u].dev \in bound
       THEN /\ urb' = [urb EXCEPT ![u].at = "pending"]
            /\ pending' = Append(pending, u) /\ submitted' = Append(submitted, u)
       ELSE urb' = [urb EXCEPT ![u] = AtHost] /\ UNCHANGED <<pending, submitted>>
    /\ UNCHANGED <<topologyVars, known>> /\ HostUnchanged

\* virtusb_hcd_urb_dequeue.
Cancel(u) ==
    /\ urb[u].at \in {"pending", "active"}
    /\ Return({u})
    /\ UNCHANGED <<topologyVars, known>> /\ HostUnchanged

-----------------------------------------------------------------------------
ProcStep(p) ==
    \/ Open(p) \/ Create(p) \/ Attach(p) \/ Register(p) \/ Connect(p)
    \/ Check(p) \/ Fetch(p) \/ Handle(p) \/ Fault(p) \/ Rollback(p)
    \/ Verify(p) \/ Unbind(p) \/ Out(p) \/ Close(p)

Next ==
    \/ \E p \in Procs : ProcStep(p) \/ Signal(p) \/ Kill(p)
    \/ Ctl
    \/ \E n \in Ports : HubDisconnect(n) \/ HubConnect(n)
    \/ \E u \in Urbs : Submit(u) \/ Cancel(u) \/ \E n \in Ports : Resolve(u, n)

Spec == Init /\ [][Next]_vars

\* Processes and the host's handlers are scheduled; nobody is bound to stop a
\* backend, to cancel an URB or to call virtusbctl.
FairSpec ==
    /\ Spec
    /\ \A p \in Procs : WF_vars(ProcStep(p))
    /\ \A u \in Urbs : WF_vars(Submit(u))

-----------------------------------------------------------------------------
(* Correctness.                                                            *)

\* The shape of every variable.
TypeOK ==
    /\ program \in Programs
    /\ pc \in [Procs -> Pcs]
    /\ did \in [Procs -> SUBSET {"created", "attached", "registered", "connected",
                                 "configured"}]
    /\ cur \in [Procs -> Urbs \cup {NoUrb}] /\ stop \subseteq Procs
    /\ life \in [Devices -> {"new", "registered", "destroyed"}]
    /\ peer \in [Devices -> Ports \cup {NoPort}]
    /\ signaling \subseteq Devices /\ was_reset \subseteq Devices
    /\ bound \subseteq Procs
    /\ powered \subseteq Ports /\ change \subseteq Ports
    /\ enabled \subseteq Ports /\ known \subseteq Ports
    /\ urb \in [Urbs -> {AtHost} \cup [at : {"resolved", "pending", "active"},
                                       port : Ports, dev : Devices]]
    /\ pending \in Seq(Urbs) /\ submitted \in Seq(Urbs)
    /\ commands \in 0..MaxCommands

\* A program that has ended, wherever its set-up failed, its request was
\* cancelled or virtusbctl interfered, leaves nothing behind: its device is
\* neither registered nor attached, its file not bound, no URB queued for it
\* (the label out of the programs, virtusb_control_release).
CleanExit ==
    \A p \in Procs :
        At(p, "done") =>
            /\ life[p] # "registered" /\ peer[p] = NoPort
            /\ p \notin bound /\ Queued(p) = {}

\* An URB that was fetched is in the hands of a live program that will complete
\* it or roll it back, through a file that is still bound; what is queued has a
\* bound file (virtusb_backend_release_owner, the loops of the programs).
FetchedIsHandled ==
    \A u \in Urbs :
        /\ urb[u].at \in {"pending", "active"} => urb[u].dev \in bound
        /\ urb[u].at = "active" =>
              \E p \in Procs : pc[p] \in {"handle", "back"} /\ cur[p] = u /\ Holds(p)

\* u is before v in list s.
Ahead(s, u, v) == \E i, j \in DOMAIN s : i < j /\ s[i] = u /\ s[j] = v

\* A backend gets the URBs of its device in the order of submission, also those
\* that a faulting fetch has put back (virtusb_backend_fetch_rollback): of two
\* URBs the one submitted first has been fetched, or is before the other in the
\* list of pending requests.  No URB is lost from the list or in it twice.
FetchOrder ==
    /\ IsInjective(pending) /\ Range(pending) = {u \in Urbs : urb[u].at = "pending"}
    /\ \A u, v \in Urbs :
          urb[u].dev = urb[v].dev /\ Ahead(submitted, u, v) =>
              urb[u].at = "active" \/ Ahead(pending, u, v)

\* Every URB that the host has submitted comes back, though its backend is
\* killed, stopped or fails, the device is detached, or its completion meets a
\* cancellation.
EveryUrbReturns == \A u \in Urbs : urb[u].at # "host" ~> urb[u].at = "host"

\* virtusb-test-device ends when it is asked to stop, unless the signal arrives
\* between its look at stop_requested and its next fetch.
StopHonoured ==
    \A p \in Procs :
        (p \in stop /\ pc[p] \notin {"call", "wait"}) ~> pc[p] \in {"done", "killed"}

\* A device does not answer before it was reset: a program never holds a
\* request of a device that was not reset since it was attached
\* (virtusb_hcd_get_urb_device).
AnswersAfterReset == \A p \in Procs : At(p, "handle") /\ Holds(p) => p \in was_reset
=============================================================================
