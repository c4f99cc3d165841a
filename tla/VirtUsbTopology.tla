--------------------------- MODULE VirtUsbTopology ---------------------------
(***************************************************************************)
(* Virtual devices and the root hub they are attached to                   *)
(* (kernel/src/virtusb_object*.c, virtusb_device.c, virtusb_port.c,        *)
(* virtusb_hub.c), as the ioctls of virtusb_control.c and the hub requests *)
(* of virtusb_hcd.c change them.                                           *)
(*                                                                         *)
(* The registry has a lock; ports, peers and the hub's bits have none.  A  *)
(* handler is split where it has read something it acts on later, so that  *)
(* handlers may meet there.  The headers ask callers to serialize topology *)
(* changes: with Serialized = TRUE they do, with FALSE they are the        *)
(* handlers as they are.                                                   *)
(***************************************************************************)
EXTENDS Integers, FiniteSets

CONSTANTS
    Clients,        \* threads of user space that call ioctls
    Hubs,           \* threads of the Linux hub driver
    Ports,          \* downstream ports of the root hub
    MaxObjects,     \* the largest object id (U32_MAX in the code)
    Capabilities,   \* the speed masks devices are created with
    Serialized,     \* whether handlers run one at a time
    NoPort

ASSUME TopologyAssumption ==
    /\ Hubs \cap Clients = {}
    /\ NoPort \notin Ports
    /\ MaxObjects \in Nat \ {0}
    /\ Serialized \in BOOLEAN
ASSUME CapabilityAssumption ==
    Capabilities \subseteq ((SUBSET {"low", "full", "high"}) \ {{}})

Threads == Clients \cup Hubs
Objects == 1..MaxObjects
NoObject == 0
Speeds == {"none", "low", "full", "high"}

VARIABLES
    next_object_id, \* the next id the object manager hands out
    registry,       \* virtusb_objects: the ids look-ups find
    refs,           \* each object's kref; 0 before creation and once freed
    caps,           \* each device's upstream_port.speed
    signaling,      \* each device's connection_signaling
    upeer,          \* each device's upstream_port.peer
    bound,          \* devices a backend binding refers to
    dpeer,          \* each downstream port's peer
    powered,        \* ports that are powered
    enabled,        \* hub->usb.enabled
    speed,          \* hub->usb.speed
    c_connected,    \* hub->usb_change.connected
    c_reset,        \* hub->usb_change.reset
    told,           \* ports the hub driver was told of and has not acknowledged
    looking,        \* ports it has acknowledged and whose status it has yet to read
    seen,           \* ports the hub driver last found connected
    call            \* the handler each thread is in

objectVars == <<next_object_id, registry, refs, caps, bound>>
peerVars == <<upeer, dpeer>>
lineVars == <<signaling, powered>>
hubVars == <<enabled, speed, c_connected, c_reset>>
hostVars == <<told, looking, seen>>
vars == <<objectVars, peerVars, lineVars, hubVars, hostVars, call>>

-----------------------------------------------------------------------------
(* Threads.                                                                *)

Pcs == {"idle", "attach", "link", "detach", "unlink", "signal", "drive",
        "power", "switch", "compare", "mark", "destroy", "force",
        "unregister", "bind", "reset", "train", "put"}

\* The place, where to go on after a compare or a mark, the device, the port,
\* the new value, whether the port was connected before, and the speed a reset
\* has determined.
Call == [pc : Pcs, ret : {"idle", "put", "detach", "unregister"},
         dev : Objects \cup {NoObject}, port : Ports \cup {NoPort},
         val : BOOLEAN, was : BOOLEAN, speed : Speeds]

Idle == [pc |-> "idle", ret |-> "idle", dev |-> NoObject, port |-> NoPort,
         val |-> FALSE, was |-> FALSE, speed |-> "none"]

At(th, p) == call[th].pc = p

Enter(th, c) == call' = [call EXCEPT ![th] = c]

\* A handler that comes to its end forgets its locals.
Goto(th, p) ==
    Enter(th, CASE p = "idle" -> Idle
                [] p = "put"  -> [Idle EXCEPT !.pc = "put", !.dev = call[th].dev]
                [] OTHER      -> [call[th] EXCEPT !.pc = p])

\* A handler may begin.
MayBegin(th) ==
    /\ At(th, "idle")
    /\ Serialized => \A x \in Threads : At(x, "idle")

Freed(d) == d < next_object_id /\ refs[d] = 0

-----------------------------------------------------------------------------
(* The hub's view of its ports (virtusb_hub.c).                            *)

\* virtusb_hub_port_is_connected.
Connected(p) == dpeer[p] # NoObject /\ p \in powered /\ signaling[dpeer[p]]

\* What a handler finds when it asks; a freed device may contain anything.
Finds(p) ==
    IF dpeer[p] # NoObject /\ Freed(dpeer[p]) THEN BOOLEAN ELSE {Connected(p)}

Fastest(cs) ==
    IF "high" \in cs THEN "high" ELSE IF "full" \in cs THEN "full" ELSE "low"

\* virtusb_hub_determine_port_speed: the ports of the hub have every speed.
DeterminedSpeed(p) ==
    IF dpeer[p] = NoObject THEN {"none"}
    ELSE IF Freed(dpeer[p]) THEN Speeds
    ELSE {Fastest(caps[dpeer[p]])}

\* virtusb_hub_notify_status_changed: usb_hcd_poll_rh_status hands the hub
\* driver the ports with a change (virtusb_hcd_port_change_mask).
Notify == told' = told \cup c_connected' \cup c_reset'

\* Slip: a port that is disconnected stays enabled.
ChangeKeepsEnabled(p, connected) ==
    /\ c_connected' = c_connected \cup {p}
    /\ UNCHANGED <<enabled, speed, c_reset, looking, seen>>
    /\ IF p \in c_connected THEN UNCHANGED told ELSE Notify

\* virtusb_hub_mark_port_connection_change, which finds the port connected or
\* not.
MarkConnectionChange(p, connected) ==
    /\ IF connected
       THEN UNCHANGED <<enabled, speed>>
       ELSE /\ enabled' = enabled \ {p}
            /\ speed' = [speed EXCEPT ![p] = "none"]
    /\ c_connected' = c_connected \cup {p}
    /\ UNCHANGED <<c_reset, looking, seen>>
    /\ IF p \in c_connected THEN UNCHANGED told ELSE Notify

-----------------------------------------------------------------------------
(* Objects (virtusb_object.c, virtusb_object_manager.c).                   *)

Init ==
    /\ next_object_id = 1 /\ registry = {} /\ bound = {}
    /\ refs = [d \in Objects |-> 0]
    /\ caps = [d \in Objects |-> {}]
    /\ signaling = [d \in Objects |-> FALSE]
    /\ upeer = [d \in Objects |-> NoPort]
    /\ dpeer = [p \in Ports |-> NoObject]
    /\ powered = {} /\ enabled = {}
    /\ speed = [p \in Ports |-> "none"]
    /\ c_connected = {} /\ c_reset = {}
    /\ told = {} /\ looking = {} /\ seen = {}
    /\ call = [th \in Threads |-> Idle]

\* virtusb_object_register: the next id, which is drawn once, with a reference
\* of the registry beside the creator's.
RegisterObject(d) ==
    /\ d <= MaxObjects
    /\ next_object_id' = d + 1
    /\ registry' = registry \cup {d}
    /\ refs' = [refs EXCEPT ![d] = 2]

\* Slip: ids of destroyed objects are handed out again.
CreateReusingIds(th, cs) ==
    /\ MayBegin(th)
    /\ \E d \in Objects :
          /\ d \notin registry /\ refs[d] = 0
          /\ registry' = registry \cup {d}
          /\ refs' = [refs EXCEPT ![d] = 2]
          /\ caps' = [caps EXCEPT ![d] = cs]
          /\ Enter(th, [Idle EXCEPT !.pc = "put", !.dev = d])
    /\ UNCHANGED <<next_object_id, bound, peerVars, lineVars, hubVars, hostVars>>

\* virtusb_control_device_create: the object is made, published and, if the id
\* cannot be copied to the user, destroyed by force.
Create(th, cs) ==
    LET d == next_object_id IN
    /\ MayBegin(th)
    /\ RegisterObject(d)
    /\ caps' = [caps EXCEPT ![d] = cs]
    /\ \E p \in {"put", "force"} :
          Enter(th, [Idle EXCEPT !.pc = p, !.dev = d])
    /\ UNCHANGED <<bound, peerVars, lineVars, hubVars, hostVars>>

\* virtusb_control_lookup_device: the look-up takes a reference.
Lookup(th, d, c) ==
    /\ MayBegin(th)
    /\ d \in registry
    /\ refs' = [refs EXCEPT ![d] = @ + 1]
    /\ Enter(th, [c EXCEPT !.dev = d])
    /\ UNCHANGED <<next_object_id, registry, caps, bound, peerVars, lineVars,
                   hubVars, hostVars>>

\* virtusb_object_put at the end of a handler; the last one frees the device.
PutObject(th) ==
    /\ At(th, "put")
    /\ refs' = [refs EXCEPT ![call[th].dev] = @ - 1]
    /\ Enter(th, Idle)
    /\ UNCHANGED <<next_object_id, registry, caps, bound, peerVars, lineVars,
                   hubVars, hostVars>>

\* Slip: the registry's reference is dropped again when the id is gone.
UnregisterTwice(th) ==
    /\ At(th, "unregister")
    /\ registry' = registry \ {call[th].dev}
    /\ refs' = [refs EXCEPT ![call[th].dev] = @ - 1]
    /\ Goto(th, "put")
    /\ UNCHANGED <<next_object_id, caps, bound, peerVars, lineVars, hubVars,
                   hostVars>>

\* virtusb_object_unregister: the first caller removes the id and drops the
\* registry's reference.
Unregister(th) ==
    LET d == call[th].dev IN
    /\ At(th, "unregister")
    /\ registry' = registry \ {d}
    /\ IF d \in registry
       THEN refs' = [refs EXCEPT ![d] = @ - 1]
       ELSE UNCHANGED refs
    /\ Goto(th, "put")
    /\ UNCHANGED <<next_object_id, caps, bound, peerVars, lineVars, hubVars,
                   hostVars>>

-----------------------------------------------------------------------------
(* Attachment, signaling and power (virtusb_device.c, virtusb_port.c).     *)

DataUnchanged == UNCHANGED <<objectVars, peerVars, lineVars, hubVars, hostVars>>

\* virtusb_device_attach looks at both ports.
Attach(th) ==
    LET d == call[th].dev
        p == call[th].port
    IN
    /\ At(th, "attach")
    /\ \/ /\ dpeer[p] = NoObject /\ upeer[d] = NoPort
          /\ Enter(th, [call[th] EXCEPT !.pc = "link", !.was = Connected(p)])
       \/ /\ dpeer[p] # NoObject \/ upeer[d] # NoPort
          /\ Goto(th, "put")
    /\ DataUnchanged

\* virtusb_port_attach makes them each other's peers.
Link(th) ==
    LET d == call[th].dev
        p == call[th].port
    IN
    /\ At(th, "link")
    /\ dpeer' = [dpeer EXCEPT ![p] = d]
    /\ upeer' = [upeer EXCEPT ![d] = p]
    /\ Goto(th, "compare")
    /\ UNCHANGED <<objectVars, lineVars, hubVars, hostVars>>

\* Slip: a change is seen only when a port becomes connected.
CompareRising(th) ==
    /\ At(th, "compare")
    /\ \E is \in Finds(call[th].port) :
          Goto(th, IF is /\ ~call[th].was THEN "mark" ELSE call[th].ret)
    /\ DataUnchanged

\* Whether the port is connected now; if that has changed, it is a change of
\* the port.
Compare(th) ==
    /\ At(th, "compare")
    /\ \E is \in Finds(call[th].port) :
          Goto(th, IF is # call[th].was THEN "mark" ELSE call[th].ret)
    /\ DataUnchanged

Mark(th) ==
    /\ At(th, "mark")
    /\ \E connected \in Finds(call[th].port) :
          MarkConnectionChange(call[th].port, connected)
    /\ Goto(th, call[th].ret)
    /\ UNCHANGED <<objectVars, peerVars, lineVars>>

\* virtusb_device_get_attached_hub: the port the device is attached to, if any.
AttachedPort(d) == upeer[d]

\* After its detach a forced destroy unregisters the device.
AfterDetach(th) == IF call[th].ret = "detach" THEN "unregister" ELSE call[th].ret

\* virtusb_device_detach looks for the port the device is attached to and
\* whether that is connected.
Detach(th) ==
    LET p == AttachedPort(call[th].dev) IN
    /\ At(th, "detach")
    /\ \E was \in IF p = NoPort THEN {FALSE} ELSE Finds(p) :
          Enter(th, [call[th] EXCEPT !.pc = "unlink", !.port = p, !.was = was,
                                     !.ret = AfterDetach(th)])
    /\ DataUnchanged

\* Slip: only the device forgets its peer.
UnlinkOneSide(th) ==
    /\ At(th, "unlink")
    /\ upeer' = [upeer EXCEPT ![call[th].dev] = NoPort]
    /\ Goto(th, IF call[th].was THEN "mark" ELSE call[th].ret)
    /\ UNCHANGED <<objectVars, dpeer, lineVars, hubVars, hostVars>>

\* virtusb_port_detach, from the device's side.
Unlink(th) ==
    LET d == call[th].dev
        p == upeer[d]
    IN
    /\ At(th, "unlink")
    /\ upeer' = [upeer EXCEPT ![d] = NoPort]
    /\ dpeer' = [q \in Ports |-> IF q = p /\ dpeer[q] = d THEN NoObject ELSE dpeer[q]]
    /\ Goto(th, IF call[th].was THEN "mark" ELSE call[th].ret)
    /\ UNCHANGED <<objectVars, lineVars, hubVars, hostVars>>

\* virtusb_device_set_connection_signaling looks for the port in the same way.
Signal(th) ==
    LET p == AttachedPort(call[th].dev) IN
    /\ At(th, "signal")
    /\ \E was \in IF p = NoPort THEN {FALSE} ELSE Finds(p) :
          Enter(th, [call[th] EXCEPT !.pc = "drive", !.port = p, !.was = was])
    /\ DataUnchanged

\* virtusb_port_set_connection_signaling; only a port that was found then has
\* a connection to compare.
Drive(th) ==
    /\ At(th, "drive")
    /\ signaling' = [signaling EXCEPT ![call[th].dev] = call[th].val]
    /\ Goto(th, IF call[th].port = NoPort THEN call[th].ret ELSE "compare")
    /\ UNCHANGED <<objectVars, peerVars, powered, hubVars, hostVars>>

\* virtusb_hub_set_port_power; every hub switches its ports individually.
Power(th) ==
    /\ At(th, "power")
    /\ \E was \in Finds(call[th].port) :
          Enter(th, [call[th] EXCEPT !.pc = "switch", !.was = was])
    /\ DataUnchanged

Switch(th) ==
    LET p == call[th].port IN
    /\ At(th, "switch")
    /\ powered' = IF call[th].val THEN powered \cup {p} ELSE powered \ {p}
    /\ Goto(th, "compare")
    /\ UNCHANGED <<objectVars, peerVars, signaling, hubVars, hostVars>>

\* Slip: an attached device is destroyed without force, too.
DestroyAttached(th) ==
    /\ At(th, "destroy") \/ At(th, "force")
    /\ Goto(th, "unregister")
    /\ DataUnchanged

\* virtusb_device_destroy: an attached device is refused (-EBUSY) or, by force,
\* disconnected and detached before.
Destroy(th) ==
    /\ At(th, "destroy") \/ At(th, "force")
    /\ IF upeer[call[th].dev] = NoPort
       THEN Goto(th, "unregister")
       ELSE \/ At(th, "destroy") /\ Goto(th, "put")
            \/ /\ At(th, "force")
               /\ Enter(th, [call[th] EXCEPT !.pc = "signal", !.ret = "detach",
                                             !.val = FALSE])
    /\ DataUnchanged

-----------------------------------------------------------------------------
(* Backend bindings hold a reference of their own.                         *)

\* Slip: the binding borrows the look-up's reference.
BindWithoutGet(th) ==
    LET d == call[th].dev IN
    /\ At(th, "bind")
    /\ \/ upeer[d] # NoPort /\ d \notin bound /\ bound' = bound \cup {d}
       \/ (upeer[d] = NoPort \/ d \in bound) /\ UNCHANGED bound
    /\ Goto(th, "put")
    /\ UNCHANGED <<next_object_id, registry, refs, caps, peerVars, lineVars,
                   hubVars, hostVars>>

\* virtusb_control_backend_register, on a file that has no binding: only
\* attached devices, one binding each.
Bind(th) ==
    LET d == call[th].dev IN
    /\ At(th, "bind")
    /\ \/ /\ upeer[d] # NoPort /\ d \notin bound
          /\ bound' = bound \cup {d}
          /\ refs' = [refs EXCEPT ![d] = @ + 1]
       \/ /\ upeer[d] = NoPort \/ d \in bound
          /\ UNCHANGED <<bound, refs>>
    /\ Goto(th, "put")
    /\ UNCHANGED <<next_object_id, registry, caps, peerVars, lineVars, hubVars,
                   hostVars>>

\* virtusb_backend_release_owner and virtusb_backend_stop.
Unbind(d) ==
    /\ d \in bound
    /\ bound' = bound \ {d}
    /\ refs' = [refs EXCEPT ![d] = @ - 1]
    /\ UNCHANGED <<next_object_id, registry, caps, peerVars, lineVars, hubVars,
                   hostVars, call>>

-----------------------------------------------------------------------------
(* The hub driver's requests (virtusb_hcd_hub_control).                    *)

\* virtusb_hub_reset_port checks the port and determines the speed ...
ResetPort(th) ==
    LET p == call[th].port IN
    /\ At(th, "reset")
    /\ \E connected \in Finds(p), s \in DeterminedSpeed(p) :
          IF connected /\ s # "none"
          THEN Enter(th, [call[th] EXCEPT !.pc = "train", !.speed = s])
          ELSE Goto(th, "idle")
    /\ DataUnchanged

\* ... and then enables the port.
Train(th) ==
    LET p == call[th].port IN
    /\ At(th, "train")
    /\ enabled' = enabled \cup {p}
    /\ speed' = [speed EXCEPT ![p] = call[th].speed]
    /\ c_reset' = c_reset \cup {p}
    /\ UNCHANGED <<c_connected, looking, seen>>
    /\ IF p \in c_reset THEN UNCHANGED told ELSE Notify
    /\ Goto(th, "idle")
    /\ UNCHANGED <<objectVars, peerVars, lineVars>>

\* Clearing PORT_ENABLE and C_PORT_RESET.  PORT_SUSPEND and the bits of
\* suspension are reported and never looked at, so that the model has none.
Feature(th, p) ==
    /\ MayBegin(th)
    /\ \/ enabled' = enabled \ {p} /\ UNCHANGED c_reset
       \/ c_reset' = c_reset \ {p} /\ UNCHANGED enabled
    /\ UNCHANGED <<objectVars, peerVars, lineVars, speed, c_connected, hostVars, call>>

\* The hub driver looks at a port it was told of with two requests.  It
\* acknowledges the change of the connection (C_PORT_CONNECTION) ...
Acknowledge(th, p) ==
    /\ MayBegin(th)
    /\ p \in told
    /\ told' = told \ {p}
    /\ c_connected' = c_connected \ {p}
    /\ looking' = looking \cup {p}
    /\ UNCHANGED <<objectVars, peerVars, lineVars, enabled, speed, c_reset, seen,
                   call>>

\* ... and then reads the port's status (virtusb_hcd_get_port_status).  Other
\* handlers may run between the two.
ReadStatus(th, p) ==
    /\ MayBegin(th)
    /\ p \in looking
    /\ looking' = looking \ {p}
    /\ \E connected \in Finds(p) :
          seen' = IF connected THEN seen \cup {p} ELSE seen \ {p}
    /\ UNCHANGED <<objectVars, peerVars, lineVars, hubVars, told, call>>

-----------------------------------------------------------------------------
\* The ioctls of virtusb_control_ioctl.
Ioctl(th) ==
    \/ \E cs \in Capabilities : Create(th, cs)
    \/ \E d \in Objects :
          \/ \E op \in {"destroy", "force", "bind"} :
                Lookup(th, d, [Idle EXCEPT !.pc = op])
          \/ Lookup(th, d, [Idle EXCEPT !.pc = "detach", !.ret = "put"])
          \/ \E p \in Ports : Lookup(th, d, [Idle EXCEPT !.pc = "attach",
                                                !.ret = "put", !.port = p])
          \/ \E v \in BOOLEAN : Lookup(th, d, [Idle EXCEPT !.pc = "signal",
                                                !.ret = "put", !.val = v])

\* SET_PORT_POWER and the hub driver's PORT_POWER.
BeginPower(th, p, v) ==
    /\ MayBegin(th)
    /\ Enter(th, [Idle EXCEPT !.pc = "power", !.port = p, !.val = v])
    /\ DataUnchanged

BeginReset(th, p) ==
    /\ MayBegin(th)
    /\ Enter(th, [Idle EXCEPT !.pc = "reset", !.port = p])
    /\ DataUnchanged

\* Slip: the status is read first and the change acknowledged afterwards.
RequestReadingFirst(th) ==
    \E p \in Ports :
        \/ BeginReset(th, p) \/ Feature(th, p)
        \/ /\ MayBegin(th) /\ p \in told \ looking
           /\ looking' = looking \cup {p}
           /\ \E connected \in Finds(p) :
                 seen' = IF connected THEN seen \cup {p} ELSE seen \ {p}
           /\ UNCHANGED <<objectVars, peerVars, lineVars, hubVars, told, call>>
        \/ /\ MayBegin(th) /\ p \in looking
           /\ looking' = looking \ {p}
           /\ told' = told \ {p}
           /\ c_connected' = c_connected \ {p}
           /\ UNCHANGED <<objectVars, peerVars, lineVars, enabled, speed, c_reset,
                          seen, call>>

HubRequest(th) ==
    \E p \in Ports :
        BeginReset(th, p) \/ Feature(th, p) \/ Acknowledge(th, p) \/ ReadStatus(th, p)

Step(th) ==
    \/ PutObject(th) \/ Unregister(th)
    \/ Attach(th) \/ Link(th) \/ Compare(th) \/ Mark(th)
    \/ Detach(th) \/ Unlink(th) \/ Signal(th) \/ Drive(th) \/ Power(th) \/ Switch(th)
    \/ Destroy(th) \/ Bind(th)

HubStep(th) == ResetPort(th) \/ Train(th)

Next ==
    \/ \E th \in Clients : Ioctl(th)
    \/ \E th \in Threads : Step(th)
    \/ \E th \in Threads, p \in Ports, v \in BOOLEAN : BeginPower(th, p, v)
    \/ \E th \in Hubs : HubRequest(th) \/ HubStep(th)
    \/ \E d \in Objects : Unbind(d)

Spec == Init /\ [][Next]_vars

-----------------------------------------------------------------------------
(* Correctness.                                                            *)

\* The shape of every variable.
TypeOK ==
    /\ next_object_id \in 1..(MaxObjects + 1)
    /\ registry \subseteq Objects /\ bound \subseteq Objects
    /\ refs \in [Objects -> Nat]
    /\ caps \in [Objects -> Capabilities \cup {{}}]
    /\ signaling \in [Objects -> BOOLEAN]
    /\ upeer \in [Objects -> Ports \cup {NoPort}]
    /\ dpeer \in [Ports -> Objects \cup {NoObject}]
    /\ powered \subseteq Ports /\ enabled \subseteq Ports
    /\ speed \in [Ports -> Speeds]
    /\ c_connected \subseteq Ports /\ c_reset \subseteq Ports
    /\ told \subseteq Ports /\ looking \subseteq Ports /\ seen \subseteq Ports
    /\ call \in [Threads -> Call]

\* A handler on port p has changed it and has still to report that.
Reporting(p) ==
    \E th \in Threads : call[th].pc \in {"compare", "mark"} /\ call[th].port = p

\* A device and a port are each other's peers or not peers at all, whatever
\* sequence of attach, detach and destroy led there.
PeersReciprocal ==
    /\ \A d \in Objects : upeer[d] # NoPort => dpeer[upeer[d]] = d
    /\ \A p \in Ports : dpeer[p] # NoObject => upeer[dpeer[p]] = p

\* A device that is unregistered is attached nowhere, although a binding may
\* keep it in memory.
UnregisteredIsDetached ==
    \A d \in Objects : d \notin registry => upeer[d] = NoPort

\* An enabled port is connected, and runs at the fastest speed its device has;
\* a disconnected one has no speed left.
EnabledIsConnected ==
    \A p \in Ports :
        Reporting(p) \/ (/\ p \in enabled => Connected(p) /\ speed[p] # "none"
                         /\ speed[p] # "none" =>
                               Connected(p) /\ speed[p] = Fastest(caps[dpeer[p]]))

\* The hub driver never misses a change of a connection, one that comes between
\* its acknowledgement of an earlier change and its look at the port included:
\* what it last found is so, or the change bit is set and it was told, or it has
\* yet to read the status of a change it acknowledged.
NoChangeMissed ==
    \A p \in Ports :
        \/ Connected(p) <=> p \in seen
        \/ Reporting(p)
        \/ p \in c_connected \cap told
        \/ p \in looking

\* Handlers that have looked a device up, or created it.
Users(d) == {th \in Threads : call[th].pc # "idle" /\ call[th].dev = d}

\* A device's kref counts the registry, the handlers working on it and its
\* binding, also when handlers run at the same time: none uses a freed device
\* through its reference and none leaks.
ObjectRefsExact ==
    \A d \in Objects :
        refs[d] = Cardinality({d} \cap registry) + Cardinality({d} \cap bound)
                    + Cardinality(Users(d))

\* An object id names one object for good: once its object has left the
\* registry, no look-up finds the id again.
IdsNeverReused ==
    [][\A d \in Objects : d \in registry' \ registry => caps[d] = {}]_vars

\* virtusb_device_release expects a detached device: WARN_ON(peer != NULL).
ReleasedIsDetached ==
    \A d \in Objects : Freed(d) => upeer[d] = NoPort
=============================================================================
