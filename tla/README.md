# VirtUSB: specification, model checking and proofs

VirtUSB is a Linux kernel module with a virtual USB host controller. User space
creates virtual devices, attaches them to ports of a root hub, and serves their
transfers as a *backend* through ioctls. This directory holds TLA+ models of
the kernel module (`src/kernel`) and of the programs that use it
(`src/libvirtusb`, `src/tools`), the TLC configurations that check them on small
instances, and TLAPS proofs.

## 1. The system

| Component | State | Operations |
|---|---|---|
| Object manager (`virtusb_object_manager.c`, `virtusb_object.c`) | registry of ids, next id, one kref per object; a mutex | register, unregister, look up, get, put |
| Device (`virtusb_device.c`) | an upstream port in an object | create, destroy (with force), attach, detach, connection signaling, shut all down |
| Port (`virtusb_port.c`) | role, speeds, peer, power or signaling | attach, detach, set power, set signaling |
| Hub (`virtusb_hub.c`) | ports; USB-visible bits (enabled, suspended, reset, speed) and change bits | mark a connection change, reset a port, power a port |
| Data plane (`virtusb_backend.c`) | bindings, pending and active list, `stopping`, a wait queue; a spinlock | register, submit, cancel, fetch, roll back, complete, release owner, stop |
| Transfer (`virtusb_transfer.c`) | id, URB, device, kref | create, get, put, complete, cancel |
| Host controller (`virtusb_hcd.c`) | the root hub, the data plane | URB enqueue and dequeue, root hub requests, probe, remove |
| Control device (`virtusb_control.c`) | one misc device per host controller | the ioctls, open, release, poll |
| Module (`virtusb_module.c`) | the platform devices | init, exit |
| `libvirtusb` | a file descriptor | one ioctl per function, conversion of port states |
| `virtusbctl` | none | one command per call: create, destroy, attach, detach, connect, power, status |
| Backend programs (`tools/virtusb-test-*`) | what was set up so far, the fetched request, `stop_requested` | set up, serve, clean up |

How they meet. The USB core calls `urb_enqueue` and `urb_dequeue` in any
context; user threads call the ioctls on shared or separate files; removal runs
`virtusb_backend_stop`. These three meet in the two lists under the backend's
spinlock, and a request always leaves a list under the lock and is finished
after it. The Linux hub driver's requests and the topology ioctls meet in the
ports and the hub's bits, where there is no lock at all: the headers ask callers
to serialize topology changes (`virtusb_device.h:84`, `virtusb_port.h:113`), and
`virtusb_control.c` does not. The registry has its own mutex.

What is hard: who finishes a request that cancel, complete, release and stop all
want; memory that is read after an unlock; wake-ups after an unlock; a fetch
that faults half-way; a binding torn down while requests keep coming; removal
at any time; unlocked check-then-act on peers; a change notified once only; words
shared by several ports; backends that are stopped, fail or die with requests in
their hands, while `virtusbctl` moves their device.
`PROJECT.json` lists these hazards with their lines.

What makes each part correct:

* data plane: every URB goes back to the USB core exactly once; each request has
  one holder; a transfer's kref counts its holders; no request is left behind
  when its backend goes; no wake-up is lost; after a stop nothing remains;
* objects: krefs are exact and ids are never reused;
* life cycle: no file or device outlives its host controller, nothing leaks;
* topology: peers are reciprocal; a destroyed device is attached nowhere;
* hub: enabled ports are connected and have the right speed; the hub driver
  never misses a connection change; a request for one port does not disturb
  another; what is shown of a port is true of it;
* programs: a program that ends leaves nothing behind, every URB comes back.

## 2. Modules

| Module | What it is |
|---|---|
| `VirtUsbBackend` | the data plane: `virtusb_backend.c`, `virtusb_transfer.c`, the URB entry points of `virtusb_hcd.c` and the backend ioctls |
| `UrbContract` | what the data plane promises, without lists, locks, threads or references |
| `BackendRefinement` | the mapping under which `VirtUsbBackend` implements `UrbContract` |
| `VirtUsbBackendProofs` | inductive invariant of the data plane: custody of requests, exactly one giveback, krefs |
| `VirtUsbQueueProofs` | on top of it: bindings, drain loops, wake-ups, stop, endpoint queues, references on devices |
| `BackendRefinementProofs` | `VirtUsbBackend` implements `UrbContract` |
| `VirtUsbTopology` | objects, devices, ports and the root hub |
| `VirtUsbLifecycle` | module init and exit, probe and remove, the control devices |
| `VirtUsbHub` | the root hub's words: packed speeds, change words, hub requests, status as the host and `virtusbctl` see it |
| `HubContract` | what the root hub promises, one record per port; `VirtUsbHub` holds the mapping |
| `VirtUsbHubProofs` | inductive invariant, refinement and TLAPS proofs for `VirtUsbHub` |
| `VirtUsbTopologyProofs` | proofs for `VirtUsbTopology`: objects, and peers and ports of serialized handlers |
| `VirtUsbLifecycleProofs` | proofs for `VirtUsbLifecycle`: what the loader holds, what user space relies on |
| `VirtUsbSessionProofs` | proofs for `VirtUsbSession`: clean exits, fetched requests, order |
| `VirtUsbSession` | the backend programs, `libvirtusb`, `virtusbctl` and the host around one driver: composes topology, routing and data plane at the level of ioctls |
| `MCBackend`, `MCTopology`, `MCLifecycle`, `MCHub`, `MCSession` | symmetry and small sets for TLC |

### VirtUsbBackend

A variable per field of the code: `bindings`, `pending`, `active`, `stopping`,
`waitq` (the wait queue), `next_id`, `xfer` (each transfer's URB and device),
`refcount` (its kref), `owner` (the request's owner), `dev_refs` (what the data
plane holds on device objects). `urb` and `linked` are the USB core's view: who
has a URB, and which ones are linked to an endpoint. `resolved` counts how often
a transfer's URB went back; no step looks at it. `call` is each thread's place
in a handler and its locals.

A section under the spinlock is one step. What follows an unlock (wake-up,
giveback, freeing the request, copying to the user, dropping a reference) is a
step of its own, so other threads come in between. Steps on data only the thread
can reach are joined with the step before. `wait_event_interruptible` is three
steps: enter the queue, evaluate the condition, sleep until woken or
interrupted. Requests and transfers share an id, as in the code (`transfer->id`,
drawn once and in ascending order). Handlers that return an error and change
nothing are no steps. Buffers, lengths and status codes are left out: no control
depends on them.

The constants are the thread kinds (host threads, user threads, the remover),
files, devices, URBs, and `MaxTransfers`, the bound on ids.

### VirtUsbTopology

Variables: registry (`next_object_id`, `registry`, `refs`), devices (`caps`,
`signaling`, `upeer`), ports (`dpeer`, `powered`), the hub's bits (`enabled`,
`speed`, `c_connected`, `c_reset`), and the hub driver (`told`: it was notified
and has not acknowledged; `looking`: it has acknowledged and has yet to read the
status; `seen`: what it last found). A handler is split where it has
read something it acts on later: the ports' peers before linking them, whether
the port was connected before and after a change, whether the device is attached
before it is unregistered. `Serialized` is TRUE for callers that do what the
headers ask, and FALSE for the handlers as `virtusb_control.c` calls them. A
freed device that is still some port's peer may contain anything (`Finds`,
`DeterminedSpeed`).

The hub driver is external. It clears C_PORT_CONNECTION (`Acknowledge`) and reads
the port's status after that (`ReadStatus`), as Linux's debouncing does. These are
two requests: also with `Serialized` callers any number of ioctls and other requests
may come between them, and a change that comes there must be notified again. The
driver may reset, power or disable a port at any time. The two stores of a link and of an unlink are one step, and
so are the several bit operations of a hub function. `usb.suspended` and its
change and the over-current bits are reported to the host and never looked at by
the driver; they are in `VirtUsbHub`. Ganged power
switching, `virtusb_hub_reset` and the setters of over-current have no callers.
A client registers a backend on a file that has no binding yet; bindings by file
are the data plane's.

### VirtUsbLifecycle

One thread, the loader, runs `virtusb_module_init` with all its labels and
`virtusb_module_exit`; `pc` is its place and `created` is
`virtusb_hcd_created_count`, which is also the instance being probed or removed.
`alive`, `added`, `callback`, `node` and `active` say how far each instance is in
probe or remove, `held` which module-wide resources are registered. User space
opens a control device as soon as its node exists, also while init still creates
the other instances, and calls ioctls on it; an ioctl is let in by `active` and
takes effect later. The kernel (external) unloads a module only when no file is
open, and opens no device of a module that is going; it does open devices of a
module that is still loading. `virtusb_backend_stop` is part of `StopHcd`; what
it does is in `VirtUsbBackend`. `MayFail` names the instances whose creation may
fail.

### VirtUsbHub

A `u32` with a bit per port is the set of its bits that are one, so `BIT`, `|`,
`&` and `~` are set operations, and a packed speed is two neighbouring bits of a
word; `WordBits`, `MaxPorts` and `ByteBits` are 32, 31 and 8 in the code. `usb`,
`speed` and `usb_change` are the hub's fields; `caps` and `powered` are the ports'
lines; `told` has the positions that `usb_hcd_poll_rh_status` has reported to
the hub driver through the bytes of `hub_status_data`. All requests of
`virtusb_hcd_hub_control` that change something are actions, those for port 0 and
for ports beyond the last included. `GET_PORT_STATUS` is followed from the words
through `virtusb_control_build_port_state` and `libvirtusb` to the flags that
`virtusbctl status` prints; flags and speeds are sets of names, the layout of
the lines is left out. A handler is one step, except that the load and the
store of `usb_change.connected` are two: there the ioctls and the hub driver
meet without a lock.

### VirtUsbSession

Each process runs one of the three programs under `tools/` (`program`): set-up
step by step, the loop, the faulting fetch, unregistering and registering again,
and the label `out`. `pc`, `did` (the programs' flags `created`, `attached`, ...),
`cur` and `stop` are its locals. A set-up step that the driver refuses leads to
`out`; the calls there ignore errors, as in the code. `Signal` sets
`stop_requested` and interrupts a sleeping fetch; `Kill` ends the process
anywhere, and the kernel releases its file. `virtusbctl` may give any command
about any device at any time, up to `MaxCommands`. The host (external) drops a
port whose connection changed, and resets and enumerates what it finds there
once the URBs of the port are back. `Resolve` and `Submit` are the two halves of
`urb_enqueue`. One ioctl is one step here, and the driver is not removed: the
races inside ioctls and removal are the other modules' subject. Two history
variables are read by no guard: `submitted` (order of submission) and `was_reset`.

## 3. Runs

| Run | Instance | What it shows |
|---|---|---|
| `handover` | 1 host and 2 user threads, remover, 2 files, 2 devices, 2 URBs, 2 transfers | `TypeOK`; files and devices are bound once; no request is stranded; no lost wake-up; nothing after a stop; device references exact; requests go to the bound file only |
| `contract` | 1 host and 2 user threads, 2 files, 1 device, 2 URBs, 2 transfers | one holder per request; each URB back exactly once; one open transfer per URB; the endpoint queue and the lists agree; krefs exact; `VirtUsbBackend` implements `UrbContract` |
| `liveness` | 1 host and 2 user threads, 1 file, 1 device, 1 URB, 2 transfers, `FairSpec` | a stop ends and returns every URB; a fetch with something to do leaves its wait; what an unregistered backend had fetched ends |
| `topology` | 1 client, the hub driver, 1 port, 2 devices of two kinds, serialized | reciprocal peers; destroyed devices are detached; enabled ports are connected with the right speed; no change is missed |
| `objects` | 2 clients, 1 port, 2 devices, not serialized, no hub driver | object references exact; ids never published again |
| `release` (violated) | 2 clients, 1 device, not serialized | a device is freed while attached |
| `unload` | 2 instances of which the first may fail, 2 files, 2 devices, `FairSpec` | files and attached devices never outlive their host controller; nothing leaks; unloading ends |
| `rollback` (violated) | 2 instances that may fail, 1 file, 2 devices | a failed init leaves devices registered |
| `ports` | 3 ports in words of 4 bits and bytes of 3, 2 kinds of devices on ports 2 and 3, 1 thread | `TypeOK`; no bit outside the ports; what is shown is true of the line; `VirtUsbHub` implements `HubContract` |
| `lostchange` (violated) | 2 ports, 2 threads, not serialized | a connection change is lost |
| `session` | 1 process with any of the programs, 1 device of `virtusbctl`, 1 port, 2 URBs, 3 commands, `FairSpec` | `TypeOK`; a program that ends leaves nothing behind; fetched requests are in live hands; fetch order; every URB returns; a stop is honoured |
| `routing` (violated) | 2 processes on one port, 1 URB | a device that was not reset answers |

Bounds. Every race of the data plane is between at most a host thread, two user
threads and the remover, over one or two requests: two transfers make one
request wait while another is active, and let a URB come back while its earlier
transfer is still being freed or read. Two files and two devices let a binding be
handed over. In `topology` two devices contend for a port, and one replaces
another of a different speed at any point of the hub driver's look at it. Two ports and two devices with the hub driver have 14
million states: they were checked once with the same result and are left to the
proofs, which hold for any number of ports (section 4); the words that ports share
in the code are the subject of `ports`. There three ports fill the words to the
last bit, position 2 begins the second packed word and shares it with 3, and port 3 is alone in the second
status byte: every boundary of the 31 ports, 32-bit words and 8-bit bytes has its
counterpart. `Sockets` (the ports in use) spares port 1, whose neighbour is the
hub's own unused position. In `session` two URBs are needed for one to wait while
the other is fetched or rolled back, and three commands suffice to detach a
backend's device, put another in its place and destroy or connect one.
Deadlock is not checked: ids are bounded, a removed driver takes nothing more,
and a fetch may wait for ever.

Fairness. A thread inside a handler goes on (weak fairness of its steps): the
kernel schedules it, and no handler holds the spinlock while it sleeps. No one
is obliged to call a handler, submit a URB or send a signal. The loader's init
and exit go on in the same way, but nobody has to unload the module. In
`VirtUsbSession` a process that can take a step takes one and an `urb_enqueue` that
has begun goes on; a fetch without a request waits, and neither signals, kills,
cancellations, `virtusbctl` nor the host's submissions are bound to happen.

Each property has a mutant: a definition replaced by the slip defined above it
(`\* Slip: ...`), which the property must catch. `NoChangeMissed` has two: a change of
one direction that the driver does not see, and a hub driver that reads the status
before it acknowledges, which a change between its two requests defeats.

### Findings

* `release`: `virtusb_device_destroy` checks the peer and unregisters later, with
  no lock. An attach by another client in between leaves the port with a freed
  peer, which `WARN_ON` at `virtusb_device.c:17` excludes. For the same reason two
  concurrent attaches to one port can both succeed (`virtusb_port.c:56-61`).
* `rollback`: if a later host controller cannot be created, init does not call
  `virtusb_device_shutdown_all` (`virtusb_module.c:93-105`), and devices made
  through an earlier one stay registered and attached to a freed hub
  (`WARN_ON` at `virtusb_object_manager.c:22`). Files that are open then refer to
  a freed control as well. In `unload` only the first instance may fail, before
  user space can have begun.
* `lostchange`: `usb_change.connected |= BIT(port)` (`virtusb_hub.c:209`) in an ioctl
  and `&= ~BIT(port)` (`virtusb_hcd.c:41`) in the hub driver's request are plain
  read-modify-writes of one word for all ports. One may undo the other, although
  `virtusb_hub.h:87` says a change stays pending until acknowledged. The same
  holds of `usb.enabled`, `usb.suspended` and the speeds.
* `routing`: `urb_enqueue` takes the device from the port (`virtusb_hcd.c:256`) and
  asks neither for PORT_ENABLE nor whether this device was reset, although
  `high_level_architecture.md:338` says that a device must not respond before its
  reset. When one backend ends and another attaches to its port before the hub
  driver looks, the second device answers a URB that was meant for the first.

Found on reading, without a run: `virtusb_control.c:399` demands attachment where
`virtusb.h:267` says that registration is independent of it; and `urb_enqueue` keeps
no reference to the device between finding it and creating the transfer, so a
detach and destroy in between frees it (`VirtUsbSession` assumes that it lives).
A signal that reaches `virtusb-test-device` between its look at `stop_requested`
and its next fetch interrupts nothing (`main.c:286`): `StopHonoured` excludes this
gap, and without the exclusion TLC finds it.

## 4. Proofs

`VirtUsbBackendProofs` proves, for every set of threads, files, devices and URBs
and every `MaxTransfers`:

* `TypeCorrect`: `Spec => []TypeOK`;
* `Custody`: `Spec => []SingleCustody`;
* `GivenBackOnce`: `Spec => []ExactlyOnce`;
* `RefcountCorrect`: `Spec => []RefcountExact`;
* `Invariance`: `Spec => []Inv`, from which the others follow.

The assumptions are those of `VirtUsbBackend`: the kinds of threads are disjoint,
the "none" values are none of the values, and `MaxTransfers` is positive.

`Inv` is needed because none of the properties is inductive on its own. That a
URB goes back once depends on the request having one holder (`Lists`, `Owners`);
the holder frees the request in a later step than it gives the URB back, so
`Owners` also covers the thread that frees, and `Freed` says that this thread's
request has been resolved. A fetch keeps an id after the unlock and its rollback
may move the request, so `Fetchers` says what such a request can be. References
count three kinds of holder, each at most once (`RefcountExact`, `Creators`), and
a referenced transfer is not freed (`Live`). `Locals` ties the locals to the
place in the handler, and `Fresh` says that ids not yet drawn have no history.

The proof has one lemma per action. Actions that touch no request follow from
`PlainStep`; taking a request out of a list from `TakeStep`; dropping a reference
from `DropStep`; lemmas on the lists (`WithoutFacts`, `AppendFacts`,
`PrependFacts`) say what list operations do to membership and uniqueness.

`VirtUsbHubProofs` proves, for every even word size, number of ports, size of the
status bytes, set of speeds and set of threads (`HubAssumption`):

* `TypeCorrect`: `Spec => []TypeOK`; `BitsOfPortsOnly`: `Spec => []OnlyPortBits`;
* `ShownIsTrue`: `Spec => []StatusShown`;
* `Refinement`: if `Serialized`, `Spec => ImplementsContract`;
* `AcknowledgedOnly`: if `Serialized`, `Spec => PendingUntilAcknowledged`, which
  `lostchange` refutes for handlers that overlap;
* `Invariance`: `Spec => []Inv`, from which the first three follow.

The word size of the code is an instance, so the proofs cover the 31 ports in
words of 32 bits that TLC's instance only imitates. The ground are the lemmas on
packing: positions share no bit (`Apart`), a speed that is set is read back
(`SpeedOfSame`), and every other position keeps its own (`SpeedOfOther`). `Inv` adds
to the types that no word, and no word a handler has loaded, has a bit outside
the ports (`PortBits`: without the loaded words a store could bring one in), that
the unused positions have speed zero (`UnusedSpeeds`), and that an enabled port is
connected and packs the speed of its device (`SpeedIsTrue`). None of it needs
handlers to be serialized.

The refinement does. `Serial` says that at most one thread is between load and
store, and that what it will store is the present word but for its port; then
`StoreMark` and `StoreAck` change one port's record, and each of the other actions
has a lemma that names the step of `HubContract` it is. `ReportedBits` says that
the status bytes hold the bit of every port, the last one included.

`VirtUsbQueueProofs` proves the other safety properties of the data plane, under the
same assumptions: `BindingsUniqueAlways`, `StopIsQuiescent`, `UrbHasOneTransfer`,
`EndpointQueuesAgree`, `NoRequestStranded`, `NoWakeupLost`, `DeviceRefsCorrect`, each
`Spec => []...` of the invariant of a run, and the action property
`FetchRoutesToBinding`. The invariant is `QueueInv`, on top of `Inv`:

* the actions are first sorted by what they change (`Step`: a step of a fetch around
  its wait, one that takes a request out of a list, the end of a drain loop, a
  reference dropped, and so on), so that each property meets a few kinds of steps
  instead of every action;
* that a stopped data plane is empty needs that `stopping` was set before the drain
  began (`StopInv`);
* that no request is stranded needs who answers for it (`AnswersFor`): the binding,
  or a `release_owner` or `stop` whose drain loop has still to run. The loop's last
  look at the list and its end are one section under the spinlock, which is why
  there is no gap;
* `DeviceRefsExact` counts transfers and releases by the cardinality of sets;
  `DeviceInv` adds that the sets are finite, and a lemma per kind of step says which
  set gains or loses one member.

`BackendRefinementProofs` proves `Refinement`: `Spec => ImplementsContract`. `MapInv`
adds to `Inv` that ids not yet drawn have no device or owner (`Blank`) and that a
request which waits has no owner (`Unowned`; a rollback must clear it). `JobTable` gives
the contract's job of a transfer by the place of its request; one lemma per kind
of step then shows that it is the named step of `UrbContract`, or none.

`VirtUsbLifecycleProofs` proves, for any number of instances, files and devices,

* whichever instance fails: `TypeCorrect`, `NoLeaks` (`NothingLeaks`), from `LoaderInv`:
  the place of the loader determines which resources are held, how many instances
  there are, and which instances have which parts;
* if only the first instance may fail (`OnlyFirstFails`): `OpenFilesKeepController`
  (`OpenFilesLive`), `DevicesHaveLiveHub` (`AttachedHubLive`) and `RegistryEmpty`
  (`RegistryEmptyAtExit`), from `UserInv`. The hypothesis is what the code needs: the
  run `rollback` shows that they fail when a later instance may. `UserInv` says that
  a file is open only where there is a node, an ioctl is in only where the control
  was active, and that from the shutdown on all files are closed and stay so.

`VirtUsbTopologyProofs` proves, for any number of threads, ports and objects,

* however the handlers meet: `TypeCorrect`, `RefsExact` (`ObjectRefsExact`) and the action
  property `IdsUnique` (`IdsNeverReused`), from `ObjectInv`: each place of a handler
  determines whether it holds a reference, and to what (`CallsOK`); a kref is the
  registry, the binding and the handlers at such places (`RefsInv`); an id not
  handed out belongs to nothing (`IdInv`);
* if `Serialized`: `PeersAgree` (`PeersReciprocal`), `DestroyedIsDetached`
  (`UnregisteredIsDetached`), `EnabledPortsConnected` (`EnabledIsConnected`) and
  `ChangesReachHubDriver` (`NoChangeMissed`), from `SerialInv`: one handler runs at
  most, what it has read is still so, and every port is in order but the one whose
  change it has still to report; in order means that the hub driver knows the
  connection, or the change bit is set and it was told, or it has yet to read the
  status. The hub driver's state outlives its requests, so that the invariant holds
  for handlers that run between its acknowledgement and its read. The hypothesis is what `virtusb_device.h:84` and
  `virtusb_port.h:113` ask of callers; `release` shows that the ioctls do not meet it,
  and what follows.

`VirtUsbSessionProofs` proves, for any number of programs, devices, ports, URBs and
commands of `virtusbctl`: `TypeCorrect`, `LeavesNothing` (`CleanExit`),
`FetchedInLiveHands` (`FetchedIsHandled`) and `OrderKept` (`FetchOrder`), from
`SessionInv`:

* the two lists hold, once each, exactly the URBs that are pending, and those that
  are pending or fetched (`ListsAgree`), and agree in their order for each device
  (`InOrder`);
* a URB in the backend is for a bound file, and a fetched one is what the program of
  that file has at hand (`Served`). So a program has one fetched request at most,
  which is why a rollback to the head of the list keeps the order;
* a bound file is open (`BoundOpen`), a device outside the registry is in no port
  (`OutsideDetached`), and a program whose device is in the registry has recorded it
  and has yet to pass its label `out` (`WillDestroy`). The last is what makes the
  flags of `virtusb-test-fetch-rollback` sufficient: `virtusbctl` may take the device
  away, but never brings it back.

`Without` (`list_del`) is defined by ranks in the list. `RankFacts` and `WithoutFacts`
show what it does for lists of any length; the least element they need comes from
the well-foundedness of `<` on the naturals.

Every invariant and safety action property of a passing run is thus proved. Only
model-checked is liveness: `StopCompletes`, `StopReturnsUrbs`, `ReadyFetchLeaves`,
`UnregisterEndsTransfers`, `ExitCompletes`, `EveryUrbReturns` and `StopHonoured` rest on
fairness and `ENABLED`, which are out of the prover's reach.

## 5. Not modelled

* Unbinding the platform driver through sysfs while files are open.
* An open between `cdev_add` (`virtusb_control.c:671`) and a `device_create` that
  fails: the node in `/dev` comes with `device_create`, so this needs one made by hand.
* `poll`: it only reads. The hub descriptor: a constant of each instance.
* Functions without callers: ganged power switching, the setters of over-current,
  `virtusb_hub_reset`.
* A device that is freed while `urb_enqueue` uses it.
* Parsing of command lines, which descriptor a request asks for, and the copying
  of payloads: no step depends on them.
* The `-EIDRM` path of cancel: `LinkedIffQueued` shows that it cannot be reached.
* Allocation failures that change nothing.
* Build files, scripts and udev rules: no behaviour of their own.

## 6. Plan

Done: the data plane with its contract and proofs; objects, devices and root hub;
the hub's words with their contract and proofs; the life of the module and its host
controllers; the programs of user space and the routing of URBs; proofs of every
safety property and of both refinements.

1. The life time of a device during `urb_enqueue`, once the code has a rule for it.
2. The same for the topology's missing lock: with a mutex in `virtusb_control.c` the
   handlers become `Serialized`, and the theorems under that hypothesis apply.
