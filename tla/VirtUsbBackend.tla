--------------------------- MODULE VirtUsbBackend ---------------------------
(***************************************************************************)
(* The data plane of one VirtUSB host controller                           *)
(* (kernel/src/virtusb_backend.c, virtusb_transfer.c and the URB entry     *)
(* points of virtusb_hcd.c): URBs of the Linux USB core become requests    *)
(* that user-space backends fetch and complete.                            *)
(*                                                                         *)
(* Every section under backend->lock is one action.  What a handler does   *)
(* after the unlock (wake-ups, giving the URB back, dropping references)   *)
(* is a later step of the same thread, so any other thread may run in      *)
(* between.  Host threads run the USB core's calls, user threads the       *)
(* ioctls of /dev/virtusbX, and Remover the driver's remove callback.      *)
(*                                                                         *)
(* A request and the transfer it carries are created together, one request *)
(* per transfer, so both are named by the transfer id.                     *)
(***************************************************************************)
EXTENDS Integers, Sequences, FiniteSets, Functions

CONSTANTS
    HostThreads,    \* contexts in which the USB core calls the HCD
    UserThreads,    \* threads of user-space backends
    Remover,        \* the thread that runs the platform driver's remove()
    Files,          \* open files of the control device
    Devices,        \* virtual devices attached to this HCD's root hub
    Urbs,           \* URBs of the host-side USB drivers
    MaxTransfers,   \* bound on the transfers ever created
    NoFile, NoDevice, NoUrb

ASSUME ThreadAssumption ==
    /\ HostThreads \cap UserThreads = {}
    /\ Remover \notin HostThreads \cup UserThreads
ASSUME NullAssumption ==
    /\ NoFile \notin Files
    /\ NoDevice \notin Devices
    /\ NoUrb \notin Urbs
ASSUME BoundAssumption == MaxTransfers \in Nat \ {0}

Threads == HostThreads \cup UserThreads \cup {Remover}
Ids == 1..MaxTransfers
NoId == 0

VARIABLES
    bindings,   \* the (device, owner) pairs of backend->bindings
    pending,    \* backend->pending: requests no backend has fetched
    active,     \* backend->active: requests fetched and not yet completed
    stopping,   \* backend->stopping
    waitq,      \* the threads queued on backend->wait_queue
    next_id,    \* the last value drawn from virtusb_transfer_next_id
    xfer,       \* each transfer's URB, device and state
    refcount,   \* each transfer's kref
    owner,      \* each request's owner file
    dev_refs,   \* references the data plane holds on each device object
    urb,        \* who has each URB: the host's driver or this HCD
    linked,     \* URBs on the USB core's endpoint queues
    resolved,   \* how often each transfer's URB went back to the USB core
    call        \* the handler each thread is in

queueVars == <<bindings, pending, active, stopping>>
xferVars == <<next_id, xfer, refcount, owner, dev_refs>>
usbVars == <<urb, linked, resolved>>
vars == <<queueVars, waitq, xferVars, usbVars, call>>

-----------------------------------------------------------------------------
(* Thread-local state: where in a handler a thread is, and its locals.     *)

Pcs == {"idle", "submit", "put", "complete", "giveback", "free", "wake",
        "fetch", "prepare", "cond", "sleep", "copy", "rollback",
        "drain", "unbound", "stopdrain", "unbind", "stopped"}

\* The place, where to go on after a wake-up or a giveback, and the handler's
\* owner, device and request.
Call == [pc : Pcs, ret : {"idle", "put", "drain", "stopdrain"},
         file : Files \cup {NoFile}, device : Devices \cup {NoDevice},
         req : Ids \cup {NoId}]

Idle == [pc |-> "idle", ret |-> "idle", file |-> NoFile,
         device |-> NoDevice, req |-> NoId]

At(th, p) == call[th].pc = p

\* Thread th goes on with locals c.
Enter(th, c) == call' = [call EXCEPT ![th] = c]

Goto(th, p) == Enter(th, [call[th] EXCEPT !.pc = p])

Return(th) == Enter(th, Idle)

\* Go on where the handler continues after a wake-up or a giveback, with q as
\* the request it still refers to.
Resume(th, q) ==
    IF call[th].ret = "idle"
    THEN Return(th)
    ELSE Enter(th, [call[th] EXCEPT !.pc = call[th].ret, !.ret = "idle",
                                    !.req = q])

-----------------------------------------------------------------------------
(* Transfers (virtusb_transfer.c).                                         *)

Transfer == [urb : Urbs \cup {NoUrb}, device : Devices \cup {NoDevice},
             state : {"none", "queued", "completed", "cancelled"}]

NoTransfer == [urb |-> NoUrb, device |-> NoDevice, state |-> "none"]

\* Slip: virtusb_transfer_mark_queued is left out.
Unmarked(u, d) == [urb |-> u, device |-> d, state |-> "new"]

\* What virtusb_transfer_create and virtusb_transfer_mark_queued make.
NewTransfer(u, d) == [urb |-> u, device |-> d, state |-> "queued"]

\* virtusb_transfer_cancel and virtusb_transfer_complete leave a transfer
\* that has already ended alone.
Ended(t, s) ==
    IF xfer[t].state \in {"new", "queued"} THEN s ELSE xfer[t].state

\* Slip: the reference is borrowed, not taken.
Borrow(t) == UNCHANGED refcount

\* virtusb_transfer_get.
Get(t) == refcount' = [refcount EXCEPT ![t] = @ + 1]

\* virtusb_transfer_put; the last reference frees the transfer, and with it the
\* reference it has on its device.
Put(t) ==
    /\ refcount' = [refcount EXCEPT ![t] = @ - 1]
    /\ IF refcount[t] = 1
       THEN /\ xfer' = [xfer EXCEPT ![t] = NoTransfer]
            /\ dev_refs' = [dev_refs EXCEPT ![xfer[t].device] = @ - 1]
       ELSE UNCHANGED <<xfer, dev_refs>>

-----------------------------------------------------------------------------
(* Lists and look-ups.                                                     *)

BoundFile(f) == \E b \in bindings : b.owner = f

BoundDevice(d) == \E b \in bindings : b.device = d

\* Slip: the first pending request, whichever device it is for.
FirstPendingOfAny(d) == DOMAIN pending \cap {1}

\* The (at most one) position of the first pending request for device d.
FirstPending(d) ==
    {i \in DOMAIN pending :
        /\ xfer[pending[i]].device = d
        /\ \A j \in 1..(i - 1) : xfer[pending[j]].device # d}

\* Slip: requests the file has fetched are not looked for.
NoneActive(d, f) == {}

\* The (at most one) position of the first request for d that f has fetched.
FirstActive(d, f) ==
    {i \in DOMAIN active :
        /\ xfer[active[i]].device = d /\ owner[active[i]] = f
        /\ \A j \in 1..(i - 1) :
              ~(xfer[active[j]].device = d /\ owner[active[j]] = f)}

\* Slip: any backend may name any transfer id.
FindIdOfAnyOwner(f, t) == {i \in DOMAIN active : active[i] = t}

\* virtusb_backend_find_id_locked: only requests f itself has fetched.
FindId(f, t) == {i \in DOMAIN active : active[i] = t /\ owner[t] = f}

\* list_del: the list without its i-th element.
Without(s, i) ==
    [j \in 1..(Len(s) - 1) |-> IF j < i THEN s[j] ELSE s[j + 1]]

\* The condition of the wait in virtusb_backend_fetch and of poll().
PendingForOwnerOrStopping(f) ==
    \/ stopping
    \/ \E b \in bindings : b.owner = f /\ FirstPending(b.device) # {}

\* Slip: the URB stays on the endpoint's queue.
TakeWithoutUnlink(th, t, f, p, r) ==
    /\ Enter(th, [call[th] EXCEPT !.pc = p, !.ret = r, !.req = t, !.file = f])
    /\ UNCHANGED <<bindings, stopping, waitq, xferVars, usbVars>>

\* Thread th takes request t, on behalf of file f if an ioctl or a release
\* does, and goes on at p and then at r: with the deletion from the list,
\* usb_hcd_unlink_urb_from_ep in the same lock section.
TakeFrom(th, t, f, p, r) ==
    /\ linked' = linked \ {xfer[t].urb}
    /\ Enter(th, [call[th] EXCEPT !.pc = p, !.ret = r, !.req = t, !.file = f])
    /\ UNCHANGED <<bindings, stopping, waitq, xferVars, urb, resolved>>

\* Slip: the request is looked up under the lock and deleted too late.
TakePendingWithoutDelete(th, i, f, p, r) ==
    UNCHANGED <<pending, active>> /\ TakeFrom(th, pending[i], f, p, r)

TakePending(th, i, f, p, r) ==
    /\ pending' = Without(pending, i)
    /\ UNCHANGED active
    /\ TakeFrom(th, pending[i], f, p, r)

\* Slip: the same for a request that was fetched.
TakeActiveWithoutDelete(th, i, f, p, r) ==
    UNCHANGED <<pending, active>> /\ TakeFrom(th, active[i], f, p, r)

TakeActive(th, i, f, p, r) ==
    /\ active' = Without(active, i)
    /\ UNCHANGED pending
    /\ TakeFrom(th, active[i], f, p, r)

-----------------------------------------------------------------------------
Init ==
    /\ bindings = {} /\ pending = <<>> /\ active = <<>> /\ stopping = FALSE
    /\ waitq = {}
    /\ next_id = 0
    /\ xfer = [t \in Ids |-> NoTransfer]
    /\ refcount = [t \in Ids |-> 0]
    /\ owner = [t \in Ids |-> NoFile]
    /\ dev_refs = [d \in Devices |-> 0]
    /\ urb = [u \in Urbs |-> "host"]
    /\ linked = {}
    /\ resolved = [t \in Ids |-> 0]
    /\ call = [th \in Threads |-> Idle]

-----------------------------------------------------------------------------
(* Steps every thread may be in the middle of.                             *)

\* wake_up_interruptible_all: a woken thread is off the wait queue.
Wake(th) ==
    /\ At(th, "wake")
    /\ waitq' = {}
    /\ Resume(th, call[th].req)
    /\ UNCHANGED <<queueVars, xferVars, usbVars>>

\* Slip: the request is ended without giving its URB back.
EndWithoutGiveback(th, s) ==
    LET t == call[th].req IN
    /\ xfer' = [xfer EXCEPT ![t] = [@ EXCEPT !.state = Ended(t, s)]]
    /\ resolved' = [resolved EXCEPT ![t] = @ + 1]
    /\ Goto(th, "free")
    /\ UNCHANGED <<queueVars, waitq, next_id, refcount, owner, dev_refs, urb,
                   linked>>

\* virtusb_transfer_cancel or _complete on a request the thread has taken,
\* then usb_hcd_giveback_urb: from here the URB may be submitted again.
GiveUrbBack(th, s) ==
    LET t == call[th].req IN
    /\ xfer' = [xfer EXCEPT ![t] = [@ EXCEPT !.state = Ended(t, s)]]
    /\ urb' = [urb EXCEPT ![xfer[t].urb] = "host"]
    /\ resolved' = [resolved EXCEPT ![t] = @ + 1]
    /\ Goto(th, "free")
    /\ UNCHANGED <<queueVars, waitq, next_id, refcount, owner, dev_refs, linked>>

\* Giveback of a cancelled request (cancel, release_owner and stop).
Giveback(th) == At(th, "giveback") /\ GiveUrbBack(th, "cancelled")

\* virtusb_backend_release_request: the request's reference, then the request.
ReleaseRequest(th) ==
    LET t == call[th].req IN
    /\ At(th, "free")
    /\ Put(t)
    /\ owner' = [owner EXCEPT ![t] = NoFile]
    /\ Resume(th, NoId)
    /\ UNCHANGED <<queueVars, waitq, next_id, usbVars>>

-----------------------------------------------------------------------------
(* Host threads: urb_enqueue and urb_dequeue.                              *)

\* urb_enqueue up to the lock of virtusb_backend_submit: the transfer is
\* created, referenced by the caller and by its request, and marked queued.
Enqueue(th, u, d) ==
    /\ At(th, "idle")
    /\ urb[u] = "host"
    /\ next_id < MaxTransfers
    /\ LET t == next_id + 1 IN
       /\ next_id' = t
       /\ xfer' = [xfer EXCEPT ![t] = NewTransfer(u, d)]
       /\ refcount' = [refcount EXCEPT ![t] = 2]
       /\ Enter(th, [call[th] EXCEPT !.pc = "submit", !.req = t])
    /\ dev_refs' = [dev_refs EXCEPT ![d] = @ + 1]
    /\ urb' = [urb EXCEPT ![u] = "hcd"]
    /\ UNCHANGED <<queueVars, waitq, owner, linked, resolved>>

\* urb_enqueue when the transfer is too long or the request cannot be
\* allocated: the transfer has drawn an id and is freed again.
EnqueueFails(th, u) ==
    /\ At(th, "idle")
    /\ urb[u] = "host"
    /\ next_id < MaxTransfers
    /\ next_id' = next_id + 1
    /\ resolved' = [resolved EXCEPT ![next_id + 1] = @ + 1]
    /\ UNCHANGED <<queueVars, waitq, xfer, refcount, owner, dev_refs, urb,
                   linked, call>>

\* Slip: stopping is not checked.
AcceptsWhileStopping(d) == BoundDevice(d)

\* Slip: the device need not have a backend.
AcceptsUnbound(d) == ~stopping

\* virtusb_backend_submit takes requests for a bound device only, and none
\* once the backend is stopping.
Accepts(d) == ~stopping /\ BoundDevice(d)

\* virtusb_backend_submit queues the request.
SubmitQueues(th) ==
    LET t == call[th].req IN
    /\ At(th, "submit")
    /\ Accepts(xfer[t].device)
    /\ linked' = linked \cup {xfer[t].urb}
    /\ pending' = Append(pending, t)
    /\ Enter(th, [call[th] EXCEPT !.pc = "wake", !.ret = "put"])
    /\ UNCHANGED <<bindings, active, stopping, waitq, xferVars, urb, resolved>>

\* virtusb_backend_submit refuses the request: the backend is stopping, the
\* device has no backend, or usb_hcd_link_urb_to_ep fails (it may at any
\* time).  The transfer is cancelled and both references are dropped.
SubmitFails(th) ==
    LET t == call[th].req IN
    /\ At(th, "submit")
    /\ refcount' = [refcount EXCEPT ![t] = @ - 2]
    /\ xfer' = [xfer EXCEPT ![t] = NoTransfer]
    /\ dev_refs' = [dev_refs EXCEPT ![xfer[t].device] = @ - 1]
    /\ urb' = [urb EXCEPT ![xfer[t].urb] = "host"]
    /\ resolved' = [resolved EXCEPT ![t] = @ + 1]
    /\ Return(th)
    /\ UNCHANGED <<queueVars, waitq, next_id, owner, linked>>

\* The creator's virtusb_transfer_put at the end of urb_enqueue.
PutCreatorRef(th) ==
    /\ At(th, "put")
    /\ Put(call[th].req)
    /\ Return(th)
    /\ UNCHANGED <<queueVars, waitq, next_id, owner, usbVars>>

\* virtusb_backend_cancel of a URB usb_hcd_check_unlink_urb finds linked (any
\* other one is refused there).
Cancel(th, u) ==
    /\ At(th, "idle")
    /\ u \in linked
    /\ \/ \E i \in DOMAIN pending :
             /\ xfer[pending[i]].urb = u
             /\ TakePending(th, i, NoFile, "giveback", "idle")
       \/ \E i \in DOMAIN active :
             /\ u \notin {xfer[t].urb : t \in Range(pending)}
             /\ xfer[active[i]].urb = u
             /\ TakeActive(th, i, NoFile, "giveback", "idle")

-----------------------------------------------------------------------------
(* User threads: the ioctls of the control device.                         *)

\* Slip: only the file is checked for a binding.
FreeFile(f, d) == ~BoundFile(f)

Free(f, d) == ~BoundFile(f) /\ ~BoundDevice(d)

\* virtusb_backend_register; a refused call leaves no trace.
Register(th, f, d) ==
    /\ At(th, "idle")
    /\ ~stopping
    /\ Free(f, d)
    /\ bindings' = bindings \cup {[device |-> d, owner |-> f]}
    /\ dev_refs' = [dev_refs EXCEPT ![d] = @ + 1]
    /\ Goto(th, "wake")
    /\ UNCHANGED <<pending, active, stopping, waitq, next_id, xfer, refcount,
                   owner, usbVars>>

\* A fetch of file f is at the lock: a new call, or one back from the wait.
InFetch(th, f) ==
    \/ At(th, "idle")
    \/ At(th, "fetch") /\ call[th].file = f

\* The lock section of virtusb_backend_fetch finds a request.
FetchTakes(th, f) ==
    /\ InFetch(th, f)
    /\ \E b \in bindings : \E i \in FirstPending(b.device) :
          LET t == pending[i] IN
          /\ b.owner = f
          /\ owner' = [owner EXCEPT ![t] = f]
          /\ pending' = Without(pending, i)
          /\ active' = Append(active, t)
          /\ Get(t)
          /\ Enter(th, [call[th] EXCEPT !.pc = "copy", !.file = f, !.req = t])
    /\ UNCHANGED <<bindings, stopping, waitq, next_id, xfer, dev_refs, usbVars>>

\* The lock section of virtusb_backend_fetch finds none and the call is to
\* wait.
FetchWaits(th, f) ==
    /\ InFetch(th, f)
    /\ BoundFile(f)
    /\ ~PendingForOwnerOrStopping(f)
    /\ Enter(th, [call[th] EXCEPT !.pc = "prepare", !.file = f])
    /\ UNCHANGED <<queueVars, waitq, xferVars, usbVars>>

\* A fetch that has waited returns empty-handed: the file is no longer bound,
\* or nothing is pending for it and the backend is stopping.
FetchReturns(th) ==
    /\ At(th, "fetch")
    /\ stopping \/ ~BoundFile(call[th].file)
    /\ ~\E b \in bindings :
          b.owner = call[th].file /\ FirstPending(b.device) # {}
    /\ Return(th)
    /\ UNCHANGED <<queueVars, waitq, xferVars, usbVars>>

\* wait_event_interruptible: the thread queues itself ...
WaitPrepare(th) ==
    /\ At(th, "prepare")
    /\ waitq' = waitq \cup {th}
    /\ Goto(th, "cond")
    /\ UNCHANGED <<queueVars, xferVars, usbVars>>

\* Slip: the condition is not evaluated again once the thread is queued.
WaitWithoutCheck(th) ==
    /\ At(th, "cond")
    /\ Goto(th, "sleep")
    /\ UNCHANGED <<queueVars, waitq, xferVars, usbVars>>

\* ... evaluates the condition under the lock ...
WaitCondition(th) ==
    /\ At(th, "cond")
    /\ IF PendingForOwnerOrStopping(call[th].file)
       THEN Goto(th, "fetch") /\ waitq' = waitq \ {th}
       ELSE Goto(th, "sleep") /\ UNCHANGED waitq
    /\ UNCHANGED <<queueVars, xferVars, usbVars>>

\* ... sleeps until a wake-up has taken it off the queue, and starts over ...
WaitWoken(th) ==
    /\ At(th, "sleep")
    /\ th \notin waitq
    /\ Goto(th, "prepare")
    /\ UNCHANGED <<queueVars, waitq, xferVars, usbVars>>

\* ... or returns -ERESTARTSYS because of a signal.
WaitInterrupted(th) ==
    /\ At(th, "sleep")
    /\ waitq' = waitq \ {th}
    /\ Return(th)
    /\ UNCHANGED <<queueVars, xferVars, usbVars>>

\* The fetched transfer is read without the lock and its reference dropped;
\* then copy_to_user succeeds or faults.
FetchCopies(th) ==
    LET t == call[th].req IN
    /\ At(th, "copy")
    /\ Put(t)
    /\ Return(th) \/ Goto(th, "rollback")
    /\ UNCHANGED <<queueVars, waitq, next_id, owner, usbVars>>

\* list_move: the request goes to the head of the pending list.
ToHead(t) == <<t>> \o pending

\* virtusb_backend_fetch_rollback.
FetchRollback(th) ==
    LET t == call[th].req
        found == FindId(call[th].file, t)
    IN
    /\ At(th, "rollback")
    /\ \/ /\ \E i \in found : active' = Without(active, i)
          /\ owner' = [owner EXCEPT ![t] = NoFile]
          /\ pending' = ToHead(t)
          /\ Enter(th, [Idle EXCEPT !.pc = "wake"])
       \/ /\ found = {}
          /\ Return(th)
          /\ UNCHANGED <<pending, active, owner>>
    /\ UNCHANGED <<bindings, stopping, waitq, next_id, xfer, refcount, dev_refs,
                   usbVars>>

\* The lock section of virtusb_backend_complete; an id that f has not
\* fetched, or that is gone, is refused without a trace.
CompleteTakes(th, f, t) ==
    /\ At(th, "idle")
    /\ \E i \in FindId(f, t) : TakeActive(th, i, f, "complete", "idle")

\* The rest of virtusb_backend_complete: a completion longer than the request
\* cancels the transfer, any other one completes it.
CompleteGivesBack(th) ==
    /\ At(th, "complete")
    /\ \E s \in {"completed", "cancelled"} : GiveUrbBack(th, s)

\* virtusb_backend_release_owner (BACKEND_UNREGISTER and the file's release)
\* removes the binding first.
Unregister(th, f) ==
    /\ At(th, "idle")
    /\ \E b \in bindings :
          /\ b.owner = f
          /\ bindings' = bindings \ {b}
          /\ Enter(th, [call[th] EXCEPT !.pc = "drain", !.file = f,
                                    !.device = b.device])
    /\ UNCHANGED <<pending, active, stopping, waitq, xferVars, usbVars>>

\* One round of its drain loop: a pending request of the device, or else one
\* that the file has fetched, or else the loop ends.
Drain(th) ==
    LET d == call[th].device
        f == call[th].file
    IN
    /\ At(th, "drain")
    /\ \/ \E i \in FirstPending(d) :
             TakePending(th, i, f, "giveback", "drain")
       \/ /\ FirstPending(d) = {}
          /\ \E i \in FirstActive(d, f) :
                TakeActive(th, i, f, "giveback", "drain")
       \/ /\ FirstPending(d) = {}
          /\ FirstActive(d, f) = {}
          /\ Goto(th, "unbound")
          /\ UNCHANGED <<queueVars, waitq, xferVars, usbVars>>

\* Slip: the binding's device reference is leaked.
UnboundWithoutPut(th) ==
    /\ At(th, "unbound")
    /\ Enter(th, [Idle EXCEPT !.pc = "wake"])
    /\ UNCHANGED <<queueVars, waitq, xferVars, usbVars>>

\* The end of virtusb_backend_release_owner: the binding's device reference.
Unbound(th) ==
    /\ At(th, "unbound")
    /\ dev_refs' = [dev_refs EXCEPT ![call[th].device] = @ - 1]
    /\ Enter(th, [Idle EXCEPT !.pc = "wake"])
    /\ UNCHANGED <<queueVars, waitq, next_id, xfer, refcount, owner, usbVars>>

-----------------------------------------------------------------------------
(* The remover: virtusb_backend_stop.                                      *)

Stop(th) ==
    /\ At(th, "idle")
    /\ stopping' = TRUE
    /\ Enter(th, [call[th] EXCEPT !.pc = "wake", !.ret = "stopdrain"])
    /\ UNCHANGED <<bindings, pending, active, waitq, xferVars, usbVars>>

\* Slip: the loop waits for fetched requests to be completed.
StopDrainWaits(th) ==
    /\ At(th, "stopdrain")
    /\ \/ pending # <<>> /\ TakePending(th, 1, NoFile, "giveback", "stopdrain")
       \/ /\ pending = <<>> /\ active = <<>>
          /\ Goto(th, "unbind")
          /\ UNCHANGED <<queueVars, waitq, xferVars, usbVars>>

\* Slip: fetched requests are forgotten.
StopDrainPendingOnly(th) ==
    /\ At(th, "stopdrain")
    /\ \/ pending # <<>> /\ TakePending(th, 1, NoFile, "giveback", "stopdrain")
       \/ /\ pending = <<>>
          /\ Goto(th, "unbind")
          /\ UNCHANGED <<queueVars, waitq, xferVars, usbVars>>

\* One round of the loop over the requests.
StopDrain(th) ==
    /\ At(th, "stopdrain")
    /\ \/ pending # <<>> /\ TakePending(th, 1, NoFile, "giveback", "stopdrain")
       \/ /\ pending = <<>> /\ active # <<>>
          /\ TakeActive(th, 1, NoFile, "giveback", "stopdrain")
       \/ /\ pending = <<>> /\ active = <<>>
          /\ Goto(th, "unbind")
          /\ UNCHANGED <<queueVars, waitq, xferVars, usbVars>>

\* One round of the loop over the bindings.
StopUnbind(th) ==
    /\ At(th, "unbind")
    /\ \/ \E b \in bindings :
             /\ bindings' = bindings \ {b}
             /\ dev_refs' = [dev_refs EXCEPT ![b.device] = @ - 1]
             /\ UNCHANGED call
       \/ /\ bindings = {}
          /\ Goto(th, "stopped")
          /\ UNCHANGED <<bindings, dev_refs>>
    /\ UNCHANGED <<pending, active, stopping, waitq, next_id, xfer, refcount,
                   owner, usbVars>>

-----------------------------------------------------------------------------
\* A handler that has begun takes its next step.
HostStep(th) ==
    \/ Wake(th) \/ Giveback(th) \/ ReleaseRequest(th)
    \/ SubmitQueues(th) \/ SubmitFails(th) \/ PutCreatorRef(th)

UserStep(th) ==
    \/ Wake(th) \/ Giveback(th) \/ ReleaseRequest(th)
    \/ FetchReturns(th)
    \/ \E f \in Files :
          At(th, "fetch") /\ (FetchTakes(th, f) \/ FetchWaits(th, f))
    \/ WaitPrepare(th) \/ WaitCondition(th) \/ WaitWoken(th)
    \/ FetchCopies(th) \/ FetchRollback(th)
    \/ CompleteGivesBack(th) \/ Drain(th) \/ Unbound(th)

StopStep(th) ==
    \/ Wake(th) \/ Giveback(th) \/ ReleaseRequest(th)
    \/ StopDrain(th) \/ StopUnbind(th)

\* A thread calls a handler, or a signal interrupts a waiting one.
HostCall(th) ==
    \E u \in Urbs :
        \/ \E d \in Devices : Enqueue(th, u, d)
        \/ EnqueueFails(th, u)
        \/ Cancel(th, u)

UserCall(th) ==
    \/ WaitInterrupted(th)
    \/ \E f \in Files :
          \/ \E d \in Devices : Register(th, f, d)
          \/ At(th, "idle") /\ (FetchTakes(th, f) \/ FetchWaits(th, f))
          \/ \E t \in Ids : CompleteTakes(th, f, t)
          \/ Unregister(th, f)

Next ==
    \/ \E th \in HostThreads : HostStep(th) \/ HostCall(th)
    \/ \E th \in UserThreads : UserStep(th) \/ UserCall(th)
    \/ StopStep(Remover) \/ Stop(Remover)

Spec == Init /\ [][Next]_vars

\* The kernel keeps running a thread that is inside a handler; nothing obliges
\* users, hosts or signals to begin anything.
Fairness ==
    /\ \A th \in HostThreads : WF_vars(HostStep(th))
    /\ \A th \in UserThreads : WF_vars(UserStep(th))
    /\ WF_vars(StopStep(Remover))

FairSpec == Spec /\ Fairness

-----------------------------------------------------------------------------
(* Correctness.                                                            *)

\* The shape of every variable.
TypeOK ==
    /\ bindings \subseteq [device : Devices, owner : Files]
    /\ pending \in Seq(Ids)
    /\ active \in Seq(Ids)
    /\ stopping \in BOOLEAN
    /\ waitq \subseteq Threads
    /\ next_id \in 0..MaxTransfers
    /\ xfer \in [Ids -> Transfer]
    /\ refcount \in [Ids -> Int]
    /\ owner \in [Ids -> Files \cup {NoFile}]
    /\ dev_refs \in [Devices -> Int]
    /\ urb \in [Urbs -> {"host", "hcd"}]
    /\ linked \subseteq Urbs
    /\ resolved \in [Ids -> Nat]
    /\ call \in [Threads -> Call]

Queued == Range(pending) \cup Range(active)

\* Thread th has request t out of the lists and the URB is still to go back.
Holds(th, t) ==
    call[th].pc \in {"submit", "complete", "giveback"} /\ call[th].req = t

Draining(th) == "drain" \in {call[th].pc, call[th].ret}

StopDraining == "stopdrain" \in {call[Remover].pc, call[Remover].ret}

\* A request is in one list, once, or in the hands of one thread: whoever of
\* cancel, complete, release_owner and stop takes it, takes it alone.
SingleCustody ==
    /\ \A i, j \in DOMAIN pending : pending[i] = pending[j] => i = j
    /\ \A i, j \in DOMAIN active : active[i] = active[j] => i = j
    /\ Range(pending) \cap Range(active) = {}
    /\ \A th \in Threads : \A t \in Ids :
          Holds(th, t) =>
             /\ t \notin Queued
             /\ \A th2 \in Threads : Holds(th2, t) => th2 = th

\* Every URB submitted goes back to the USB core once and not twice, and until
\* then its request is in a list or in a handler's hands: none is forgotten.
ExactlyOnce ==
    \A t \in Ids :
        /\ resolved[t] \in {0, 1}
        /\ (t <= next_id /\ resolved[t] = 0)
              <=> (t \in Queued \/ \E th \in Threads : Holds(th, t))

\* The HCD has a URB for as long as one transfer for it is unresolved, and for
\* one transfer at a time, although a URB may be submitted again while its
\* previous transfer is still being freed or read.
UrbOfOneTransfer ==
    \A u \in Urbs :
        LET open == {t \in Ids : t <= next_id /\ resolved[t] = 0
                                                /\ xfer[t].urb = u}
        IN  /\ \A t1, t2 \in open : t1 = t2
            /\ urb[u] = "hcd" <=> open # {}

\* The USB core's endpoint queues hold the URBs of the two lists and no other,
\* so virtusb_backend_cancel always finds the request of a URB that
\* usb_hcd_check_unlink_urb accepts.
LinkedIffQueued == linked = {xfer[t].urb : t \in Queued}

\* Who counts in a transfer's kref: urb_enqueue until its own put, the request
\* (in a list, or with the thread that has it), and the fetch reading it.
Creator(th, t) ==
    /\ call[th].req = t
    /\ call[th].pc \in {"submit", "put"} \/ (At(th, "wake") /\ call[th].ret = "put")
OwnsRequest(th, t) == Holds(th, t) \/ (At(th, "free") /\ call[th].req = t)
Reader(th, t) == At(th, "copy") /\ call[th].req = t

One(b) == IF b THEN 1 ELSE 0

\* A transfer's kref counts exactly those, and there is at most one of each
\* kind, so nobody reads or puts a transfer that was freed and none leaks.
RefcountExact ==
    \A t \in Ids :
        /\ refcount[t] = One(\E th \in Threads : Creator(th, t))
                           + One(t \in Queued \/ \E th \in Threads : OwnsRequest(th, t))
                           + One(\E th \in Threads : Reader(th, t))
        /\ \A th1, th2 \in Threads :
              \/ Creator(th1, t) /\ Creator(th2, t)
              \/ OwnsRequest(th1, t) /\ OwnsRequest(th2, t)
              \/ Reader(th1, t) /\ Reader(th2, t)
              => th1 = th2

\* The references on a device object are those of its binding, also while the
\* binding is being torn down, and of its transfers that are not yet freed.
DeviceRefsExact ==
    \A d \in Devices :
        dev_refs[d] = Cardinality({b \in bindings : b.device = d})
                        + Cardinality({th \in Threads :
                              /\ call[th].device = d
                              /\ Draining(th) \/ At(th, "unbound")})
                        + Cardinality({t \in Ids : refcount[t] > 0
                                                   /\ xfer[t].device = d})

\* backend_register refuses a second binding of a file or of a device.
BindingsUnique ==
    \A b1, b2 \in bindings :
        b1.owner = b2.owner \/ b1.device = b2.device => b1 = b2

\* No request is left behind: one that waits has a backend bound to its device,
\* one that was fetched has its backend bound, or a release or a stop that has
\* still to look for it is under way.
NoStranded ==
    /\ \A t \in Range(pending) :
          \/ BoundDevice(xfer[t].device)
          \/ \E th \in Threads : Draining(th) /\ call[th].device = xfer[t].device
          \/ StopDraining
    /\ \A t \in Range(active) :
          \/ [device |-> xfer[t].device, owner |-> owner[t]] \in bindings
          \/ \E th \in Threads : /\ Draining(th)
                                /\ call[th].device = xfer[t].device
                                /\ call[th].file = owner[t]
          \/ StopDraining

\* Every wake-up comes after the unlock, and yet none is lost: if a sleeper's
\* condition holds, a thread that is about to wake it exists.
NoLostWakeup ==
    \A th \in UserThreads :
        /\ At(th, "sleep") /\ th \in waitq
        /\ PendingForOwnerOrStopping(call[th].file)
        => \E w \in Threads : At(w, "wake")

\* Once virtusb_backend_stop has emptied the lists nothing enters them again,
\* whatever submit, rollback and register calls are still in flight.
StopQuiescent ==
    /\ At(Remover, "unbind") \/ At(Remover, "stopped") =>
          pending = <<>> /\ active = <<>>
    /\ At(Remover, "stopped") => bindings = {}

\* A fetch routes a request only to the file bound to the request's device.
RoutedToBinding ==
    [][\A t \in Range(active') \ Range(active) :
          [device |-> xfer[t].device, owner |-> owner'[t]] \in bindings]_vars

\* virtusb_backend_stop comes to its end.
StopCompletes == stopping ~> At(Remover, "stopped")

\* After a stop every URB goes back to the USB core.
StopReturnsUrbs ==
    \A u \in Urbs : (stopping /\ urb[u] = "hcd") ~> urb[u] = "host"

\* A blocked fetch leaves the wait when something is pending for it or the
\* backend stops.
ReadyFetchLeaves ==
    \A th \in UserThreads :
        (At(th, "sleep") /\ PendingForOwnerOrStopping(call[th].file))
            ~> ~At(th, "sleep")

\* A request routed to a backend that has unregistered ends, without the
\* backend's help.
UnregisterEndsTransfers ==
    \A t \in Ids :
        (t \in Range(active) /\ ~BoundFile(owner[t])) ~> resolved[t] = 1
=============================================================================
