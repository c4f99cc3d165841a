------------------------- MODULE VirtUsbQueueProofs -------------------------
(***************************************************************************)
(* What the custody of requests (VirtUsbBackendProofs) is for: URBs,       *)
(* bindings, drain loops, wake-ups and the references on devices.          *)
(*                                                                         *)
(* The steps of the data plane are first sorted by what they change; each  *)
(* property then has to consider the few kinds of steps that touch what it *)
(* is about.                                                               *)
(***************************************************************************)
EXTENDS VirtUsbBackendProofs, FiniteSetTheorems

-----------------------------------------------------------------------------
(* The kinds of steps.                                                     *)

\* A fetch around its wait, or a wake-up: no list and no transfer changes.
Waits(th) ==
    \/ Wake(th) \/ FetchReturns(th)
    \/ \E f \in Files : FetchWaits(th, f)
    \/ WaitPrepare(th) \/ WaitCondition(th) \/ WaitWoken(th) \/ WaitInterrupted(th)

\* Thread th takes request t out of its list and goes on with locals c.
Takes(th, t, c) ==
    /\ t \in Queued /\ Queued' = Queued \ {t}
    /\ Range(pending') = Range(pending) \ {t}
    /\ Range(active') = Range(active) \ {t}
    /\ linked' = linked \ {xfer[t].urb}
    /\ UNCHANGED <<bindings, stopping, waitq, xferVars, urb, resolved>>
    /\ Enter(th, c)
    /\ c.pc \in {"complete", "giveback"} /\ c.req = t
    /\ c.device = call[th].device
    /\ c.pc = "complete" => t \in Range(active) /\ c.file \in Files /\ owner[t] = c.file
    /\ \/ call[th].pc = "idle" /\ c.ret = "idle"
       \/ /\ call[th].pc = "drain" /\ c.ret = "drain"
          /\ c.file = call[th].file
       \/ call[th].pc = "stopdrain" /\ c.ret = "stopdrain"

TakesOne(th) == \E t \in Ids, c \in Call : Takes(th, t, c)

\* The drain loop of release_owner, and that of stop, find nothing more.
DrainEnds(th) ==
    /\ At(th, "drain")
    /\ FirstPending(call[th].device) = {}
    /\ FirstActive(call[th].device, call[th].file) = {}
    /\ Goto(th, "unbound")
    /\ UNCHANGED <<queueVars, waitq, xferVars, usbVars>>

StopDrainEnds(th) ==
    /\ At(th, "stopdrain")
    /\ pending = <<>> /\ active = <<>>
    /\ Goto(th, "unbind")
    /\ UNCHANGED <<queueVars, waitq, xferVars, usbVars>>

GivesBack(th) == Giveback(th) \/ CompleteGivesBack(th)

\* A reference on a transfer is dropped.
Drops(th) == ReleaseRequest(th) \/ PutCreatorRef(th) \/ FetchCopies(th)

Binds(th) == \E f \in Files, d \in Devices : Register(th, f, d)
Releases(th) == \E f \in Files : Unregister(th, f)
Fetches(th) == \E f \in Files : FetchTakes(th, f)
Submits(th) == \E u \in Urbs, d \in Devices : Enqueue(th, u, d)
Refuses(th) == \E u \in Urbs : EnqueueFails(th, u)

\* The steps of the remover are its own, and the others' are not.
Step(th) ==
    \/ Waits(th) \/ TakesOne(th) \/ DrainEnds(th) \/ GivesBack(th) \/ Drops(th)
    \/ Submits(th) \/ Refuses(th) \/ SubmitQueues(th) \/ SubmitFails(th)
    \/ Binds(th) \/ Fetches(th) \/ FetchRollback(th) \/ Releases(th) \/ Unbound(th)
    \/ th = Remover /\ (StopDrainEnds(th) \/ Stop(th) \/ StopUnbind(th))

\* A request taken from the pending list.
LEMMA PendingTaken ==
    ASSUME Inv, NEW th \in Threads, NEW i \in DOMAIN pending,
           NEW f \in Files \cup {NoFile}, NEW p, NEW r, TakesAt(th, p, r),
           TakePending(th, i, f, p, r), p = "giveback",
           \/ call[th].pc = "idle" /\ r = "idle"
           \/ call[th].pc = "drain" /\ r = "drain" /\ f = call[th].file
           \/ call[th].pc = "stopdrain" /\ r = "stopdrain"
    PROVE  TakesOne(th)
<1>1. PICK t \in Ids : t = pending[i] /\ t \in Range(pending)
  BY DEF Inv, TypeOK, Range
<1> DEFINE c == [call[th] EXCEPT !.pc = p, !.ret = r, !.req = t, !.file = f]
<1>2. call[th] \in Call
  BY Typing DEF Inv
<1>3. /\ c \in Call /\ c.pc = p /\ p \in {"complete", "giveback"} /\ c.ret = r
      /\ c.device = call[th].device /\ c.file = f /\ c.req = t
  BY <1>1, <1>2 DEF Call, Pcs, TakesAt
<1>4. Enter(th, c)
  BY <1>1 DEF TakePending, TakeFrom
<1> HIDE DEF c
<1>5. Range(pending') = Range(pending) \ {t}
  <2>1. pending \in Seq(Ids) /\ IsInjective(pending)
    BY DEF Inv, TypeOK, Lists, IsInjective
  <2> QED
    BY <1>1, <2>1, WithoutFacts DEF TakePending
<1>6. t \notin Range(active) /\ active' = active
  BY <1>1 DEF Inv, Lists, TakePending
<1>7. Takes(th, t, c)
  BY <1>1, <1>3, <1>4, <1>5, <1>6 DEF Takes, Queued, TakePending, TakeFrom
<1> QED
  BY <1>3, <1>7 DEF TakesOne

\* A request taken from the active list.
LEMMA ActiveTaken ==
    ASSUME Inv, NEW th \in Threads, NEW i \in DOMAIN active,
           NEW f \in Files \cup {NoFile}, NEW p, NEW r, TakesAt(th, p, r),
           TakeActive(th, i, f, p, r),
           p = "complete" => f \in Files /\ owner[active[i]] = f,
           \/ call[th].pc = "idle" /\ r = "idle"
           \/ call[th].pc = "drain" /\ r = "drain" /\ f = call[th].file
           \/ call[th].pc = "stopdrain" /\ r = "stopdrain"
    PROVE  TakesOne(th)
<1>1. PICK t \in Ids : t = active[i] /\ t \in Range(active)
  BY DEF Inv, TypeOK, Range
<1> DEFINE c == [call[th] EXCEPT !.pc = p, !.ret = r, !.req = t, !.file = f]
<1>2. call[th] \in Call
  BY Typing DEF Inv
<1>3. /\ c \in Call /\ c.pc = p /\ p \in {"complete", "giveback"} /\ c.ret = r
      /\ c.device = call[th].device /\ c.file = f /\ c.req = t
  BY <1>1, <1>2 DEF Call, Pcs, TakesAt
<1>4. Enter(th, c)
  BY <1>1 DEF TakeActive, TakeFrom
<1> HIDE DEF c
<1>5. Range(active') = Range(active) \ {t}
  <2>1. active \in Seq(Ids) /\ IsInjective(active)
    BY DEF Inv, TypeOK, Lists, IsInjective
  <2> QED
    BY <1>1, <2>1, WithoutFacts DEF TakeActive
<1>6. t \notin Range(pending) /\ pending' = pending
  BY <1>1 DEF Inv, Lists, TakeActive
<1>7. Takes(th, t, c)
  BY <1>1, <1>3, <1>4, <1>5, <1>6 DEF Takes, Queued, TakeActive, TakeFrom
<1> QED
  BY <1>3, <1>7 DEF TakesOne

\* Cancel, complete and the drain loops of release_owner and stop take a
\* request alike.
LEMMA Takers ==
    ASSUME Inv, NEW th \in Threads
    PROVE  /\ \A u \in Urbs : Cancel(th, u) => TakesOne(th)
           /\ \A f \in Files, t \in Ids : CompleteTakes(th, f, t) => TakesOne(th)
           /\ Drain(th) => TakesOne(th) \/ DrainEnds(th)
           /\ StopDrain(th) => TakesOne(th) \/ StopDrainEnds(th)
<1>1. ASSUME NEW u \in Urbs, Cancel(th, u) PROVE TakesOne(th)
  <2>1. call[th].pc = "idle" /\ TakesAt(th, "giveback", "idle")
    BY <1>1 DEF TakesAt, Cancel, At
  <2> QED
    BY <1>1, <2>1, PendingTaken, ActiveTaken DEF Cancel
<1>2. ASSUME NEW f \in Files, NEW t \in Ids, CompleteTakes(th, f, t)
      PROVE  TakesOne(th)
  <2>1. call[th].pc = "idle" /\ TakesAt(th, "complete", "idle")
    BY <1>2 DEF TakesAt, CompleteTakes, At
  <2>2. \E i \in DOMAIN active : /\ TakeActive(th, i, f, "complete", "idle")
                                 /\ owner[active[i]] = f
    BY <1>2 DEF CompleteTakes, FindId
  <2> QED
    BY <2>1, <2>2, ActiveTaken
<1>3. ASSUME Drain(th) PROVE TakesOne(th) \/ DrainEnds(th)
  <2>1. /\ call[th].pc = "drain" /\ call[th].file \in Files \cup {NoFile}
        /\ TakesAt(th, "giveback", "drain")
    BY <1>3, Typing DEF Inv, Call, TakesAt, Drain, At
  <2>2. CASE \E i \in FirstPending(call[th].device) :
                TakePending(th, i, call[th].file, "giveback", "drain")
    BY <2>1, <2>2, PendingTaken DEF FirstPending
  <2>3. CASE \E i \in FirstActive(call[th].device, call[th].file) :
                TakeActive(th, i, call[th].file, "giveback", "drain")
    BY <2>1, <2>3, ActiveTaken DEF FirstActive
  <2> QED
    BY <1>3, <2>2, <2>3 DEF Drain, DrainEnds
<1>4. ASSUME StopDrain(th) PROVE TakesOne(th) \/ StopDrainEnds(th)
  <2>1. call[th].pc = "stopdrain" /\ TakesAt(th, "giveback", "stopdrain")
    BY <1>4 DEF TakesAt, StopDrain, At
  <2>2. CASE pending # <<>> /\ TakePending(th, 1, NoFile, "giveback", "stopdrain")
    <3>1. 1 \in DOMAIN pending
      BY <2>2 DEF Inv, TypeOK
    <3> QED
      BY <2>1, <2>2, <3>1, PendingTaken
  <2>3. CASE active # <<>> /\ TakeActive(th, 1, NoFile, "giveback", "stopdrain")
    <3>1. 1 \in DOMAIN active
      BY <2>3 DEF Inv, TypeOK
    <3> QED
      BY <2>1, <2>3, <3>1, ActiveTaken
  <2> QED
    BY <1>4, <2>2, <2>3 DEF StopDrain, StopDrainEnds
<1> QED
  BY <1>1, <1>2, <1>3, <1>4

\* Every step of the data plane is of one of the kinds.
LEMMA Steps ==
    ASSUME Inv, Next
    PROVE  \E th \in Threads : Step(th)
<1>1. HostThreads \subseteq Threads /\ UserThreads \subseteq Threads /\ Remover \in Threads
  BY DEF Threads
<1>2. ASSUME NEW th \in HostThreads, HostStep(th) \/ HostCall(th)
      PROVE  Step(th)
  BY <1>1, <1>2, Takers
  DEF HostStep, HostCall, Step, Waits, GivesBack, Drops, Submits, Refuses
<1>3. ASSUME NEW th \in UserThreads, UserStep(th) \/ UserCall(th)
      PROVE  Step(th)
  BY <1>1, <1>3, Takers
  DEF UserStep, UserCall, Step, Waits, GivesBack, Drops, Binds, Releases, Fetches
<1>4. ASSUME StopStep(Remover) \/ Stop(Remover)
      PROVE  Step(Remover)
  BY <1>1, <1>4, Takers DEF StopStep, Step, Waits, GivesBack, Drops
<1> QED
  BY <1>1, <1>2, <1>3, <1>4 DEF Next

-----------------------------------------------------------------------------
(* What each kind of step changes.                                         *)

\* The lists hold requests, and nothing else.
LEMMA ListIds ==
    ASSUME Inv
    PROVE  /\ Range(pending) \subseteq Ids /\ Range(active) \subseteq Ids
           /\ Queued \subseteq Ids
<1>1. pending \in Seq(Ids) /\ active \in Seq(Ids)
  BY DEF Inv, TypeOK
<1> QED
  BY <1>1 DEF Range, Queued

\* Only virtusb_backend_stop sets stopping, and nobody resets it.
LEMMA StoppingStep ==
    ASSUME NEW th \in Threads, Step(th)
    PROVE  stopping' = stopping \/ (th = Remover /\ Stop(th))
  BY DEF Step, Waits, Wake, FetchReturns, FetchWaits, WaitPrepare, WaitCondition,
     WaitWoken, WaitInterrupted, TakesOne, Takes, DrainEnds, GivesBack, Giveback,
     CompleteGivesBack, GiveUrbBack, Drops, ReleaseRequest, PutCreatorRef,
     FetchCopies, Submits, Enqueue, Refuses, EnqueueFails, SubmitQueues,
     SubmitFails, Binds, Register, Fetches, FetchTakes, FetchRollback, Releases,
     Unregister, Unbound, StopDrainEnds, StopUnbind, queueVars

\* Only register, release_owner and stop change the bindings.
LEMMA BindingsStep ==
    ASSUME NEW th \in Threads, Step(th)
    PROVE  \/ bindings' = bindings
           \/ Binds(th) \/ Releases(th)
           \/ th = Remover /\ StopUnbind(th)
  BY DEF Step, Waits, Wake, FetchReturns, FetchWaits, WaitPrepare, WaitCondition,
     WaitWoken, WaitInterrupted, TakesOne, Takes, DrainEnds, GivesBack, Giveback,
     CompleteGivesBack, GiveUrbBack, Drops, ReleaseRequest, PutCreatorRef,
     FetchCopies, Submits, Enqueue, Refuses, EnqueueFails, SubmitQueues,
     SubmitFails, Fetches, FetchTakes, FetchRollback, Unbound, StopDrainEnds,
     Stop, queueVars

\* Only submit and fetch_rollback add to the pending list and only fetch adds
\* to the active one, and a request there keeps its owner.
ListsShrink ==
    /\ Range(pending') \subseteq Range(pending)
    /\ Range(active') \subseteq Range(active)
    /\ \A t \in Range(active') : owner'[t] = owner[t]

\* Every other step takes from the lists, if it touches them at all.
LEMMA ListsStep ==
    ASSUME Inv, NEW th \in Threads, Step(th)
    PROVE  ListsShrink \/ SubmitQueues(th) \/ Fetches(th) \/ FetchRollback(th)
<1>1. CASE TakesOne(th)
  BY <1>1 DEF TakesOne, Takes, ListsShrink, xferVars
<1>2. CASE ReleaseRequest(th)
  <2>1. PICK t \in Ids : t = call[th].req
    BY <1>2, RequestDrawn DEF ReleaseRequest, At, Carrying
  <2>2. t \notin Range(active)
    BY <1>2, <2>1 DEF ReleaseRequest, OwnsRequest, Inv, Owners, Queued
  <2>3. owner' = [owner EXCEPT ![t] = NoFile] /\ owner \in [Ids -> Files \cup {NoFile}]
    BY <1>2, <2>1 DEF ReleaseRequest, Inv, TypeOK
  <2>4. pending' = pending /\ active' = active
    BY <1>2 DEF ReleaseRequest, queueVars
  <2>5. Range(active) \subseteq Ids
    BY DEF Inv, TypeOK, Range
  <2> QED
    BY <2>2, <2>3, <2>4, <2>5 DEF ListsShrink
<1>3. CASE UNCHANGED <<pending, active, owner>>
  BY <1>3 DEF ListsShrink
<1>4. \/ TakesOne(th) \/ ReleaseRequest(th) \/ UNCHANGED <<pending, active, owner>>
      \/ SubmitQueues(th) \/ Fetches(th) \/ FetchRollback(th)
  BY DEF Step, Waits, Wake, FetchReturns, FetchWaits, WaitPrepare, WaitCondition,
     WaitWoken, WaitInterrupted, DrainEnds, GivesBack, Giveback,
     CompleteGivesBack, GiveUrbBack, Drops, PutCreatorRef,
     FetchCopies, Submits, Enqueue, Refuses, EnqueueFails,
     SubmitFails, Binds, Register, Releases,
     Unregister, Unbound, StopDrainEnds, Stop, StopUnbind, queueVars, xferVars
<1> QED
  BY <1>1, <1>2, <1>3, <1>4

\* A fetch finds a pending request of the device its file is bound to.
LEMMA FetchRoutes ==
    ASSUME Inv, NEW th \in Threads, Fetches(th)
    PROVE  \E b \in bindings, t \in Ids :
              /\ b.device = xfer[t].device
              /\ t \in Range(pending) /\ t \notin Range(active)
              /\ Range(pending') = Range(pending) \ {t}
              /\ Range(active') = Range(active) \cup {t}
              /\ owner'[t] = b.owner
              /\ \A r \in Ids : r # t => owner'[r] = owner[r]
              /\ UNCHANGED <<bindings, stopping, waitq, next_id, xfer, usbVars>>
<1>1. PICK f \in Files : FetchTakes(th, f)
  BY DEF Fetches
<1>2. PICK b \in bindings : \E i \in FirstPending(b.device) :
         /\ b.owner = f
         /\ owner' = [owner EXCEPT ![pending[i]] = f]
         /\ pending' = Without(pending, i)
         /\ active' = Append(active, pending[i])
  BY <1>1 DEF FetchTakes
<1>3. PICK i \in FirstPending(b.device) :
         /\ b.owner = f
         /\ owner' = [owner EXCEPT ![pending[i]] = f]
         /\ pending' = Without(pending, i)
         /\ active' = Append(active, pending[i])
  BY <1>2
<1>4. i \in DOMAIN pending /\ xfer[pending[i]].device = b.device
  BY DEF FirstPending
<1>5. PICK t \in Ids : t = pending[i]
  BY <1>4 DEF Inv, TypeOK
<1>6. /\ pending \in Seq(Ids) /\ IsInjective(pending)
      /\ active \in Seq(Ids)
      /\ t \in Range(pending) /\ t \notin Range(active)
  BY <1>4, <1>5 DEF Inv, TypeOK, Lists, IsInjective, Range
<1>7. Range(pending') = Range(pending) \ {t}
  BY <1>3, <1>4, <1>5, <1>6, WithoutFacts
<1>8. Range(active') = Range(active) \cup {t}
  BY <1>3, <1>5, <1>6, AppendFacts
<1>9. owner'[t] = f /\ \A r \in Ids : r # t => owner'[r] = owner[r]
  BY <1>3, <1>5 DEF Inv, TypeOK
<1> QED
  BY <1>1, <1>3, <1>4, <1>5, <1>6, <1>7, <1>8, <1>9 DEF FetchTakes

\* A transfer somebody refers to keeps its URB and its device.
LEMMA TransfersKept ==
    ASSUME Inv, NEW th \in Threads, Step(th), NEW t \in Ids,
           refcount[t] > 0, refcount'[t] > 0
    PROVE  xfer'[t].urb = xfer[t].urb /\ xfer'[t].device = xfer[t].device
<1>1. CASE xfer' = xfer
  BY <1>1
<1>2. ASSUME NEW r, Put(r)
      PROVE  xfer'[t].urb = xfer[t].urb /\ xfer'[t].device = xfer[t].device
  <2>1. refcount \in [Ids -> Int] /\ xfer \in [Ids -> Transfer]
    BY DEF Inv, TypeOK
  <2>2. CASE r = t
    <3>1. refcount[t] # 1
      BY <1>2, <2>1, <2>2 DEF Put
    <3> QED
      BY <1>2, <2>2, <3>1 DEF Put
  <2>3. CASE r # t
    BY <1>2, <2>1, <2>3 DEF Put
  <2> QED
    BY <2>2, <2>3
<1>3. CASE Drops(th)
  BY <1>2, <1>3 DEF Drops, ReleaseRequest, PutCreatorRef, FetchCopies
<1>4. CASE GivesBack(th)
  <2>1. PICK s \in {"completed", "cancelled"} : GiveUrbBack(th, s)
    BY <1>4 DEF GivesBack, Giveback, CompleteGivesBack
  <2>2. PICK r \in Ids : r = call[th].req
    BY <1>4, RequestDrawn DEF GivesBack, Giveback, CompleteGivesBack, At, Carrying
  <2> DEFINE e == [xfer[r] EXCEPT !.state = Ended(r, s)]
  <2>3. xfer \in [Ids -> Transfer]
    BY DEF Inv, TypeOK
  <2>4. e.urb = xfer[r].urb /\ e.device = xfer[r].device
    BY <2>3 DEF Transfer
  <2>5. xfer' = [xfer EXCEPT ![r] = e]
    BY <2>1, <2>2 DEF GiveUrbBack
  <2> HIDE DEF e
  <2> QED
    BY <2>3, <2>4, <2>5
<1>5. CASE Submits(th)
  <2>1. PICK u \in Urbs, d \in Devices : Enqueue(th, u, d)
    BY <1>5 DEF Submits
  <2>2. next_id \in Nat /\ t \in Nat
    BY RequestDrawn DEF Ids
  <2>3. t # next_id + 1
    <3>1. ASSUME t = next_id + 1 PROVE FALSE
      <4>1. t > next_id
        BY <2>2, <3>1
      <4>2. /\ ~(\E x \in Threads : Creator(x, t))
            /\ ~(t \in Queued \/ \E x \in Threads : OwnsRequest(x, t))
            /\ ~(\E x \in Threads : Reader(x, t))
        BY <4>1, UnknownId
      <4>3. refcount[t] = 0
        BY <4>2 DEF Inv, RefcountExact, One
      <4> QED
        BY <4>3
    <3> QED
      BY <3>1
  <2> QED
    BY <2>1, <2>3 DEF Enqueue, Inv, TypeOK
<1>6. CASE SubmitFails(th)
  <2>1. PICK r \in Ids : r = call[th].req /\ At(th, "submit")
    BY <1>6, RequestDrawn DEF SubmitFails, At, Carrying
  <2>2. /\ xfer' = [xfer EXCEPT ![r] = NoTransfer]
        /\ refcount' = [refcount EXCEPT ![r] = @ - 2]
    BY <1>6, <2>1 DEF SubmitFails
  <2>3. /\ Creator(th, r) /\ OwnsRequest(th, r)
        /\ \A x \in Threads : ~Reader(x, r)
    BY <2>1 DEF Creator, OwnsRequest, Holds, At, Inv, Fetchers, Fetching, Reader
  <2>4. refcount[r] = 2
    BY <2>3, Referenced
  <2>5. r # t
    BY <2>2, <2>4 DEF Inv, TypeOK
  <2> QED
    BY <2>2, <2>5 DEF Inv, TypeOK
<1>7. xfer' = xfer \/ Drops(th) \/ GivesBack(th) \/ Submits(th) \/ SubmitFails(th)
  BY DEF Step, Waits, Wake, FetchReturns, FetchWaits, WaitPrepare, WaitCondition,
     WaitWoken, WaitInterrupted, TakesOne, Takes, DrainEnds,
     Refuses, EnqueueFails, SubmitQueues, Binds, Register, Fetches, FetchTakes,
     FetchRollback, Releases,
     Unregister, Unbound, StopDrainEnds, Stop, StopUnbind, xferVars
<1> QED
  BY <1>1, <1>3, <1>4, <1>5, <1>6, <1>7

\* A transfer whose URB is still to go back.
Open(t) == t <= next_id /\ resolved[t] = 0

\* Somebody refers to such a transfer, and it has a URB and a device.
LEMMA OpenLive ==
    ASSUME Inv, NEW t \in Ids, Open(t)
    PROVE  refcount[t] > 0 /\ xfer[t].urb \in Urbs /\ xfer[t].device \in Devices
<1>1. t \in Queued \/ \E x \in Threads : OwnsRequest(x, t)
  BY DEF Inv, ExactlyOnce, Open, OwnsRequest
<1>2. refcount[t] > 0
  BY <1>1, Referenced
<1> QED
  BY <1>2 DEF Inv, Live

\* Until then it keeps both.
LEMMA OpenKept ==
    ASSUME Inv, Inv', NEW th \in Threads, Step(th), NEW t \in Ids, Open(t), Open(t)'
    PROVE  xfer'[t].urb = xfer[t].urb /\ xfer'[t].device = xfer[t].device
<1> DEFINE A == \E x \in Threads : Creator(x, t)
           B == t \in Queued \/ \E x \in Threads : OwnsRequest(x, t)
           R == \E x \in Threads : Reader(x, t)
<1>1. refcount'[t] = One(A') + One(B') + One(R')
  BY DEF Inv, RefcountExact
<1>2. B'
  BY DEF Inv, ExactlyOnce, Open, OwnsRequest
<1>3. refcount'[t] > 0
  <2> HIDE DEF A, B, R
  <2> QED
    BY <1>1, <1>2 DEF One
<1> QED
  BY <1>3, OpenLive, TransfersKept

\* The requests in the lists are such.
LEMMA QueuedKept ==
    ASSUME Inv, Inv', NEW th \in Threads, Step(th), NEW t, t \in Queued, t \in Queued'
    PROVE  xfer'[t].urb = xfer[t].urb /\ xfer'[t].device = xfer[t].device
<1>1. t \in Ids
  BY ListIds
<1>2. Open(t) /\ Open(t)'
  BY <1>1 DEF Inv, ExactlyOnce, Open
<1> QED
  BY <1>1, <1>2, OpenKept

-----------------------------------------------------------------------------
(* Where each kind of step takes its thread.                               *)

\* A step is that of one thread.
LEMMA OthersStay ==
    ASSUME Inv, NEW th \in Threads, Step(th)
    PROVE  \A x \in Threads : x # th => call'[x] = call[x]
<1>1. \/ \E c : Enter(th, c)
      \/ call' = call
  BY DEF Step, Waits, Wake, FetchReturns, FetchWaits, WaitPrepare, WaitCondition,
     WaitWoken, WaitInterrupted, TakesOne, Takes, DrainEnds, GivesBack, Giveback,
     CompleteGivesBack, GiveUrbBack, Drops, ReleaseRequest, PutCreatorRef,
     FetchCopies, Submits, Enqueue, Refuses, EnqueueFails, SubmitQueues,
     SubmitFails, Binds, Register, Fetches, FetchTakes, FetchRollback, Releases,
     Unregister, Unbound, StopDrainEnds, Stop, StopUnbind, Goto, Return, Resume
<1> QED
  BY <1>1 DEF Enter, Inv, TypeOK

\* The place and the locals after a move.
LEMMA Arrival ==
    ASSUME Inv, NEW th \in Threads, NEW c, Enter(th, c)
    PROVE  call'[th] = c
  BY DEF Enter, Inv, TypeOK

\* What is known of a thread's locals.
LEMMA Departure ==
    ASSUME Inv, NEW th \in Threads
    PROVE  /\ call[th] \in Call
           /\ call[th].pc \notin {"wake", "giveback", "free"} => call[th].ret = "idle"
           /\ call[th].pc = "wake" => call[th].ret \in {"idle", "put", "stopdrain"}
           /\ call[th].pc \in {"giveback", "free"} =>
                 call[th].ret \in {"idle", "drain", "stopdrain"}
<1>1. call[th] \in Call
  BY Typing DEF Inv
<1>2. call[th].ret \in {"idle", "put", "drain", "stopdrain"}
  BY <1>1 DEF Call
<1> QED
  BY <1>1, <1>2 DEF Inv, Locals

\* Waits and wake-ups.
LEMMA WaitsMove ==
    ASSUME Inv, NEW th \in Threads, Waits(th)
    PROVE  /\ call[th].pc \in {"wake", "idle", "fetch", "prepare", "cond", "sleep"}
           /\ call'[th].ret = "idle"
           /\ \/ /\ call[th].ret = "idle"
                 /\ call'[th].pc \in {"idle", "prepare", "cond", "fetch", "sleep"}
              \/ /\ call[th].pc = "wake" /\ call[th].ret \in {"put", "stopdrain"}
                 /\ call'[th].pc = call[th].ret
<1>1. Idle.pc = "idle" /\ Idle.ret = "idle"
  BY DEF Idle
<1>2. CASE Wake(th)
  <2>1. /\ call[th] \in Call /\ call[th].pc = "wake"
        /\ call[th].ret \in {"idle", "put", "stopdrain"}
    BY <1>2, Departure DEF Wake, At
  <2>2. CASE call[th].ret = "idle"
    <3>1. call'[th] = Idle
      BY <1>2, <2>2, Arrival DEF Wake, Resume, Return
    <3> QED
      BY <1>1, <2>1, <2>2, <3>1
  <2>3. CASE call[th].ret # "idle"
    <3> DEFINE c == [call[th] EXCEPT !.pc = call[th].ret, !.ret = "idle",
                                     !.req = call[th].req]
    <3>1. call'[th] = c
      BY <1>2, <2>3, Arrival DEF Wake, Resume
    <3>2. c.pc = call[th].ret /\ c.ret = "idle"
      BY <2>1 DEF Call
    <3> HIDE DEF c
    <3> QED
      BY <2>1, <2>3, <3>1, <3>2
  <2> QED
    BY <2>2, <2>3
<1>3. CASE FetchReturns(th) \/ WaitInterrupted(th)
  <2>1. call[th].pc \in {"fetch", "sleep"} /\ call[th].ret = "idle"
    BY <1>3, Departure DEF FetchReturns, WaitInterrupted, At
  <2>2. call'[th] = Idle
    BY <1>3, Arrival DEF FetchReturns, WaitInterrupted, Return
  <2> QED
    BY <1>1, <2>1, <2>2
<1>4. CASE \E f \in Files : FetchWaits(th, f)
  <2>1. PICK f \in Files : FetchWaits(th, f)
    BY <1>4
  <2>2. call[th] \in Call /\ call[th].pc \in {"idle", "fetch"} /\ call[th].ret = "idle"
    BY <2>1, Departure DEF FetchWaits, InFetch, At
  <2> DEFINE c == [call[th] EXCEPT !.pc = "prepare", !.file = f]
  <2>3. call'[th] = c
    BY <2>1, Arrival DEF FetchWaits
  <2>4. c.pc = "prepare" /\ c.ret = "idle"
    BY <2>2 DEF Call
  <2> HIDE DEF c
  <2> QED
    BY <2>2, <2>3, <2>4
<1>5. CASE WaitPrepare(th) \/ WaitCondition(th) \/ WaitWoken(th)
  <2>1. /\ call[th] \in Call /\ call[th].pc \in {"prepare", "cond", "sleep"}
        /\ call[th].ret = "idle"
    BY <1>5, Departure DEF WaitPrepare, WaitCondition, WaitWoken, At
  <2>2. PICK q \in {"cond", "fetch", "sleep", "prepare"} : Goto(th, q)
    BY <1>5 DEF WaitPrepare, WaitCondition, WaitWoken
  <2> DEFINE c == [call[th] EXCEPT !.pc = q]
  <2>3. call'[th] = c
    BY <2>2, Arrival DEF Goto
  <2>4. c.pc = q /\ c.ret = "idle"
    BY <2>1 DEF Call
  <2> HIDE DEF c
  <2> QED
    BY <2>1, <2>3, <2>4
<1> QED
  BY <1>2, <1>3, <1>4, <1>5 DEF Waits

\* Giving a URB back.
LEMMA GivesBackMove ==
    ASSUME Inv, NEW th \in Threads, GivesBack(th)
    PROVE  /\ call[th].pc \in {"complete", "giveback"}
           /\ call'[th].pc = "free" /\ call'[th].ret = call[th].ret
           /\ call'[th].device = call[th].device /\ call'[th].file = call[th].file
<1>1. call[th] \in Call /\ call[th].pc \in {"complete", "giveback"} /\ Goto(th, "free")
  BY Departure DEF GivesBack, Giveback, CompleteGivesBack, GiveUrbBack, At
<1> DEFINE c == [call[th] EXCEPT !.pc = "free"]
<1>2. call'[th] = c
  BY <1>1, Arrival DEF Goto
<1>3. /\ c.pc = "free" /\ c.ret = call[th].ret
      /\ c.device = call[th].device /\ c.file = call[th].file
  BY <1>1 DEF Call
<1> HIDE DEF c
<1> QED
  BY <1>1, <1>2, <1>3

\* Dropping a reference on a transfer.
LEMMA DropsMove ==
    ASSUME Inv, NEW th \in Threads, Drops(th)
    PROVE  /\ call[th].pc \in {"free", "put", "copy"} /\ call'[th].ret = "idle"
           /\ \/ call[th].ret = "idle" /\ call'[th].pc \in {"idle", "rollback"}
              \/ /\ call[th].ret \in {"drain", "stopdrain"}
                 /\ call'[th].pc = call[th].ret
                 /\ call'[th].device = call[th].device
                 /\ call'[th].file = call[th].file
<1>1. Idle.pc = "idle" /\ Idle.ret = "idle"
  BY DEF Idle
<1>2. call[th].pc \in {"free", "put", "copy"} /\ call[th] \in Call
  BY Departure DEF Drops, ReleaseRequest, PutCreatorRef, FetchCopies, At
<1>3. CASE Return(th) /\ call[th].ret = "idle"
  BY <1>1, <1>2, <1>3, Arrival DEF Return
<1>4. CASE Goto(th, "rollback") /\ call[th].ret = "idle"
  <2> DEFINE c == [call[th] EXCEPT !.pc = "rollback"]
  <2>1. call'[th] = c
    BY <1>4, Arrival DEF Goto
  <2>2. c.pc = "rollback" /\ c.ret = "idle"
    BY <1>2, <1>4 DEF Call
  <2> HIDE DEF c
  <2> QED
    BY <1>2, <1>4, <2>1, <2>2
<1>5. CASE Resume(th, NoId) /\ call[th].ret \in {"drain", "stopdrain"}
  <2> DEFINE c == [call[th] EXCEPT !.pc = call[th].ret, !.ret = "idle", !.req = NoId]
  <2>1. call'[th] = c
    BY <1>5, Arrival DEF Resume
  <2>2. /\ c.pc = call[th].ret /\ c.ret = "idle"
        /\ c.device = call[th].device /\ c.file = call[th].file
    BY <1>2 DEF Call
  <2> HIDE DEF c
  <2> QED
    BY <1>2, <1>5, <2>1, <2>2
<1>6. \/ At(th, "free") /\ Resume(th, NoId)
      \/ At(th, "put") /\ Return(th)
      \/ At(th, "copy") /\ (Return(th) \/ Goto(th, "rollback"))
  BY DEF Drops, ReleaseRequest, PutCreatorRef, FetchCopies
<1> QED
  BY <1>3, <1>4, <1>5, <1>6, Departure DEF At, Resume

\* urb_enqueue.
LEMMA SubmitMove ==
    ASSUME Inv, NEW th \in Threads,
           Submits(th) \/ Refuses(th) \/ SubmitQueues(th) \/ SubmitFails(th)
    PROVE  /\ call[th].pc \in {"idle", "submit"} /\ call[th].ret = "idle"
           /\ call'[th].pc \in {"idle", "submit", "wake"}
           /\ call'[th].ret \in {"idle", "put"}
           /\ SubmitQueues(th) => call'[th].pc = "wake"
<1>1. Idle.pc = "idle" /\ Idle.ret = "idle"
  BY DEF Idle
<1>2. /\ call[th] \in Call /\ call[th].pc \in {"idle", "submit"}
      /\ call[th].ret = "idle"
  <2>1. call[th].pc \in {"idle", "submit"}
    BY DEF Submits, Refuses, Enqueue, EnqueueFails, SubmitQueues, SubmitFails, At
  <2> QED
    BY <2>1, Departure
<1>3. CASE Submits(th)
  <2>1. PICK t : Enter(th, [call[th] EXCEPT !.pc = "submit", !.req = t])
    BY <1>3 DEF Submits, Enqueue
  <2> DEFINE c == [call[th] EXCEPT !.pc = "submit", !.req = t]
  <2>2. call'[th] = c
    BY <2>1, Arrival
  <2>3. c.pc = "submit" /\ c.ret = "idle"
    BY <1>2 DEF Call
  <2>4. ~SubmitQueues(th)
    BY <1>3 DEF Submits, Enqueue, SubmitQueues, At
  <2> HIDE DEF c
  <2> QED
    BY <1>2, <2>2, <2>3, <2>4
<1>4. CASE Refuses(th)
  BY <1>2, <1>4 DEF Refuses, EnqueueFails, SubmitQueues, At
<1>5. CASE SubmitQueues(th)
  <2> DEFINE c == [call[th] EXCEPT !.pc = "wake", !.ret = "put"]
  <2>1. call'[th] = c
    BY <1>5, Arrival DEF SubmitQueues
  <2>2. c.pc = "wake" /\ c.ret = "put"
    BY <1>2 DEF Call
  <2> HIDE DEF c
  <2> QED
    BY <1>2, <2>1, <2>2
<1>6. CASE SubmitFails(th) /\ ~SubmitQueues(th)
  BY <1>1, <1>2, <1>6, Arrival DEF SubmitFails, Return
<1> QED
  BY <1>3, <1>4, <1>5, <1>6

\* register, fetch and the end of release_owner.
LEMMA UserMove ==
    ASSUME Inv, NEW th \in Threads
    PROVE  /\ Binds(th) => /\ call[th].pc = "idle" /\ call[th].ret = "idle"
                           /\ call'[th].pc = "wake" /\ call'[th].ret = "idle"
           /\ Fetches(th) => /\ call[th].pc \in {"idle", "fetch"}
                             /\ call[th].ret = "idle"
                             /\ call'[th].pc = "copy" /\ call'[th].ret = "idle"
           /\ FetchRollback(th) => /\ call[th].pc = "rollback" /\ call[th].ret = "idle"
                                   /\ call'[th].pc \in {"idle", "wake"}
                                   /\ call'[th].ret = "idle"
                                   /\ pending' # pending => call'[th].pc = "wake"
           /\ Unbound(th) => /\ call[th].pc = "unbound" /\ call[th].ret = "idle"
                             /\ call'[th].pc = "wake" /\ call'[th].ret = "idle"
           /\ DrainEnds(th) => /\ call[th].pc = "drain" /\ call[th].ret = "idle"
                               /\ call'[th].pc = "unbound" /\ call'[th].ret = "idle"
                               /\ call'[th].device = call[th].device
<1> DEFINE w == [Idle EXCEPT !.pc = "wake"]
<1>1. /\ Idle.pc = "idle" /\ Idle.ret = "idle"
      /\ w.pc = "wake" /\ w.ret = "idle"
  BY DEF Idle
<1>2. call[th] \in Call
  BY Departure
<1>3. ASSUME Binds(th)
      PROVE  /\ call[th].pc = "idle" /\ call[th].ret = "idle"
             /\ call'[th].pc = "wake" /\ call'[th].ret = "idle"
  <2>1. call[th].pc = "idle" /\ call[th].ret = "idle" /\ Goto(th, "wake")
    BY <1>3, Departure DEF Binds, Register, At
  <2> DEFINE c == [call[th] EXCEPT !.pc = "wake"]
  <2>2. call'[th] = c
    BY <2>1, Arrival DEF Goto
  <2>3. c.pc = "wake" /\ c.ret = "idle"
    BY <1>2, <2>1 DEF Call
  <2> HIDE DEF c
  <2> QED
    BY <2>1, <2>2, <2>3
<1>4. ASSUME Fetches(th)
      PROVE  /\ call[th].pc \in {"idle", "fetch"} /\ call[th].ret = "idle"
             /\ call'[th].pc = "copy" /\ call'[th].ret = "idle"
  <2>1. call[th].pc \in {"idle", "fetch"} /\ call[th].ret = "idle"
    BY <1>4, Departure DEF Fetches, FetchTakes, InFetch, At
  <2>2. PICK f, t : Enter(th, [call[th] EXCEPT !.pc = "copy", !.file = f, !.req = t])
    BY <1>4 DEF Fetches, FetchTakes
  <2> DEFINE c == [call[th] EXCEPT !.pc = "copy", !.file = f, !.req = t]
  <2>3. call'[th] = c
    BY <2>2, Arrival
  <2>4. c.pc = "copy" /\ c.ret = "idle"
    BY <1>2, <2>1 DEF Call
  <2> HIDE DEF c
  <2> QED
    BY <2>1, <2>3, <2>4
<1>5. ASSUME FetchRollback(th)
      PROVE  /\ call[th].pc = "rollback" /\ call[th].ret = "idle"
             /\ call'[th].pc \in {"idle", "wake"}
             /\ call'[th].ret = "idle"
             /\ pending' # pending => call'[th].pc = "wake"
  <2>1. call[th].pc = "rollback" /\ call[th].ret = "idle"
    BY <1>5, Departure DEF FetchRollback, At
  <2>2. Enter(th, w) \/ (Enter(th, Idle) /\ pending' = pending)
    BY <1>5 DEF FetchRollback, Return
  <2>3. call'[th] = w \/ (call'[th] = Idle /\ pending' = pending)
    BY <2>2, Arrival
  <2> HIDE DEF w
  <2> QED
    BY <1>1, <2>1, <2>3
<1>6. ASSUME Unbound(th)
      PROVE  /\ call[th].pc = "unbound" /\ call[th].ret = "idle"
             /\ call'[th].pc = "wake" /\ call'[th].ret = "idle"
  <2>1. call[th].pc = "unbound" /\ call[th].ret = "idle"
    BY <1>6, Departure DEF Unbound, At
  <2>2. call'[th] = w
    BY <1>6, Arrival DEF Unbound
  <2> HIDE DEF w
  <2> QED
    BY <1>1, <2>1, <2>2
<1>7. ASSUME DrainEnds(th)
      PROVE  /\ call[th].pc = "drain" /\ call[th].ret = "idle"
             /\ call'[th].pc = "unbound" /\ call'[th].ret = "idle"
             /\ call'[th].device = call[th].device
  <2>1. call[th].pc = "drain" /\ call[th].ret = "idle" /\ Goto(th, "unbound")
    BY <1>7, Departure DEF DrainEnds, At
  <2> DEFINE c == [call[th] EXCEPT !.pc = "unbound"]
  <2>2. call'[th] = c
    BY <2>1, Arrival DEF Goto
  <2>3. c.pc = "unbound" /\ c.ret = "idle" /\ c.device = call[th].device
    BY <1>2, <2>1 DEF Call
  <2> HIDE DEF c
  <2> QED
    BY <2>1, <2>2, <2>3
<1> QED
  BY <1>3, <1>4, <1>5, <1>6, <1>7

\* release_owner begins with the binding it removes.
LEMMA ReleaseMove ==
    ASSUME Inv, NEW th \in Threads, Releases(th)
    PROVE  \E b \in bindings :
              /\ bindings' = bindings \ {b}
              /\ call[th].pc = "idle" /\ call[th].ret = "idle"
              /\ call'[th].pc = "drain" /\ call'[th].ret = "idle"
              /\ call'[th].file = b.owner /\ call'[th].device = b.device
              /\ UNCHANGED <<pending, active, stopping, waitq, xferVars, usbVars>>
<1>1. PICK f \in Files, b \in bindings :
         /\ b.owner = f /\ bindings' = bindings \ {b}
         /\ Enter(th, [call[th] EXCEPT !.pc = "drain", !.file = f,
                                       !.device = b.device])
         /\ UNCHANGED <<pending, active, stopping, waitq, xferVars, usbVars>>
  BY DEF Releases, Unregister
<1>2. call[th] \in Call /\ call[th].pc = "idle" /\ call[th].ret = "idle"
  BY Departure DEF Releases, Unregister, At
<1> DEFINE c == [call[th] EXCEPT !.pc = "drain", !.file = f, !.device = b.device]
<1>3. call'[th] = c
  BY <1>1, Arrival
<1>4. c.pc = "drain" /\ c.ret = "idle" /\ c.file = f /\ c.device = b.device
  BY <1>2 DEF Call
<1> HIDE DEF c
<1> QED
  BY <1>1, <1>2, <1>3, <1>4

\* virtusb_backend_stop.
LEMMA StopMove ==
    ASSUME Inv, NEW th \in Threads
    PROVE  /\ Stop(th) => /\ call[th].pc = "idle" /\ call[th].ret = "idle"
                          /\ call'[th].pc = "wake" /\ call'[th].ret = "stopdrain"
           /\ StopDrainEnds(th) => /\ call[th].pc = "stopdrain" /\ call[th].ret = "idle"
                                   /\ call'[th].pc = "unbind" /\ call'[th].ret = "idle"
           /\ StopUnbind(th) =>
                 /\ call[th].pc = "unbind" /\ call[th].ret = "idle"
                 /\ call'[th].ret = "idle"
                 /\ \/ call'[th].pc = "unbind"
                    \/ call'[th].pc = "stopped" /\ bindings' = {}
<1>1. call[th] \in Call
  BY Departure
<1>2. ASSUME Stop(th)
      PROVE  /\ call[th].pc = "idle" /\ call[th].ret = "idle"
             /\ call'[th].pc = "wake" /\ call'[th].ret = "stopdrain"
  <2>1. call[th].pc = "idle" /\ call[th].ret = "idle"
    BY <1>2, Departure DEF Stop, At
  <2> DEFINE c == [call[th] EXCEPT !.pc = "wake", !.ret = "stopdrain"]
  <2>2. call'[th] = c
    BY <1>2, Arrival DEF Stop
  <2>3. c.pc = "wake" /\ c.ret = "stopdrain"
    BY <1>1 DEF Call
  <2> HIDE DEF c
  <2> QED
    BY <2>1, <2>2, <2>3
<1>3. ASSUME NEW p, Goto(th, p)
      PROVE  call'[th].pc = p /\ call'[th].ret = call[th].ret
  <2> DEFINE c == [call[th] EXCEPT !.pc = p]
  <2>1. call'[th] = c
    BY <1>3, Arrival DEF Goto
  <2>2. c.pc = p /\ c.ret = call[th].ret
    BY <1>1 DEF Call
  <2> HIDE DEF c
  <2> QED
    BY <2>1, <2>2
<1>4. ASSUME StopDrainEnds(th)
      PROVE  /\ call[th].pc = "stopdrain" /\ call[th].ret = "idle"
             /\ call'[th].pc = "unbind" /\ call'[th].ret = "idle"
  BY <1>3, <1>4, Departure DEF StopDrainEnds, At
<1>5. ASSUME StopUnbind(th)
      PROVE  /\ call[th].pc = "unbind" /\ call[th].ret = "idle"
             /\ call'[th].ret = "idle"
             /\ \/ call'[th].pc = "unbind"
                \/ call'[th].pc = "stopped" /\ bindings' = {}
  BY <1>3, <1>5, Departure DEF StopUnbind, At
<1> QED
  BY <1>2, <1>4, <1>5

-----------------------------------------------------------------------------
(* Bindings, and the end of virtusb_backend_stop.                          *)

\* register refuses a second binding, and nobody else adds one.
LEMMA BindingsUniqueStep ==
    ASSUME BindingsUnique, NEW th \in Threads, Step(th)
    PROVE  BindingsUnique'
<1>1. CASE Binds(th)
  <2>1. PICK f \in Files, d \in Devices : Register(th, f, d)
    BY <1>1 DEF Binds
  <2> DEFINE b == [device |-> d, owner |-> f]
  <2>2. b.owner = f /\ b.device = d /\ bindings' = bindings \cup {b}
    BY <2>1 DEF Register
  <2>3. \A c \in bindings : c.owner # f /\ c.device # d
    BY <2>1 DEF Register, Free, BoundFile, BoundDevice
  <2> HIDE DEF b
  <2> QED
    BY <2>2, <2>3 DEF BindingsUnique
<1>2. CASE bindings' \subseteq bindings
  BY <1>2 DEF BindingsUnique
<1> QED
  BY <1>1, <1>2, BindingsStep DEF Releases, Unregister, StopUnbind

\* virtusb_backend_stop has set stopping before it drains and unbinds.
StopSets ==
    StopDraining \/ At(Remover, "unbind") \/ At(Remover, "stopped") => stopping

StopInv == StopSets /\ StopQuiescent

\* Where the remover is, and what takes it there.
LEMMA RemoverMove ==
    ASSUME Inv, NEW th \in Threads, Step(th)
    PROVE  /\ StopDraining' => StopDraining \/ (th = Remover /\ Stop(th))
           /\ StopDraining => StopDraining' \/ (th = Remover /\ StopDrainEnds(th))
           /\ At(Remover, "unbind")' =>
                 At(Remover, "unbind") \/ (th = Remover /\ StopDrainEnds(th))
           /\ At(Remover, "stopped")' =>
                 At(Remover, "stopped") \/ (th = Remover /\ StopUnbind(th))
<1>1. Remover \in Threads
  BY DEF Threads
<1>2. CASE th # Remover
  <2>1. call'[Remover] = call[Remover]
    BY <1>1, <1>2, OthersStay
  <2> QED
    BY <2>1 DEF StopDraining, At
<1>3. CASE th = Remover /\ Waits(th)
  BY <1>3, WaitsMove DEF StopDraining, At
<1>4. CASE th = Remover /\ TakesOne(th)
  <2>1. PICK t \in Ids, c \in Call : Takes(th, t, c)
    BY <1>4 DEF TakesOne
  <2>2. call'[th] = c
    BY <2>1, Arrival DEF Takes
  <2> QED
    BY <1>4, <2>1, <2>2, Departure DEF Takes, StopDraining, At
<1>5. CASE th = Remover /\ GivesBack(th)
  BY <1>5, GivesBackMove DEF StopDraining, At
<1>6. CASE th = Remover /\ Drops(th)
  BY <1>6, DropsMove DEF StopDraining, At
<1>7. CASE /\ th = Remover
           /\ Submits(th) \/ Refuses(th) \/ SubmitQueues(th) \/ SubmitFails(th)
  BY <1>7, SubmitMove DEF StopDraining, At
<1>8. CASE /\ th = Remover
           /\ \/ Binds(th) \/ Fetches(th) \/ FetchRollback(th) \/ Unbound(th)
              \/ DrainEnds(th)
  BY <1>8, UserMove DEF StopDraining, At
<1>9. CASE th = Remover /\ Releases(th)
  BY <1>9, ReleaseMove DEF StopDraining, At
<1>10. CASE th = Remover /\ (StopDrainEnds(th) \/ Stop(th) \/ StopUnbind(th))
  BY <1>10, StopMove DEF StopDraining, At
<1> QED
  BY <1>2, <1>3, <1>4, <1>5, <1>6, <1>7, <1>8, <1>9, <1>10 DEF Step

\* A list without elements is empty.
LEMMA EmptyList ==
    ASSUME NEW S, NEW s \in Seq(S)
    PROVE  s = <<>> <=> Range(s) = {}
<1>1. CASE s = <<>>
  BY <1>1 DEF Range
<1>2. CASE s # <<>>
  <2>1. 1 \in DOMAIN s
    BY <1>2
  <2> QED
    BY <1>2, <2>1 DEF Range
<1> QED
  BY <1>1, <1>2

\* After the drain loop of stop no list fills again: submit sees stopping, a
\* rollback does not find its request and a fetch has nothing to take.
LEMMA StopInvStep ==
    ASSUME Inv, Inv', StopInv, NEW th \in Threads, Step(th)
    PROVE  StopInv'
<1>1. StopSets'
  <2>1. stopping => stopping'
    BY StoppingStep DEF Stop
  <2> QED
    BY <2>1, RemoverMove DEF StopInv, StopSets, StopDrainEnds, Stop, StopUnbind,
       StopDraining, At
<1>2. ASSUME At(Remover, "unbind")' \/ At(Remover, "stopped")'
      PROVE  pending' = <<>> /\ active' = <<>>
  <2>1. stopping /\ pending = <<>> /\ active = <<>>
    BY <1>2, RemoverMove DEF StopInv, StopSets, StopQuiescent, StopDrainEnds,
       StopUnbind, StopDraining, At
  <2>2. Range(pending) = {} /\ Range(active) = {}
    BY <2>1 DEF Range
  <2>3. ~SubmitQueues(th)
    BY <2>1 DEF SubmitQueues, Accepts
  <2>4. ~Fetches(th)
    BY <2>2, FetchRoutes
  <2>5. FetchRollback(th) => pending' = pending /\ active' = active
    BY <2>1 DEF FetchRollback, FindId
  <2>6. Range(pending') = {} /\ Range(active') = {}
    BY <2>2, <2>3, <2>4, <2>5, ListsStep DEF ListsShrink
  <2>7. pending' \in Seq(Ids) /\ active' \in Seq(Ids)
    BY DEF Inv, TypeOK
  <2> QED
    BY <2>6, <2>7, EmptyList
<1>3. ASSUME At(Remover, "stopped")'
      PROVE  bindings' = {}
  <2>1. CASE At(Remover, "stopped")
    <3>1. bindings = {} /\ stopping
      BY <2>1 DEF StopInv, StopSets, StopQuiescent
    <3>2. ~Binds(th) /\ ~Releases(th)
      BY <3>1 DEF Binds, Register, Releases, Unregister
    <3>3. ~(th = Remover /\ StopUnbind(th))
      BY <2>1 DEF StopUnbind, At
    <3> QED
      BY <3>1, <3>2, <3>3, BindingsStep
  <2>2. CASE th = Remover /\ StopUnbind(th)
    BY <1>3, <2>2, StopMove DEF At
  <2> QED
    BY <1>3, <2>1, <2>2, RemoverMove
<1> QED
  BY <1>1, <1>2, <1>3 DEF StopInv, StopQuiescent

-----------------------------------------------------------------------------
(* URBs.                                                                   *)

\* A URB that goes to the HCD is of a new transfer, one that goes back is of a
\* transfer that ends, and no other step changes who has a URB.
LEMMA UrbStep ==
    ASSUME Inv, Inv', UrbOfOneTransfer, NEW th \in Threads, Step(th)
    PROVE  UrbOfOneTransfer'
<1>1. /\ \A t1, t2 \in Ids : Open(t1) /\ Open(t2) /\ xfer[t1].urb = xfer[t2].urb => t1 = t2
      /\ \A u \in Urbs : urb[u] = "hcd" <=> \E t \in Ids : Open(t) /\ xfer[t].urb = u
  <2>1. ASSUME NEW t1 \in Ids, NEW t2 \in Ids, Open(t1), Open(t2),
               xfer[t1].urb = xfer[t2].urb
        PROVE  t1 = t2
    <3>1. xfer[t1].urb \in Urbs
      BY <2>1, OpenLive
    <3> QED
      BY <2>1, <3>1 DEF UrbOfOneTransfer, Open
  <2>2. ASSUME NEW u \in Urbs
        PROVE  urb[u] = "hcd" <=> \E t \in Ids : Open(t) /\ xfer[t].urb = u
    BY DEF UrbOfOneTransfer, Open
  <2> QED
    BY <2>1, <2>2
<1>2. \A t \in Ids : Open(t) /\ Open(t)' => xfer'[t].urb = xfer[t].urb
  BY OpenKept
<1>3. SUFFICES
        /\ \A t1, t2 \in Ids : Open(t1)' /\ Open(t2)' /\ xfer'[t1].urb = xfer'[t2].urb
                                  => t1 = t2
        /\ \A u \in Urbs : urb'[u] = "hcd" <=> \E t \in Ids : Open(t)' /\ xfer'[t].urb = u
  BY DEF UrbOfOneTransfer, Open
<1>4. urb \in [Urbs -> {"host", "hcd"}] /\ resolved \in [Ids -> Nat] /\ next_id \in Nat
  BY RequestDrawn DEF Inv, TypeOK
<1>5. CASE next_id' = next_id /\ resolved' = resolved /\ urb' = urb
  <2>1. \A t \in Ids : Open(t)' <=> Open(t)
    BY <1>5 DEF Open
  <2> QED
    BY <1>1, <1>2, <1>5, <2>1
<1>6. CASE Refuses(th)
  <2>0. PICK n \in Ids : n = next_id + 1
    BY <1>4, <1>6, BoundAssumption DEF Refuses, EnqueueFails, Ids
  <2>1. /\ n = next_id + 1 /\ next_id' = n
        /\ resolved' = [resolved EXCEPT ![n] = @ + 1] /\ urb' = urb
    BY <1>6, <2>0 DEF Refuses, EnqueueFails
  <2>2. \A t \in Ids : Open(t)' <=> Open(t)
    <3>1. n > next_id
      BY <1>4, <2>1
    <3>2. resolved[n] = 0
      BY <3>1, UnknownId
    <3> QED
      BY <1>4, <2>1, <3>2 DEF Open, Ids
  <2> QED
    BY <1>1, <1>2, <2>1, <2>2
<1>7. CASE Submits(th)
  <2>1. PICK v \in Urbs, d \in Devices : Enqueue(th, v, d)
    BY <1>7 DEF Submits
  <2>2. PICK n \in Ids : n = next_id + 1
    BY <1>4, <2>1, BoundAssumption DEF Enqueue, Ids
  <2>3. next_id' = n /\ resolved' = resolved /\ urb[v] = "host"
    BY <2>1, <2>2 DEF Enqueue
  <2>4. xfer'[n].urb = v
    BY <2>1, <2>2 DEF Enqueue, NewTransfer, Inv, TypeOK
  <2>5. urb'[v] = "hcd" /\ \A u \in Urbs : u # v => urb'[u] = urb[u]
    BY <1>4, <2>1 DEF Enqueue
  <2>6. \A t \in Ids : Open(t)' <=> Open(t) \/ t = n
    <3>1. n > next_id
      BY <1>4, <2>2
    <3>2. resolved[n] = 0
      BY <3>1, UnknownId
    <3> QED
      BY <1>4, <2>2, <2>3, <3>2 DEF Open, Ids
  <2>7. \A t \in Ids : Open(t) => xfer[t].urb # v /\ t # n
    <3>1. ~Open(n)
      BY <1>4, <2>2 DEF Open
    <3> QED
      BY <1>1, <2>3, <3>1
  <2>8. \A t \in Ids : Open(t) => xfer'[t].urb = xfer[t].urb
    BY <1>2, <2>6
  <2> HIDE DEF Open
  <2> QED
    BY <1>1, <2>4, <2>5, <2>6, <2>7, <2>8
<1>8. CASE GivesBack(th) \/ SubmitFails(th)
  <2>1. PICK r \in Ids : /\ r = call[th].req
                         /\ call[th].pc \in {"submit", "complete", "giveback"}
    BY <1>8, RequestDrawn
    DEF GivesBack, Giveback, CompleteGivesBack, SubmitFails, At, Carrying
  <2>2. Open(r)
    BY <2>1 DEF Inv, ExactlyOnce, Holds, Open
  <2>3. /\ next_id' = next_id /\ resolved' = [resolved EXCEPT ![r] = @ + 1]
        /\ urb' = [urb EXCEPT ![xfer[r].urb] = "host"]
    BY <1>8, <2>1
    DEF GivesBack, Giveback, CompleteGivesBack, GiveUrbBack, SubmitFails
  <2>4. \A t \in Ids : Open(t)' <=> Open(t) /\ t # r
    BY <1>4, <2>2, <2>3 DEF Open
  <2>5. PICK v \in Urbs : v = xfer[r].urb
    BY <2>2, OpenLive
  <2>6. urb'[v] = "host" /\ \A u \in Urbs : u # v => urb'[u] = urb[u]
    BY <1>4, <2>3, <2>5
  <2>7. \A t \in Ids : Open(t) /\ xfer[t].urb = v => t = r
    BY <1>1, <2>2, <2>5
  <2> HIDE DEF Open
  <2> QED
    BY <1>1, <1>2, <2>2, <2>4, <2>5, <2>6, <2>7
<1>9. \/ next_id' = next_id /\ resolved' = resolved /\ urb' = urb
      \/ Refuses(th) \/ Submits(th) \/ GivesBack(th) \/ SubmitFails(th)
  BY DEF Step, Waits, Wake, FetchReturns, FetchWaits, WaitPrepare, WaitCondition,
     WaitWoken, WaitInterrupted, TakesOne, Takes, DrainEnds, Drops, ReleaseRequest,
     PutCreatorRef, FetchCopies, SubmitQueues, Binds, Register, Fetches,
     FetchTakes, FetchRollback, Releases, Unregister, Unbound, StopDrainEnds,
     Stop, StopUnbind, xferVars, usbVars
<1> QED
  BY <1>5, <1>6, <1>7, <1>8, <1>9

\* A fetch and a rollback move requests between the lists; only submit adds
\* one, and only a thread that takes a request removes one.
LEMMA QueuedStep ==
    ASSUME Inv, NEW th \in Threads, Step(th)
    PROVE  \/ Queued' = Queued /\ linked' = linked
           \/ TakesOne(th)
           \/ SubmitQueues(th)
<1>1. CASE Fetches(th)
  <2>1. linked' = linked
    BY <1>1 DEF Fetches, FetchTakes, usbVars
  <2> QED
    BY <1>1, <2>1, FetchRoutes DEF Queued
<1>2. CASE FetchRollback(th)
  <2>1. linked' = linked
    BY <1>2 DEF FetchRollback, usbVars
  <2>2. PICK t \in Ids : t = call[th].req
    BY <1>2, RequestDrawn DEF FetchRollback, At, Carrying
  <2>3. CASE UNCHANGED <<pending, active>>
    BY <2>1, <2>3 DEF Queued
  <2>4. CASE /\ \E i \in FindId(call[th].file, t) : active' = Without(active, i)
             /\ pending' = ToHead(t)
    <3>1. PICK i \in DOMAIN active : active[i] = t /\ active' = Without(active, i)
      BY <2>4 DEF FindId
    <3>2. active \in Seq(Ids) /\ IsInjective(active) /\ pending \in Seq(Ids)
      BY DEF Inv, TypeOK, Lists, IsInjective
    <3>3. Range(active') = Range(active) \ {t}
      BY <3>1, <3>2, WithoutFacts
    <3>4. Range(pending') = Range(pending) \cup {t}
      BY <2>4, <3>2, PrependFacts DEF ToHead
    <3>5. t \in Range(active)
      BY <3>1 DEF Range
    <3> QED
      BY <2>1, <3>3, <3>4, <3>5 DEF Queued
  <2> QED
    BY <1>2, <2>2, <2>3, <2>4 DEF FetchRollback
<1>3. CASE UNCHANGED <<pending, active, linked>>
  BY <1>3 DEF Queued
<1>4. \/ UNCHANGED <<pending, active, linked>> \/ TakesOne(th) \/ SubmitQueues(th)
      \/ Fetches(th) \/ FetchRollback(th)
  BY DEF Step, Waits, Wake, FetchReturns, FetchWaits, WaitPrepare, WaitCondition,
     WaitWoken, WaitInterrupted, DrainEnds, Drops, ReleaseRequest,
     PutCreatorRef, FetchCopies, Binds, Register, GivesBack, Giveback,
     CompleteGivesBack, GiveUrbBack, Submits, Enqueue, Refuses, EnqueueFails,
     SubmitFails, Releases, Unregister, Unbound, StopDrainEnds,
     Stop, StopUnbind, queueVars, usbVars
<1> QED
  BY <1>1, <1>2, <1>3, <1>4

\* The endpoint queues follow the lists: a URB is linked and unlinked in the
\* lock section that moves its request.
LEMMA LinkedStep ==
    ASSUME Inv, Inv', UrbOfOneTransfer, LinkedIffQueued, NEW th \in Threads, Step(th)
    PROVE  LinkedIffQueued'
<1>1. \A t \in Queued \cap Queued' : xfer'[t].urb = xfer[t].urb
  BY QueuedKept
<1>2. CASE Queued' = Queued /\ linked' = linked
  BY <1>1, <1>2 DEF LinkedIffQueued
<1>3. CASE TakesOne(th)
  <2>1. PICK t \in Ids : /\ t \in Queued /\ Queued' = Queued \ {t}
                         /\ linked' = linked \ {xfer[t].urb}
    BY <1>3 DEF TakesOne, Takes
  <2>2. \A r \in Queued : r # t => xfer[r].urb # xfer[t].urb
    <3>1. \A r \in Queued : r \in Ids /\ Open(r)
      BY ListIds DEF Inv, ExactlyOnce, Open
    <3>2. xfer[t].urb \in Urbs
      BY <2>1, <3>1, OpenLive
    <3> QED
      BY <2>1, <3>1, <3>2 DEF UrbOfOneTransfer, Open
  <2> QED
    BY <1>1, <2>1, <2>2 DEF LinkedIffQueued
<1>4. CASE SubmitQueues(th)
  <2>1. PICK t \in Ids : t = call[th].req
    BY <1>4, RequestDrawn DEF SubmitQueues, At, Carrying
  <2>2. linked' = linked \cup {xfer[t].urb} /\ xfer' = xfer
    BY <1>4, <2>1 DEF SubmitQueues, xferVars
  <2>3. Queued' = Queued \cup {t}
    <3>1. pending' = Append(pending, t) /\ active' = active
      BY <1>4, <2>1 DEF SubmitQueues
    <3>2. Range(pending') = Range(pending) \cup {t}
      BY <3>1, AppendFacts DEF Inv, TypeOK
    <3> QED
      BY <3>1, <3>2 DEF Queued
  <2> QED
    BY <2>2, <2>3 DEF LinkedIffQueued
<1> QED
  BY <1>2, <1>3, <1>4, QueuedStep

-----------------------------------------------------------------------------
(* Look-ups in the lists.                                                  *)

\* A set of positions has a first one.
LEMMA Least ==
    ASSUME NEW T, T \subseteq Nat, T # {}
    PROVE  \E i \in T : \A j \in T : ~(j < i)
<1> DEFINE R == OpToRel(<, Nat)
<1>1. IsWellFoundedOn(R, Nat)
  BY NatLessThanWellFounded
<1>2. \A i, j \in Nat : i < j => <<i, j>> \in R
  BY DEF OpToRel
<1> HIDE DEF R
<1>3. PICK i \in T : \A j \in T : ~(<<j, i>> \in R)
  BY <1>1, WFMin
<1> QED
  BY <1>2, <1>3

PendingFor(d) == \E t \in Range(pending) : xfer[t].device = d

\* The search through the pending list finds a request if there is one.
LEMMA FirstPendingFound ==
    ASSUME Inv, NEW d
    PROVE  FirstPending(d) # {} <=> PendingFor(d)
<1>1. pending \in Seq(Ids) /\ DOMAIN pending = 1..Len(pending) /\ Len(pending) \in Nat
  BY DEF Inv, TypeOK
<1>2. ASSUME PendingFor(d) PROVE FirstPending(d) # {}
  <2> DEFINE T == {i \in DOMAIN pending : xfer[pending[i]].device = d}
  <2>1. T \subseteq Nat /\ T # {}
    BY <1>1, <1>2 DEF PendingFor, Range
  <2>2. PICK i \in T : \A j \in T : ~(j < i)
    BY <2>1, Least
  <2>3. i \in DOMAIN pending /\ xfer[pending[i]].device = d
    BY <2>2
  <2>4. ASSUME NEW j \in 1..(i - 1)
        PROVE  xfer[pending[j]].device # d
    <3>1. j \in DOMAIN pending /\ j < i
      BY <1>1, <2>3, <2>4
    <3> QED
      BY <2>2, <3>1
  <2> QED
    BY <2>3, <2>4 DEF FirstPending
<1>3. ASSUME FirstPending(d) # {} PROVE PendingFor(d)
  BY <1>3 DEF FirstPending, PendingFor, Range
<1> QED
  BY <1>2, <1>3

\* So does the search through the active list.
LEMMA FirstActiveFound ==
    ASSUME Inv, NEW d, NEW f, FirstActive(d, f) = {},
           NEW t \in Range(active), xfer[t].device = d, owner[t] = f
    PROVE  FALSE
<1>1. active \in Seq(Ids) /\ DOMAIN active = 1..Len(active) /\ Len(active) \in Nat
  BY DEF Inv, TypeOK
<1> DEFINE T == {i \in DOMAIN active :
                    xfer[active[i]].device = d /\ owner[active[i]] = f}
<1>2. T \subseteq Nat /\ T # {}
  BY <1>1 DEF Range
<1>3. PICK i \in T : \A j \in T : ~(j < i)
  BY <1>2, Least
<1>4. i \in DOMAIN active /\ xfer[active[i]].device = d /\ owner[active[i]] = f
  BY <1>3
<1>5. ASSUME NEW j \in 1..(i - 1)
      PROVE  ~(xfer[active[j]].device = d /\ owner[active[j]] = f)
  <2>1. j \in DOMAIN active /\ j < i
    BY <1>1, <1>4, <1>5
  <2> QED
    BY <1>3, <2>1
<1> QED
  BY <1>4, <1>5 DEF FirstActive

-----------------------------------------------------------------------------
(* Drain loops.                                                            *)

\* Thread x goes on with release_owner, or has no part in one.
KeepsReleasing(x) ==
    /\ Draining(x)' <=> Draining(x)
    /\ At(x, "unbound")' <=> At(x, "unbound")
    /\ Draining(x) \/ At(x, "unbound") =>
          call'[x].device = call[x].device
    /\ Draining(x) => call'[x].file = call[x].file

\* A release_owner that has begun goes on through its givebacks until its loop
\* ends, with the device and the file it began with.
LEMMA ReleasingStep ==
    ASSUME Inv, NEW th \in Threads, Step(th)
    PROVE  /\ \A x \in Threads : x # th => KeepsReleasing(x)
           /\ KeepsReleasing(th) \/ Releases(th) \/ DrainEnds(th) \/ Unbound(th)
<1>1. ASSUME NEW x \in Threads, x # th PROVE KeepsReleasing(x)
  <2>1. call'[x] = call[x]
    BY <1>1, OthersStay
  <2> QED
    BY <2>1 DEF KeepsReleasing, Draining, At
<1> SUFFICES KeepsReleasing(th) \/ Releases(th) \/ DrainEnds(th) \/ Unbound(th)
  BY <1>1
<1>2. CASE Waits(th)
  BY <1>2, WaitsMove DEF KeepsReleasing, Draining, At
<1>3. CASE TakesOne(th)
  <2>1. PICK t \in Ids, c \in Call : Takes(th, t, c)
    BY <1>3 DEF TakesOne
  <2>2. call'[th] = c
    BY <2>1, Arrival DEF Takes
  <2> QED
    BY <2>1, <2>2, Departure DEF Takes, KeepsReleasing, Draining, At
<1>4. CASE GivesBack(th)
  BY <1>4, GivesBackMove DEF KeepsReleasing, Draining, At
<1>5. CASE Drops(th)
  BY <1>5, DropsMove DEF KeepsReleasing, Draining, At
<1>6. CASE Submits(th) \/ Refuses(th) \/ SubmitQueues(th) \/ SubmitFails(th)
  BY <1>6, SubmitMove DEF KeepsReleasing, Draining, At
<1>7. CASE Binds(th) \/ Fetches(th) \/ FetchRollback(th)
  BY <1>7, UserMove DEF KeepsReleasing, Draining, At
<1>8. CASE StopDrainEnds(th) \/ Stop(th) \/ StopUnbind(th)
  BY <1>8, StopMove DEF KeepsReleasing, Draining, At
<1> QED
  BY <1>1, <1>2, <1>3, <1>4, <1>5, <1>6, <1>7, <1>8 DEF Step

\* Who will answer for the pending requests of device d, and for the requests
\* of d that file f has fetched.
AnswersFor(d) ==
    \/ BoundDevice(d)
    \/ \E x \in Threads : Draining(x) /\ call[x].device = d
    \/ StopDraining

AnswersForFetched(d, f) ==
    \/ [device |-> d, owner |-> f] \in bindings
    \/ \E x \in Threads : Draining(x) /\ call[x].device = d /\ call[x].file = f
    \/ StopDraining

\* An answer is lost only at the end of a drain loop and when stop unbinds.
LEMMA AnswersKept ==
    ASSUME Inv, NEW th \in Threads, Step(th), NEW d, NEW f,
           ~(th = Remover /\ (StopDrainEnds(th) \/ StopUnbind(th)))
    PROVE  /\ AnswersFor(d) /\ ~(DrainEnds(th) /\ call[th].device = d)
                 => AnswersFor(d)'
           /\ (/\ AnswersForFetched(d, f)
               /\ ~(/\ DrainEnds(th) /\ call[th].device = d /\ call[th].file = f))
                 => AnswersForFetched(d, f)'
<1>1. StopDraining => StopDraining'
  BY RemoverMove
<1>2. \A x \in Threads :
         \/ Draining(x) => /\ Draining(x)' /\ call'[x].device = call[x].device
                           /\ call'[x].file = call[x].file
         \/ x = th /\ DrainEnds(th)
  <2>1. Releases(th) \/ Unbound(th) => ~Draining(th)
    BY ReleaseMove, UserMove DEF Draining
  <2> QED
    BY <2>1, ReleasingStep DEF KeepsReleasing
<1>3. \A b \in bindings :
         \/ b \in bindings'
         \/ Draining(th)' /\ call'[th].device = b.device /\ call'[th].file = b.owner
  <2>1. CASE Binds(th)
    BY <2>1 DEF Binds, Register
  <2>2. CASE Releases(th)
    BY <2>2, ReleaseMove DEF Draining
  <2> QED
    BY <2>1, <2>2, BindingsStep
<1>4. ASSUME AnswersFor(d), ~(DrainEnds(th) /\ call[th].device = d)
      PROVE  AnswersFor(d)'
  <2>1. CASE BoundDevice(d)
    BY <1>3, <2>1 DEF BoundDevice, AnswersFor
  <2> QED
    BY <1>1, <1>2, <1>4, <2>1 DEF AnswersFor
<1>5. ASSUME AnswersForFetched(d, f),
             ~(DrainEnds(th) /\ call[th].device = d /\ call[th].file = f)
      PROVE  AnswersForFetched(d, f)'
  <2>1. PICK b : b = [device |-> d, owner |-> f]
    OBVIOUS
  <2>2. b.device = d /\ b.owner = f
    BY <2>1
  <2>3. CASE b \in bindings
    BY <1>3, <2>1, <2>2, <2>3 DEF AnswersForFetched
  <2> QED
    BY <1>1, <1>2, <1>5, <2>1, <2>3 DEF AnswersForFetched
<1> QED
  BY <1>4, <1>5

\* A request of a device without a backend is one a drain loop has still to
\* find: the loop of release_owner, which has removed the binding, or that of
\* stop.  A fetch and a rollback move a request only between lists that the
\* same loops search.
LEMMA StrandedStep ==
    ASSUME Inv, Inv', StopInv, NoStranded, NEW th \in Threads, Step(th)
    PROVE  NoStranded'
<1>1. /\ \A t \in Range(pending) : AnswersFor(xfer[t].device)
      /\ \A t \in Range(active) : AnswersForFetched(xfer[t].device, owner[t])
  BY DEF NoStranded, AnswersFor, AnswersForFetched
<1>2. SUFFICES
        /\ \A t \in Range(pending') : \A d : d = xfer'[t].device => AnswersFor(d)'
        /\ \A t \in Range(active') : \A d, f :
              d = xfer'[t].device /\ f = owner'[t] => AnswersForFetched(d, f)'
  BY DEF NoStranded, AnswersFor, AnswersForFetched, BoundDevice
<1>3. CASE th = Remover /\ (StopDrainEnds(th) \/ StopUnbind(th))
  <2>1. pending = <<>> /\ active = <<>>
    BY <1>3 DEF StopDrainEnds, StopInv, StopQuiescent, StopUnbind
  <2>2. pending' = <<>> /\ active' = <<>>
    BY <1>3, <2>1 DEF StopDrainEnds, StopUnbind, queueVars
  <2> QED
    BY <2>2 DEF Range
<1>4. CASE ~(th = Remover /\ (StopDrainEnds(th) \/ StopUnbind(th)))
  <2>1. ASSUME NEW t \in Range(pending), t \in Queued', NEW d, d = xfer'[t].device
        PROVE  AnswersFor(d)'
    <3>1. xfer[t].device = d
      BY <2>1, QueuedKept DEF Queued
    <3>2. ~(DrainEnds(th) /\ call[th].device = d)
      BY <3>1, FirstPendingFound DEF DrainEnds, PendingFor
    <3> QED
      BY <1>1, <1>4, <3>1, <3>2, AnswersKept
  <2>2. ASSUME NEW t \in Range(active), t \in Queued', owner'[t] = owner[t],
               NEW d, NEW f, d = xfer'[t].device, f = owner'[t]
        PROVE  AnswersForFetched(d, f)'
    <3>1. xfer[t].device = d /\ owner[t] = f
      BY <2>2, QueuedKept DEF Queued
    <3>2. ~(DrainEnds(th) /\ call[th].device = d /\ call[th].file = f)
      BY <3>1, FirstActiveFound DEF DrainEnds
    <3> QED
      BY <1>1, <1>4, <3>1, <3>2, AnswersKept
  <2>3. CASE ListsShrink
    BY <2>1, <2>2, <2>3 DEF ListsShrink, Queued
  <2>4. CASE SubmitQueues(th)
    <3>1. PICK t \in Ids : t = call[th].req
      BY <2>4, RequestDrawn DEF SubmitQueues, At, Carrying
    <3>2. /\ pending' = Append(pending, t) /\ active' = active /\ bindings' = bindings
          /\ xfer' = xfer /\ owner' = owner /\ BoundDevice(xfer[t].device)
      BY <2>4, <3>1 DEF SubmitQueues, xferVars, Accepts
    <3>3. Range(pending') = Range(pending) \cup {t}
      BY <3>2, AppendFacts DEF Inv, TypeOK
    <3>4. \A d : d = xfer'[t].device => AnswersFor(d)'
      BY <3>2 DEF AnswersFor, BoundDevice
    <3> QED
      BY <2>1, <2>2, <3>2, <3>3, <3>4 DEF Queued
  <2>5. CASE Fetches(th)
    <3>1. PICK b \in bindings, t \in Ids :
              /\ b.device = xfer[t].device
              /\ t \in Range(pending)
              /\ Range(pending') = Range(pending) \ {t}
              /\ Range(active') = Range(active) \cup {t}
              /\ owner'[t] = b.owner
              /\ \A r \in Ids : r # t => owner'[r] = owner[r]
              /\ bindings' = bindings /\ xfer' = xfer
      BY <2>5, FetchRoutes
    <3>2. b = [device |-> xfer'[t].device, owner |-> owner'[t]]
      <4>1. b \in [device : Devices, owner : Files]
        BY DEF Inv, TypeOK
      <4> QED
        BY <3>1, <4>1
    <3>3. \A d, f : d = xfer'[t].device /\ f = owner'[t] => AnswersForFetched(d, f)'
      BY <3>1, <3>2 DEF AnswersForFetched
    <3>4. Range(active) \subseteq Ids /\ t \notin Range(active)
      BY <3>1, ListIds DEF Inv, Lists
    <3> QED
      BY <2>1, <2>2, <3>1, <3>3, <3>4 DEF Queued
  <2>6. CASE FetchRollback(th)
    <3>1. CASE UNCHANGED <<pending, active, owner>>
      BY <2>1, <2>2, <3>1 DEF Queued
    <3>2. CASE ~UNCHANGED <<pending, active, owner>>
      <4>1. PICK t \in Ids : t = call[th].req
        BY <2>6, RequestDrawn DEF FetchRollback, At, Carrying
      <4>2. PICK i \in DOMAIN active :
               /\ active[i] = t /\ active' = Without(active, i)
               /\ owner' = [owner EXCEPT ![t] = NoFile]
               /\ pending' = ToHead(t)
        BY <2>6, <3>2, <4>1 DEF FetchRollback, FindId
      <4>3. /\ active \in Seq(Ids) /\ IsInjective(active) /\ pending \in Seq(Ids)
            /\ owner \in [Ids -> Files \cup {NoFile}]
        BY DEF Inv, TypeOK, Lists, IsInjective
      <4>4. Range(active') = Range(active) \ {t}
        BY <4>2, <4>3, WithoutFacts
      <4>5. Range(pending') = Range(pending) \cup {t}
        BY <4>2, <4>3, PrependFacts DEF ToHead
      <4>6. t \in Range(active)
        BY <4>2 DEF Range
      <4>7. PICK d : d = xfer[t].device /\ xfer'[t].device = d
        BY <2>6 DEF FetchRollback
      <4>8. AnswersFor(d)
        <5>1. AnswersForFetched(d, owner[t])
          BY <1>1, <4>6, <4>7
        <5>2. PICK b : b = [device |-> d, owner |-> owner[t]]
          OBVIOUS
        <5>3. b.device = d
          BY <5>2
        <5> QED
          BY <5>1, <5>2, <5>3 DEF AnswersForFetched, AnswersFor, BoundDevice
      <4>9. ~DrainEnds(th)
        BY <2>6 DEF FetchRollback, DrainEnds, At
      <4>10. AnswersFor(d)'
        BY <1>4, <4>8, <4>9, AnswersKept
      <4>11. \A r \in Range(active') : owner'[r] = owner[r]
        BY <4>2, <4>3, <4>4, ListIds
      <4> QED
        BY <2>1, <2>2, <4>4, <4>5, <4>7, <4>10, <4>11 DEF Queued
    <3> QED
      BY <3>1, <3>2
  <2> QED
    BY <2>3, <2>4, <2>5, <2>6, ListsStep
<1> QED
  BY <1>3, <1>4

-----------------------------------------------------------------------------
(* Wake-ups.                                                               *)

\* Only its own wake-up takes a thread away from there.
LEMMA WakersStay ==
    ASSUME Inv, NEW th \in Threads, Step(th), NEW x \in Threads, At(x, "wake")
    PROVE  At(x, "wake")' \/ (x = th /\ Wake(th))
<1>1. CASE x # th
  BY <1>1, OthersStay DEF At
<1>2. CASE x = th /\ Waits(th)
  BY <1>2 DEF Waits, FetchReturns, FetchWaits, InFetch, WaitPrepare, WaitCondition,
     WaitWoken, WaitInterrupted, At
<1>3. CASE x = th /\ TakesOne(th)
  BY <1>3 DEF TakesOne, Takes, At
<1>4. CASE x = th /\ (DrainEnds(th) \/ GivesBack(th) \/ Drops(th))
  BY <1>4, UserMove, GivesBackMove, DropsMove DEF At
<1>5. CASE x = th /\ (Submits(th) \/ Refuses(th) \/ SubmitQueues(th) \/ SubmitFails(th))
  BY <1>5, SubmitMove DEF At
<1>6. CASE x = th /\ (Binds(th) \/ Fetches(th) \/ FetchRollback(th) \/ Unbound(th))
  BY <1>6, UserMove DEF At
<1>7. CASE x = th /\ (Releases(th) \/ StopDrainEnds(th) \/ Stop(th) \/ StopUnbind(th))
  BY <1>7, ReleaseMove, StopMove DEF At
<1> QED
  BY <1>1, <1>2, <1>3, <1>4, <1>5, <1>6, <1>7 DEF Step

Sleeps(x) == At(x, "sleep") /\ x \in waitq

\* A thread goes to sleep only if the condition of its wait does not hold.
LEMMA SleepersStep ==
    ASSUME Inv, NEW th \in Threads, Step(th), NEW x \in Threads, Sleeps(x)'
    PROVE  /\ call'[x].file = call[x].file
           /\ \/ Sleeps(x)
              \/ /\ x = th /\ WaitCondition(th)
                 /\ ~PendingForOwnerOrStopping(call[th].file)
<1>1. waitq' \subseteq waitq \cup {th}
  BY DEF Step, Waits, Wake, FetchReturns, FetchWaits, WaitPrepare, WaitCondition,
     WaitWoken, WaitInterrupted, TakesOne, Takes, DrainEnds, GivesBack, Giveback,
     CompleteGivesBack, GiveUrbBack, Drops, ReleaseRequest, PutCreatorRef,
     FetchCopies, Submits, Enqueue, Refuses, EnqueueFails, SubmitQueues,
     SubmitFails, Binds, Register, Fetches, FetchTakes, FetchRollback, Releases,
     Unregister, Unbound, StopDrainEnds, Stop, StopUnbind
<1>2. CASE x # th
  BY <1>1, <1>2, OthersStay DEF Sleeps, At
<1>3. CASE x = th
  <2>1. call'[th].pc = "sleep"
    BY <1>3 DEF Sleeps, At
  <2>2. ~TakesOne(th)
    <3>1. ASSUME NEW t \in Ids, NEW c \in Call, Takes(th, t, c) PROVE FALSE
      BY <2>1, <3>1, Arrival DEF Takes
    <3> QED
      BY <3>1 DEF TakesOne
  <2>3. /\ ~DrainEnds(th) /\ ~GivesBack(th) /\ ~Drops(th) /\ ~Submits(th)
        /\ ~Refuses(th) /\ ~SubmitQueues(th) /\ ~SubmitFails(th) /\ ~Binds(th)
        /\ ~Fetches(th) /\ ~FetchRollback(th) /\ ~Unbound(th) /\ ~Releases(th)
        /\ ~StopDrainEnds(th) /\ ~Stop(th) /\ ~StopUnbind(th)
    BY <2>1, UserMove, GivesBackMove, DropsMove, SubmitMove, ReleaseMove, StopMove
  <2>4. Waits(th)
    BY <2>2, <2>3 DEF Step
  <2>5. ~Wake(th) /\ ~FetchReturns(th) /\ ~WaitInterrupted(th)
    <3>1. Idle.pc = "idle"
      BY DEF Idle
    <3>2. ~FetchReturns(th) /\ ~WaitInterrupted(th)
      BY <2>1, <3>1, Arrival DEF FetchReturns, WaitInterrupted, Return
    <3>3. ~Wake(th)
      BY <1>3 DEF Wake, Sleeps
    <3> QED
      BY <3>2, <3>3
  <2>6. ASSUME NEW p, Goto(th, p)
        PROVE  call'[th].pc = p /\ call'[th].file = call[th].file
    <3> DEFINE c == [call[th] EXCEPT !.pc = p]
    <3>1. call'[th] = c
      BY <2>6, Arrival DEF Goto
    <3>2. c.pc = p /\ c.file = call[th].file
      BY Departure DEF Call
    <3> HIDE DEF c
    <3> QED
      BY <3>1, <3>2
  <2>7. \A f \in Files : ~FetchWaits(th, f)
    <3>1. ASSUME NEW f \in Files, FetchWaits(th, f) PROVE FALSE
      <4> DEFINE c == [call[th] EXCEPT !.pc = "prepare", !.file = f]
      <4>1. call'[th] = c
        BY <3>1, Arrival DEF FetchWaits
      <4>2. c.pc = "prepare"
        BY Departure DEF Call
      <4> HIDE DEF c
      <4> QED
        BY <2>1, <4>1, <4>2
    <3> QED
      BY <3>1
  <2>8. ~WaitPrepare(th) /\ ~WaitWoken(th)
    BY <2>1, <2>6 DEF WaitPrepare, WaitWoken
  <2>9. WaitCondition(th)
    BY <2>4, <2>5, <2>7, <2>8 DEF Waits
  <2> QED
    BY <1>3, <2>1, <2>6, <2>9 DEF WaitCondition
<1> QED
  BY <1>2, <1>3

\* Who makes the condition of a wait true is at its wake-up then.
LEMMA ConditionStep ==
    ASSUME Inv, Inv', NEW th \in Threads, Step(th), NEW f,
           PendingForOwnerOrStopping(f)'
    PROVE  PendingForOwnerOrStopping(f) \/ At(th, "wake")'
<1>1. CASE stopping'
  BY <1>1, StoppingStep, StopMove DEF PendingForOwnerOrStopping, At
<1>2. CASE ~stopping'
  <2>1. PICK b \in bindings' : b.owner = f /\ (FirstPending(b.device) # {})'
    BY <1>2 DEF PendingForOwnerOrStopping
  <2>2. PICK t \in Range(pending') : xfer'[t].device = b.device
    BY <2>1 DEF FirstPending, Range
  <2>3. b \in bindings \/ At(th, "wake")'
    <3>1. Binds(th) => At(th, "wake")'
      BY UserMove DEF At
    <3> QED
      BY <3>1, BindingsStep DEF Releases, Unregister, StopUnbind
  <2>4. t \in Range(pending) \/ At(th, "wake")'
    <3>1. SubmitQueues(th) => At(th, "wake")'
      BY SubmitMove DEF At
    <3>2. FetchRollback(th) => pending' = pending \/ At(th, "wake")'
      BY UserMove DEF At
    <3>3. Fetches(th) => Range(pending') \subseteq Range(pending)
      BY FetchRoutes
    <3> QED
      BY <3>1, <3>2, <3>3, ListsStep DEF ListsShrink
  <2>5. t \in Range(pending) => xfer[t].device = b.device
    BY <2>2, QueuedKept DEF Queued
  <2>6. t \in Range(pending) => FirstPending(b.device) # {}
    BY <2>5, FirstPendingFound DEF PendingFor
  <2> QED
    BY <2>1, <2>3, <2>4, <2>6 DEF PendingForOwnerOrStopping
<1> QED
  BY <1>1, <1>2

\* No wake-up is lost: a wake-up empties the wait queue, and a thread that
\* queues itself looks at the condition before it sleeps.
LEMMA WakeupStep ==
    ASSUME Inv, Inv', NoLostWakeup, NEW th \in Threads, Step(th)
    PROVE  NoLostWakeup'
<1> SUFFICES ASSUME NEW x \in UserThreads, Sleeps(x)',
                    PendingForOwnerOrStopping(call[x].file)'
             PROVE  \E w \in Threads : At(w, "wake")'
  BY DEF NoLostWakeup, Sleeps
<1>1. x \in Threads
  BY DEF Threads
<1>2. PICK f : f = call[x].file
  OBVIOUS
<1>3. call'[x].file = f
  BY <1>1, <1>2, SleepersStep
<1>4. PendingForOwnerOrStopping(f)'
  BY <1>3 DEF PendingForOwnerOrStopping
<1>5. PendingForOwnerOrStopping(f) \/ At(th, "wake")'
  BY <1>4, ConditionStep
<1>6. CASE PendingForOwnerOrStopping(f) /\ Sleeps(x)
  <2>1. PICK w \in Threads : At(w, "wake")
    BY <1>2, <1>6 DEF NoLostWakeup, Sleeps
  <2>2. ~Wake(th)
    BY DEF Wake, Sleeps
  <2> QED
    BY <2>1, <2>2, WakersStay
<1>7. CASE x = th /\ WaitCondition(th) /\ ~PendingForOwnerOrStopping(f)
  BY <1>5, <1>7
<1> QED
  BY <1>1, <1>2, <1>5, <1>6, <1>7, SleepersStep

-----------------------------------------------------------------------------
(* References on devices.                                                  *)

BoundTo(d) == {b \in bindings : b.device = d}

ReleasingOf(d) ==
    {x \in Threads : call[x].device = d /\ (Draining(x) \/ At(x, "unbound"))}

LiveOf(d) == {t \in Ids : refcount[t] > 0 /\ xfer[t].device = d}

\* DeviceRefsExact, with the sets it counts finite.
DeviceInv ==
    \A d \in Devices :
        /\ IsFiniteSet(BoundTo(d)) /\ IsFiniteSet(ReleasingOf(d))
        /\ dev_refs[d] = Cardinality(BoundTo(d)) + Cardinality(ReleasingOf(d))
                            + Cardinality(LiveOf(d))

\* One more, and one less.
LEMMA OneMore ==
    ASSUME NEW S, IsFiniteSet(S), NEW x, x \notin S, NEW T, T = S \cup {x}
    PROVE  /\ IsFiniteSet(T) /\ Cardinality(T) = Cardinality(S) + 1
           /\ Cardinality(S) \in Nat
  BY FS_AddElement, FS_CardinalityType

\* The counterpart for a set that loses an element.
LEMMA OneLess ==
    ASSUME NEW S, IsFiniteSet(S), NEW x \in S, NEW T, T = S \ {x}
    PROVE  /\ IsFiniteSet(T) /\ Cardinality(T) = Cardinality(S) - 1
           /\ Cardinality(S) \in Nat
  BY FS_RemoveElement, FS_CardinalityType

\* There are finitely many transfers.
LEMMA LiveFinite ==
    ASSUME NEW d
    PROVE  IsFiniteSet(LiveOf(d))
<1>1. IsFiniteSet(Ids)
  <2>1. 1 \in Int /\ MaxTransfers \in Int
    BY BoundAssumption
  <2> QED
    BY <2>1, FS_Interval DEF Ids
<1>2. LiveOf(d) \in SUBSET Ids
  BY DEF LiveOf
<1> QED
  BY <1>1, <1>2, FS_Subset

\* Only the begin and the end of a release_owner change who is in one.
LEMMA ReleasingSet ==
    ASSUME Inv, NEW th \in Threads, Step(th), ~Releases(th), ~Unbound(th), NEW d
    PROVE  ReleasingOf(d)' = ReleasingOf(d)
<1>1. ASSUME NEW x \in Threads
      PROVE  (call[x].device = d /\ (Draining(x) \/ At(x, "unbound")))'
                <=> call[x].device = d /\ (Draining(x) \/ At(x, "unbound"))
  <2>1. CASE KeepsReleasing(x)
    BY <2>1 DEF KeepsReleasing
  <2>2. CASE x = th /\ DrainEnds(th)
    BY <2>2, UserMove DEF Draining, At
  <2> QED
    BY <2>1, <2>2, ReleasingStep
<1> QED
  BY <1>1 DEF ReleasingOf

\* A transfer drops out only with its last reference.
LEMMA LiveSet ==
    ASSUME Inv, NEW th \in Threads, Step(th), NEW d,
           \A t \in Ids : refcount'[t] > 0 <=> refcount[t] > 0
    PROVE  LiveOf(d)' = LiveOf(d)
<1>1. \A t \in Ids : refcount[t] > 0 /\ refcount'[t] > 0 =>
                        xfer'[t].device = xfer[t].device
  BY TransfersKept
<1> QED
  BY <1>1 DEF LiveOf

\* The last reference on transfer r goes, and with it that on its device.
Frees(r) ==
    /\ refcount[r] > 0
    /\ \A t \in Ids : refcount'[t] > 0 <=> refcount[t] > 0 /\ t # r
    /\ \A d \in Devices : dev_refs'[d] = IF d = xfer[r].device THEN dev_refs[d] - 1
                                                               ELSE dev_refs[d]

\* A put drops a reference there is, and either frees the transfer or not.
LEMMA DropsStep ==
    ASSUME Inv, NEW th \in Threads, Drops(th)
    PROVE  \/ \E r \in Ids : Frees(r)
           \/ /\ \A t \in Ids : refcount'[t] > 0 <=> refcount[t] > 0
              /\ dev_refs' = dev_refs
<1>1. PICK r \in Ids : /\ r = call[th].req /\ Put(r)
                       /\ call[th].pc \in {"free", "put", "copy"}
  BY RequestDrawn DEF Drops, ReleaseRequest, PutCreatorRef, FetchCopies, At, Carrying
<1>2. refcount[r] > 0
  <2> DEFINE A == \E x \in Threads : Creator(x, r)
             B == r \in Queued \/ \E x \in Threads : OwnsRequest(x, r)
             R == \E x \in Threads : Reader(x, r)
  <2>1. refcount[r] = One(A) + One(B) + One(R)
    BY DEF Inv, RefcountExact
  <2>2. A \/ B \/ R
    BY <1>1 DEF Creator, OwnsRequest, Reader, At
  <2> HIDE DEF A, B, R
  <2> QED
    BY <2>1, <2>2 DEF One
<1>3. /\ refcount \in [Ids -> Int] /\ refcount' = [refcount EXCEPT ![r] = @ - 1]
      /\ dev_refs \in [Devices -> Int]
  BY <1>1 DEF Put, Inv, TypeOK
<1>4. CASE refcount[r] = 1
  <2>1. dev_refs' = [dev_refs EXCEPT ![xfer[r].device] = @ - 1]
    BY <1>1, <1>4 DEF Put
  <2>2. \A d \in Devices : dev_refs'[d] = IF d = xfer[r].device THEN dev_refs[d] - 1
                                                               ELSE dev_refs[d]
    BY <1>3, <2>1
  <2>3. \A t \in Ids : refcount'[t] > 0 <=> refcount[t] > 0 /\ t # r
    BY <1>3, <1>4
  <2> QED
    BY <1>2, <2>2, <2>3 DEF Frees
<1>5. CASE refcount[r] # 1
  <2>1. \A t \in Ids : refcount'[t] > 0 <=> refcount[t] > 0
    BY <1>2, <1>3, <1>5
  <2> QED
    BY <1>1, <1>5, <2>1 DEF Put
<1> QED
  BY <1>4, <1>5

\* A submission that fails frees the transfer it has created.
LEMMA SubmitFailsFrees ==
    ASSUME Inv, NEW th \in Threads, SubmitFails(th)
    PROVE  \E r \in Ids : Frees(r)
<1>1. PICK r \in Ids : r = call[th].req /\ At(th, "submit")
  BY RequestDrawn DEF SubmitFails, At, Carrying
<1>2. /\ refcount' = [refcount EXCEPT ![r] = @ - 2]
      /\ dev_refs' = [dev_refs EXCEPT ![xfer[r].device] = @ - 1]
  BY <1>1 DEF SubmitFails
<1>3. /\ Creator(th, r) /\ OwnsRequest(th, r)
      /\ \A x \in Threads : ~Reader(x, r)
  BY <1>1 DEF Creator, OwnsRequest, Holds, At, Inv, Fetchers, Fetching, Reader
<1>4. refcount[r] = 2
  BY <1>3, Referenced
<1>5. refcount \in [Ids -> Int] /\ dev_refs \in [Devices -> Int]
  BY DEF Inv, TypeOK
<1>6. \A t \in Ids : refcount'[t] > 0 <=> refcount[t] > 0 /\ t # r
  BY <1>2, <1>4, <1>5
<1>7. \A d \in Devices : dev_refs'[d] = IF d = xfer[r].device THEN dev_refs[d] - 1
                                                             ELSE dev_refs[d]
  BY <1>2, <1>5
<1> QED
  BY <1>4, <1>6, <1>7 DEF Frees

\* A reference moves with what it is for: bindings, releases and transfers.
LEMMA DeviceRefsStep ==
    ASSUME Inv, DeviceInv, NEW th \in Threads, Step(th)
    PROVE  DeviceInv'
<1> SUFFICES ASSUME NEW d \in Devices
             PROVE  /\ IsFiniteSet(BoundTo(d)') /\ IsFiniteSet(ReleasingOf(d)')
                    /\ dev_refs'[d] = Cardinality(BoundTo(d)')
                          + Cardinality(ReleasingOf(d)') + Cardinality(LiveOf(d)')
  BY DEF DeviceInv
<1>1. PICK B, R, L : B = BoundTo(d) /\ R = ReleasingOf(d) /\ L = LiveOf(d)
  OBVIOUS
<1>2. PICK B1, R1, L1 : B1 = BoundTo(d)' /\ R1 = ReleasingOf(d)' /\ L1 = LiveOf(d)'
  OBVIOUS
<1>3. /\ IsFiniteSet(B) /\ IsFiniteSet(R) /\ IsFiniteSet(L)
      /\ dev_refs[d] = Cardinality(B) + Cardinality(R) + Cardinality(L)
  BY <1>1, LiveFinite DEF DeviceInv
<1>4. Cardinality(B) \in Nat /\ Cardinality(R) \in Nat /\ Cardinality(L) \in Nat
  BY <1>3, FS_CardinalityType
<1>5. SUFFICES /\ IsFiniteSet(B1) /\ IsFiniteSet(R1)
               /\ dev_refs'[d] = Cardinality(B1) + Cardinality(R1) + Cardinality(L1)
  BY <1>2
<1>6. dev_refs \in [Devices -> Int]
  BY DEF Inv, TypeOK
<1>7. CASE Binds(th)
  <2>1. PICK f \in Files, e \in Devices : Register(th, f, e)
    BY <1>7 DEF Binds
  <2>2. R1 = R
    BY <1>1, <1>2, <1>7, ReleasingSet, UserMove, ReleaseMove
  <2>3. L1 = L
    BY <1>1, <1>2, <2>1 DEF LiveOf, Register
  <2> DEFINE b == [device |-> e, owner |-> f]
  <2>4. bindings' = bindings \cup {b} /\ b.device = e
    BY <2>1 DEF Register
  <2>5. dev_refs' = [dev_refs EXCEPT ![e] = @ + 1] /\ \A c \in bindings : c.device # e
    BY <2>1 DEF Register, Free, BoundDevice
  <2> HIDE DEF b
  <2>6. CASE e = d
    <3>1. B1 = B \cup {b} /\ b \notin B
      BY <1>1, <1>2, <2>4, <2>5, <2>6 DEF BoundTo
    <3>2. dev_refs'[d] = dev_refs[d] + 1
      BY <1>6, <2>5, <2>6
    <3>3. IsFiniteSet(B1) /\ Cardinality(B1) = Cardinality(B) + 1
      BY <1>3, <3>1, OneMore
    <3> QED
      BY <1>3, <1>4, <2>2, <2>3, <3>2, <3>3
  <2>7. CASE e # d
    <3>1. B1 = B
      BY <1>1, <1>2, <2>4, <2>7 DEF BoundTo
    <3>2. dev_refs'[d] = dev_refs[d]
      BY <1>6, <2>5, <2>7
    <3> QED
      BY <1>3, <2>2, <2>3, <3>1, <3>2
  <2> QED
    BY <2>6, <2>7
<1>8. CASE Releases(th)
  <2>1. PICK b \in bindings :
           /\ bindings' = bindings \ {b}
           /\ call[th].pc = "idle" /\ call[th].ret = "idle"
           /\ call'[th].pc = "drain" /\ call'[th].device = b.device
           /\ UNCHANGED xferVars
    BY <1>8, ReleaseMove
  <2>2. L1 = L /\ dev_refs' = dev_refs
    BY <1>1, <1>2, <2>1 DEF LiveOf, xferVars
  <2>3. \A x \in Threads : x # th => call'[x] = call[x]
    BY OthersStay
  <2>4. th \notin R
    BY <1>1, <2>1 DEF ReleasingOf, Draining, At
  <2>5. CASE b.device = d
    <3>1. B1 = B \ {b} /\ b \in B
      BY <1>1, <1>2, <2>1, <2>5 DEF BoundTo
    <3>2. R1 = R \cup {th}
      BY <1>1, <1>2, <2>1, <2>3, <2>5 DEF ReleasingOf, Draining, At
    <3>3. IsFiniteSet(B1) /\ Cardinality(B1) = Cardinality(B) - 1
      BY <1>3, <3>1, OneLess
    <3>4. IsFiniteSet(R1) /\ Cardinality(R1) = Cardinality(R) + 1
      BY <1>3, <2>4, <3>2, OneMore
    <3> QED
      BY <1>3, <1>4, <2>2, <3>3, <3>4
  <2>6. CASE b.device # d
    <3>1. B1 = B
      BY <1>1, <1>2, <2>1, <2>6 DEF BoundTo
    <3>2. R1 = R
      BY <1>1, <1>2, <2>1, <2>3, <2>4, <2>6 DEF ReleasingOf, Draining, At
    <3> QED
      BY <1>3, <2>2, <3>1, <3>2
  <2> QED
    BY <2>5, <2>6
<1>9. CASE Unbound(th)
  <2>1. B1 = B /\ L1 = L
    BY <1>1, <1>2, <1>9 DEF Unbound, queueVars, BoundTo, LiveOf
  <2>2. PICK e : e = call[th].device
    OBVIOUS
  <2>3. dev_refs' = [dev_refs EXCEPT ![e] = @ - 1]
    BY <1>9, <2>2 DEF Unbound
  <2>4. \A x \in Threads : x # th => call'[x] = call[x]
    BY OthersStay
  <2>5. call[th].pc = "unbound" /\ call'[th].pc = "wake" /\ call'[th].ret = "idle"
    BY <1>9, UserMove
  <2>6. R1 = R \ {th} /\ (th \in R <=> e = d)
    BY <1>1, <1>2, <2>2, <2>4, <2>5 DEF ReleasingOf, Draining, At
  <2>7. CASE e = d
    <3>1. dev_refs'[d] = dev_refs[d] - 1
      BY <1>6, <2>3, <2>7
    <3>2. IsFiniteSet(R1) /\ Cardinality(R1) = Cardinality(R) - 1
      BY <1>3, <2>6, <2>7, OneLess
    <3> QED
      BY <1>3, <1>4, <2>1, <3>1, <3>2
  <2>8. CASE e # d
    <3>1. dev_refs'[d] = dev_refs[d] /\ R1 = R
      BY <1>6, <2>3, <2>6, <2>8
    <3> QED
      BY <1>3, <2>1, <3>1
  <2> QED
    BY <2>7, <2>8
<1>10. CASE th = Remover /\ StopUnbind(th)
  <2>1. R1 = R
    BY <1>1, <1>2, <1>10, ReleasingSet, StopMove, ReleaseMove, UserMove
  <2>2. L1 = L
    BY <1>1, <1>2, <1>10 DEF StopUnbind, LiveOf
  <2>3. CASE bindings' = bindings /\ dev_refs' = dev_refs
    BY <1>1, <1>2, <1>3, <2>1, <2>2, <2>3 DEF BoundTo
  <2>4. ASSUME NEW b \in bindings, bindings' = bindings \ {b},
               dev_refs' = [dev_refs EXCEPT ![b.device] = @ - 1]
        PROVE  /\ IsFiniteSet(B1) /\ IsFiniteSet(R1)
               /\ dev_refs'[d] = Cardinality(B1) + Cardinality(R1) + Cardinality(L1)
    <3>1. CASE b.device = d
      <4>1. B1 = B \ {b} /\ b \in B
        BY <1>1, <1>2, <2>4, <3>1 DEF BoundTo
      <4>2. dev_refs'[d] = dev_refs[d] - 1
        BY <1>6, <2>4, <3>1
      <4>3. IsFiniteSet(B1) /\ Cardinality(B1) = Cardinality(B) - 1
        BY <1>3, <4>1, OneLess
      <4> QED
        BY <1>3, <1>4, <2>1, <2>2, <4>2, <4>3
    <3>2. CASE b.device # d
      <4>1. B1 = B
        BY <1>1, <1>2, <2>4, <3>2 DEF BoundTo
      <4>2. dev_refs'[d] = dev_refs[d]
        BY <1>6, <2>4, <3>2
      <4> QED
        BY <1>3, <2>1, <2>2, <4>1, <4>2
    <3> QED
      BY <3>1, <3>2
  <2> QED
    BY <1>10, <2>3, <2>4 DEF StopUnbind
<1>11. CASE Submits(th)
  <2>1. PICK u \in Urbs, e \in Devices : Enqueue(th, u, e)
    BY <1>11 DEF Submits
  <2>2. PICK n \in Ids : n = next_id + 1 /\ next_id \in Nat
    BY <2>1, BoundAssumption DEF Enqueue, Ids, Inv, TypeOK
  <2>3. R1 = R
    BY <1>1, <1>2, <1>11, ReleasingSet, SubmitMove, ReleaseMove, UserMove
  <2>4. B1 = B
    BY <1>1, <1>2, <2>1 DEF Enqueue, queueVars, BoundTo
  <2>5. xfer' = [xfer EXCEPT ![n] = NewTransfer(u, e)]
    BY <2>1, <2>2 DEF Enqueue
  <2>6. refcount' = [refcount EXCEPT ![n] = 2] /\ dev_refs' = [dev_refs EXCEPT ![e] = @ + 1]
    BY <2>1, <2>2 DEF Enqueue
  <2>7. refcount \in [Ids -> Int] /\ xfer \in [Ids -> Transfer]
    BY DEF Inv, TypeOK
  <2>8. NewTransfer(u, e).device = e
    BY DEF NewTransfer
  <2>9. refcount[n] = 0
    <3>1. n > next_id
      BY <2>2
    <3>2. /\ ~(\E x \in Threads : Creator(x, n))
          /\ ~(n \in Queued \/ \E x \in Threads : OwnsRequest(x, n))
          /\ ~(\E x \in Threads : Reader(x, n))
      BY <3>1, UnknownId
    <3> QED
      BY <3>2 DEF Inv, RefcountExact, One
  <2>10. L1 = L \cup (IF e = d THEN {n} ELSE {}) /\ n \notin L
    BY <1>1, <1>2, <2>5, <2>6, <2>7, <2>8, <2>9 DEF LiveOf
  <2>11. CASE e = d
    <3>1. dev_refs'[d] = dev_refs[d] + 1
      BY <1>6, <2>6, <2>11
    <3>2. Cardinality(L1) = Cardinality(L) + 1
      BY <1>3, <2>10, <2>11, OneMore
    <3> QED
      BY <1>3, <1>4, <2>3, <2>4, <3>1, <3>2
  <2>12. CASE e # d
    <3>1. dev_refs'[d] = dev_refs[d] /\ L1 = L
      BY <1>6, <2>6, <2>10, <2>12
    <3> QED
      BY <1>3, <2>3, <2>4, <3>1
  <2> QED
    BY <2>11, <2>12
<1>12. ASSUME NEW r \in Ids, Frees(r), bindings' = bindings,
              ~Releases(th), ~Unbound(th)
       PROVE  /\ IsFiniteSet(B1) /\ IsFiniteSet(R1)
              /\ dev_refs'[d] = Cardinality(B1) + Cardinality(R1) + Cardinality(L1)
  <2>1. B1 = B /\ R1 = R
    BY <1>1, <1>2, <1>12, ReleasingSet DEF BoundTo
  <2>2. \A t \in Ids : refcount[t] > 0 /\ refcount'[t] > 0 =>
                          xfer'[t].device = xfer[t].device
    BY TransfersKept
  <2>3. L1 = L \ {r} /\ (r \in L <=> xfer[r].device = d)
    BY <1>1, <1>2, <1>12, <2>2 DEF Frees, LiveOf
  <2>4. CASE xfer[r].device = d
    <3>1. dev_refs'[d] = dev_refs[d] - 1
      BY <1>12, <2>4 DEF Frees
    <3>2. Cardinality(L1) = Cardinality(L) - 1
      BY <1>3, <2>3, <2>4, OneLess
    <3> QED
      BY <1>3, <1>4, <2>1, <3>1, <3>2
  <2>5. CASE xfer[r].device # d
    <3>1. dev_refs'[d] = dev_refs[d] /\ L1 = L
      BY <1>12, <2>3, <2>5 DEF Frees
    <3> QED
      BY <1>3, <2>1, <3>1
  <2> QED
    BY <2>4, <2>5
<1>13. ASSUME dev_refs' = dev_refs, \A t \in Ids : refcount'[t] > 0 <=> refcount[t] > 0,
              bindings' = bindings, ~Releases(th), ~Unbound(th)
       PROVE  /\ IsFiniteSet(B1) /\ IsFiniteSet(R1)
              /\ dev_refs'[d] = Cardinality(B1) + Cardinality(R1) + Cardinality(L1)
  <2>1. B1 = B /\ R1 = R /\ L1 = L
    BY <1>1, <1>2, <1>13, ReleasingSet, LiveSet DEF BoundTo
  <2> QED
    BY <1>3, <1>13, <2>1
<1>14. CASE Drops(th)
  <2>1. bindings' = bindings
    BY <1>14 DEF Drops, ReleaseRequest, PutCreatorRef, FetchCopies, queueVars
  <2>2. ~Releases(th) /\ ~Unbound(th)
    BY <1>14, DropsMove, ReleaseMove, UserMove
  <2> QED
    BY <1>12, <1>13, <1>14, <2>1, <2>2, DropsStep
<1>15. CASE SubmitFails(th)
  <2>1. bindings' = bindings
    BY <1>15 DEF SubmitFails, queueVars
  <2>2. ~Releases(th) /\ ~Unbound(th)
    BY <1>15, SubmitMove, ReleaseMove, UserMove
  <2> QED
    BY <1>12, <1>15, <2>1, <2>2, SubmitFailsFrees
<1>16. CASE Fetches(th)
  <2>1. bindings' = bindings /\ dev_refs' = dev_refs
    BY <1>16 DEF Fetches, FetchTakes
  <2>2. ~Releases(th) /\ ~Unbound(th)
    BY <1>16, ReleaseMove, UserMove
  <2>3. PICK i \in DOMAIN pending : Get(pending[i])
    BY <1>16 DEF Fetches, FetchTakes, FirstPending
  <2>4. PICK t \in Ids : t = pending[i] /\ t \in Queued
    BY DEF Inv, TypeOK, Queued, Range
  <2>5. refcount[t] > 0
    BY <2>4, Referenced
  <2>6. \A r \in Ids : refcount'[r] > 0 <=> refcount[r] > 0
    BY <2>3, <2>4, <2>5 DEF Get, Inv, TypeOK
  <2> QED
    BY <1>13, <2>1, <2>2, <2>6
<1>17. CASE /\ refcount' = refcount /\ dev_refs' = dev_refs /\ bindings' = bindings
            /\ ~Releases(th) /\ ~Unbound(th)
  BY <1>13, <1>17
<1>18. \/ Binds(th) \/ Releases(th) \/ Unbound(th) \/ (th = Remover /\ StopUnbind(th))
       \/ Submits(th) \/ Drops(th) \/ SubmitFails(th) \/ Fetches(th)
       \/ refcount' = refcount /\ dev_refs' = dev_refs /\ bindings' = bindings
  BY DEF Step, Waits, Wake, FetchReturns, FetchWaits, WaitPrepare, WaitCondition,
     WaitWoken, WaitInterrupted, TakesOne, Takes, DrainEnds, GivesBack, Giveback,
     CompleteGivesBack, GiveUrbBack, Refuses, EnqueueFails, SubmitQueues,
     FetchRollback, StopDrainEnds, Stop, queueVars, xferVars
<1> QED
  BY <1>7, <1>8, <1>9, <1>10, <1>11, <1>14, <1>15, <1>16, <1>17, <1>18

-----------------------------------------------------------------------------
(* The theorems.                                                           *)

QueueInv ==
    /\ Inv
    /\ BindingsUnique
    /\ StopInv
    /\ UrbOfOneTransfer
    /\ LinkedIffQueued
    /\ NoStranded
    /\ NoLostWakeup
    /\ DeviceInv

\* A probed host controller has no binding, no request and no reference.
LEMMA InitQueueInv == Init => QueueInv
<1> SUFFICES ASSUME Init PROVE QueueInv
  OBVIOUS
<1>1. Idle.pc = "idle" /\ Idle.ret = "idle"
  BY DEF Idle
<1>2. \A th \in Threads : call[th].pc = "idle" /\ call[th].ret = "idle"
  BY <1>1 DEF Init
<1>3. Remover \in Threads /\ UserThreads \subseteq Threads
  BY DEF Threads
<1>4. Range(pending) = {} /\ Range(active) = {} /\ Queued = {}
  BY DEF Init, Range, Queued
<1>5. Inv
  BY InitInv
<1>6. BindingsUnique
  BY DEF Init, BindingsUnique
<1>7. StopInv
  BY <1>2, <1>3 DEF Init, StopInv, StopSets, StopQuiescent, StopDraining, At
<1>8. UrbOfOneTransfer
  <2>1. \A t \in Ids : ~(t <= next_id)
    BY DEF Init, Ids
  <2>2. \A u \in Urbs : urb[u] = "host"
    BY DEF Init
  <2> QED
    BY <2>1, <2>2 DEF UrbOfOneTransfer
<1>9. LinkedIffQueued
  BY <1>4 DEF Init, LinkedIffQueued
<1>10. NoStranded
  BY <1>4 DEF NoStranded
<1>11. NoLostWakeup
  BY DEF Init, NoLostWakeup
<1>12. DeviceInv
  <2>1. SUFFICES ASSUME NEW d \in Devices
                 PROVE  /\ BoundTo(d) = {} /\ ReleasingOf(d) = {} /\ LiveOf(d) = {}
                        /\ dev_refs[d] = 0
    BY FS_EmptySet DEF DeviceInv
  <2>2. BoundTo(d) = {} /\ dev_refs[d] = 0
    BY DEF Init, BoundTo
  <2>3. ReleasingOf(d) = {}
    BY <1>2 DEF ReleasingOf, Draining, At
  <2>4. \A t \in Ids : refcount[t] = 0
    BY DEF Init
  <2>5. LiveOf(d) = {}
    BY <2>4 DEF LiveOf
  <2> QED
    BY <2>2, <2>3, <2>5
<1> QED
  BY <1>5, <1>6, <1>7, <1>8, <1>9, <1>10, <1>11, <1>12 DEF QueueInv

\* Every step keeps all of it.
LEMMA NextQueueInv == QueueInv /\ [Next]_vars => QueueInv'
<1> SUFFICES ASSUME QueueInv, [Next]_vars PROVE QueueInv'
  OBVIOUS
<1>1. Inv /\ Inv'
  BY NextInv DEF QueueInv
<1>2. CASE Next
  <2>1. PICK th \in Threads : Step(th)
    BY <1>1, <1>2, Steps
  <2> QED
    BY <1>1, <2>1, BindingsUniqueStep, StopInvStep, UrbStep, LinkedStep,
       StrandedStep, WakeupStep, DeviceRefsStep DEF QueueInv
<1>3. CASE UNCHANGED vars
  <2>1. /\ UNCHANGED <<bindings, pending, active, stopping, waitq, next_id, xfer>>
        /\ UNCHANGED <<refcount, owner, dev_refs, urb, linked, resolved, call>>
    BY <1>3 DEF vars, queueVars, xferVars, usbVars
  <2>2. BindingsUnique' /\ StopInv'
    BY <2>1 DEF QueueInv, BindingsUnique, StopInv, StopSets, StopQuiescent,
       StopDraining, At
  <2>3. UrbOfOneTransfer' /\ LinkedIffQueued'
    BY <2>1 DEF QueueInv, UrbOfOneTransfer, LinkedIffQueued, Queued
  <2>4. NoStranded'
    BY <2>1 DEF QueueInv, NoStranded, BoundDevice, Draining, StopDraining
  <2>5. NoLostWakeup'
    BY <2>1 DEF QueueInv, NoLostWakeup, PendingForOwnerOrStopping, FirstPending, At
  <2>6. DeviceInv'
    BY <2>1 DEF QueueInv, DeviceInv, BoundTo, ReleasingOf, LiveOf, Draining, At
  <2> QED
    BY <1>1, <2>2, <2>3, <2>4, <2>5, <2>6 DEF QueueInv
<1> QED
  BY <1>2, <1>3

\* The invariant of the data plane is inductive.
THEOREM QueueInvariance == Spec => []QueueInv
<1> QED
  BY InitQueueInv, NextQueueInv, PTL DEF Spec

\* virtusb_backend_register never binds a file or a device twice.
THEOREM BindingsUniqueAlways == Spec => []BindingsUnique
<1>1. QueueInv => BindingsUnique
  BY DEF QueueInv
<1> QED
  BY <1>1, QueueInvariance, PTL

\* Once virtusb_backend_stop has emptied the lists they stay empty.
THEOREM StopIsQuiescent == Spec => []StopQuiescent
<1>1. QueueInv => StopQuiescent
  BY DEF QueueInv, StopInv
<1> QED
  BY <1>1, QueueInvariance, PTL

\* The HCD has a URB exactly as long as one transfer for it is unresolved.
THEOREM UrbHasOneTransfer == Spec => []UrbOfOneTransfer
<1>1. QueueInv => UrbOfOneTransfer
  BY DEF QueueInv
<1> QED
  BY <1>1, QueueInvariance, PTL

\* The URBs on the endpoint queues are those of the two lists, so urb_dequeue
\* finds what usb_hcd_check_unlink_urb accepts.
THEOREM EndpointQueuesAgree == Spec => []LinkedIffQueued
<1>1. QueueInv => LinkedIffQueued
  BY DEF QueueInv
<1> QED
  BY <1>1, QueueInvariance, PTL

\* Every request in a list has a backend, or a drain loop that will find it.
THEOREM NoRequestStranded == Spec => []NoStranded
<1>1. QueueInv => NoStranded
  BY DEF QueueInv
<1> QED
  BY <1>1, QueueInvariance, PTL

\* A fetch that sleeps although its condition holds is about to be woken.
THEOREM NoWakeupLost == Spec => []NoLostWakeup
<1>1. QueueInv => NoLostWakeup
  BY DEF QueueInv
<1> QED
  BY <1>1, QueueInvariance, PTL

\* The references on a device object are those of its binding, of a release
\* under way and of its transfers.
THEOREM DeviceRefsCorrect == Spec => []DeviceRefsExact
<1>1. QueueInv => DeviceRefsExact
  BY DEF QueueInv, DeviceInv, DeviceRefsExact, BoundTo, ReleasingOf, LiveOf
<1> QED
  BY <1>1, QueueInvariance, PTL

\* virtusb_backend_fetch hands a request only to the file that is bound to its
\* device at that moment.
THEOREM FetchRoutesToBinding == Spec => RoutedToBinding
<1>1. QueueInv /\ [Next]_vars =>
         [\A t \in Range(active') \ Range(active) :
             [device |-> xfer[t].device, owner |-> owner'[t]] \in bindings]_vars
  <2> SUFFICES ASSUME QueueInv, Next, NEW t \in Range(active') \ Range(active)
               PROVE  [device |-> xfer[t].device, owner |-> owner'[t]] \in bindings
    OBVIOUS
  <2>1. Inv
    BY DEF QueueInv
  <2>2. PICK th \in Threads : Step(th)
    BY <2>1, Steps
  <2>3. ~ListsShrink
    BY DEF ListsShrink
  <2>4. ~SubmitQueues(th)
    BY DEF SubmitQueues
  <2>5. ~FetchRollback(th)
    <3>1. ASSUME NEW i \in DOMAIN active, active' = Without(active, i) PROVE FALSE
      <4>1. active \in Seq(Ids) /\ IsInjective(active)
        BY <2>1 DEF Inv, TypeOK, Lists, IsInjective
      <4>2. Range(active') \subseteq Range(active)
        BY <3>1, <4>1, WithoutFacts
      <4> QED
        BY <4>2
    <3> QED
      BY <3>1 DEF FetchRollback, FindId
  <2>6. Fetches(th)
    BY <2>1, <2>2, <2>3, <2>4, <2>5, ListsStep
  <2>7. PICK b \in bindings : b.device = xfer[t].device /\ owner'[t] = b.owner
    BY <2>1, <2>6, FetchRoutes
  <2>8. b \in [device : Devices, owner : Files]
    BY <2>1 DEF Inv, TypeOK
  <2> QED
    BY <2>7, <2>8
<1> QED
  BY <1>1, QueueInvariance, PTL DEF Spec, RoutedToBinding
=============================================================================
