---------------------- MODULE BackendRefinementProofs ----------------------
(***************************************************************************)
(* VirtUsbBackend implements UrbContract: the initial states map to the    *)
(* contract's, and every step to one of its steps or to none.              *)
(***************************************************************************)
EXTENDS BackendRefinement, VirtUsbQueueProofs

-----------------------------------------------------------------------------
(* Owners, and the table of jobs.                                          *)

\* An id that was not drawn yet names no device and no file.
Blank == \A t \in Ids : t > next_id => xfer[t].device = NoDevice /\ owner[t] = NoFile

\* A request that no backend has fetched, or that fetch_rollback has put back,
\* has no owner.
Unowned ==
    \A t \in Ids : t \in Range(pending) \/ HeldAt(t, "submit") => owner[t] = NoFile

MapInv == Inv /\ Blank /\ Unowned

\* What the refinement mapping makes of a transfer, by where its request is.
JobTable ==
    \A t \in Ids :
        /\ t > next_id => JobOf(t) = Contract!Nothing
        /\ t <= next_id /\ resolved[t] > 0 => JobOf(t) = Contract!Done
        /\ HeldAt(t, "submit") =>
              JobOf(t) = Contract!Job("offered", xfer[t].device, owner[t])
        /\ t \in Range(pending) =>
              JobOf(t) = Contract!Job("waiting", xfer[t].device, owner[t])
        /\ t \in Range(active) =>
              JobOf(t) = Contract!Job("routed", xfer[t].device, owner[t])
        /\ \A x \in Threads : At(x, "complete") /\ call[x].req = t =>
              JobOf(t) = Contract!Job("answered", xfer[t].device, call[x].file)
        /\ HeldAt(t, "giveback") =>
              JobOf(t) = Contract!Job("cancelled", xfer[t].device, owner[t])

\* Where a request can be, and that it is in one place only.
LEMMA Places ==
    ASSUME Inv, NEW t \in Ids
    PROVE  /\ t > next_id => resolved[t] = 0
           /\ t \in Queued \/ (\E x \in Threads : Holds(x, t)) => Open(t)
           /\ t > next_id => ~Open(t)
           /\ resolved[t] > 0 => ~Open(t)
           /\ t \in Range(pending) => t \notin Range(active)
           /\ \A x \in Threads : Holds(x, t) =>
                 t \notin Queued /\ \A y \in Threads : Holds(y, t) => y = x
<1>1. next_id \in Nat /\ t \in Nat /\ resolved[t] \in Nat
  <2>1. resolved[t] \in Nat
    BY DEF Inv, TypeOK
  <2> QED
    BY <2>1, RequestDrawn DEF Ids
<1>2. /\ t > next_id => resolved[t] = 0
      /\ t \in Queued \/ (\E x \in Threads : Holds(x, t)) => Open(t)
  BY DEF Inv, Fresh, ExactlyOnce, Open
<1>3. (t > next_id => ~Open(t)) /\ (resolved[t] > 0 => ~Open(t))
  BY <1>1 DEF Open
<1>4. t \in Range(pending) => t \notin Range(active)
  BY DEF Inv, Lists
<1>5. \A x \in Threads : Holds(x, t) =>
         t \notin Queued /\ \A y \in Threads : Holds(y, t) => y = x
  BY DEF Inv, Owners, OwnsRequest
<1> QED
  BY <1>2, <1>3, <1>4, <1>5

\* The phase of a transfer.
LEMMA PhaseTable ==
    ASSUME Inv, NEW t \in Ids
    PROVE  /\ t > next_id => PhaseOf(t) = "none"
           /\ t <= next_id /\ resolved[t] > 0 => PhaseOf(t) = "done"
           /\ HeldAt(t, "submit") => PhaseOf(t) = "offered"
           /\ t \in Range(pending) => PhaseOf(t) = "waiting"
           /\ t \in Range(active) => PhaseOf(t) = "routed"
           /\ HeldAt(t, "complete") => PhaseOf(t) = "answered"
           /\ HeldAt(t, "giveback") => PhaseOf(t) = "cancelled"
<1> DEFINE N == t > next_id
           D == resolved[t] > 0
           S == HeldAt(t, "submit")
           P == t \in Range(pending)
           A == t \in Range(active)
           C == HeldAt(t, "complete")
           G == HeldAt(t, "giveback")
<1>1. /\ ~(S /\ C) /\ ~(S /\ G) /\ ~(C /\ G)
  BY Places DEF HeldAt, Holds, At
<1>2. /\ S \/ C \/ G => ~P /\ ~A
  BY Places DEF HeldAt, Holds, At, Queued
<1>3. ~(P /\ A)
  BY Places
<1>4. S \/ C \/ G \/ P \/ A => ~N /\ ~D
  BY Places DEF HeldAt, Holds, At, Queued
<1>5. ~(N /\ D)
  BY Places
<1>6. t <= next_id => ~N
  BY RequestDrawn DEF Ids
<1>7. PhaseOf(t) = CASE N -> "none" [] D -> "done" [] S -> "offered" [] P -> "waiting"
                     [] A -> "routed" [] C -> "answered" [] G -> "cancelled"
  BY DEF PhaseOf
<1> HIDE DEF N, D, S, P, A, C, G
<1>8. /\ N => PhaseOf(t) = "none"
      /\ D => PhaseOf(t) = "done"
      /\ S => PhaseOf(t) = "offered"
      /\ P => PhaseOf(t) = "waiting"
      /\ A => PhaseOf(t) = "routed"
      /\ C => PhaseOf(t) = "answered"
      /\ G => PhaseOf(t) = "cancelled"
  BY <1>1, <1>2, <1>3, <1>4, <1>5, <1>7, Zenon
<1> QED
  BY <1>8 DEF N, D, S, P, A, C, G

\* The table is what JobOf computes.
LEMMA JobTableNow == MapInv => JobTable
<1> SUFFICES ASSUME MapInv, NEW t \in Ids
             PROVE  /\ t > next_id => JobOf(t) = Contract!Nothing
                    /\ t <= next_id /\ resolved[t] > 0 => JobOf(t) = Contract!Done
                    /\ HeldAt(t, "submit") =>
                          JobOf(t) = Contract!Job("offered", xfer[t].device, owner[t])
                    /\ t \in Range(pending) =>
                          JobOf(t) = Contract!Job("waiting", xfer[t].device, owner[t])
                    /\ t \in Range(active) =>
                          JobOf(t) = Contract!Job("routed", xfer[t].device, owner[t])
                    /\ \A x \in Threads : At(x, "complete") /\ call[x].req = t =>
                          JobOf(t) =
                             Contract!Job("answered", xfer[t].device, call[x].file)
                    /\ HeldAt(t, "giveback") =>
                          JobOf(t) = Contract!Job("cancelled", xfer[t].device, owner[t])
  BY DEF JobTable
<1> DEFINE p == PhaseOf(t)
           F == call[CHOOSE x \in Threads : At(x, "complete") /\ call[x].req = t].file
           d == IF p = "done" THEN NoDevice ELSE xfer[t].device
           f == CASE p = "done" -> NoFile [] p = "answered" -> F [] OTHER -> owner[t]
<1>1. JobOf(t) = Contract!Job(p, d, f)
  BY Zenon DEF JobOf, Contract!Job
<1>2. p = "done" => d = NoDevice /\ f = NoFile
  <2>1. "done" # "answered"
    OBVIOUS
  <2> QED
    BY <2>1, Zenon
<1>3. p # "done" => d = xfer[t].device
  BY Zenon
<1>4. p # "done" /\ p # "answered" => f = owner[t]
  BY Zenon
<1>5. p = "answered" => f = F
  <2>1. "done" # "answered"
    OBVIOUS
  <2> QED
    BY <2>1, Zenon
<1>6. ASSUME NEW x \in Threads, At(x, "complete"), call[x].req = t
      PROVE  F = call[x].file
  <2>1. \A y \in Threads : At(y, "complete") /\ call[y].req = t => y = x
    BY <1>6, Places DEF MapInv, Holds, At
  <2>2. (CHOOSE y \in Threads : At(y, "complete") /\ call[y].req = t) = x
    BY <1>6, <2>1
  <2> QED
    BY <2>2
<1>7. /\ t > next_id => p = "none"
      /\ t <= next_id /\ resolved[t] > 0 => p = "done"
      /\ HeldAt(t, "submit") => p = "offered"
      /\ t \in Range(pending) => p = "waiting"
      /\ t \in Range(active) => p = "routed"
      /\ HeldAt(t, "complete") => p = "answered"
      /\ HeldAt(t, "giveback") => p = "cancelled"
  BY PhaseTable DEF MapInv
<1>8. t > next_id => xfer[t].device = NoDevice /\ owner[t] = NoFile
  BY DEF MapInv, Blank
<1>9. \A x \in Threads : At(x, "complete") /\ call[x].req = t => HeldAt(t, "complete")
  BY DEF HeldAt
<1> HIDE DEF p, F, d, f
<1> QED
  BY <1>1, <1>2, <1>3, <1>4, <1>5, <1>6, <1>7, <1>8, <1>9
  DEF Contract!Nothing, Contract!Done

\* It is so after a step as well.
LEMMA JobTableNext == MapInv' => JobTable'
  BY JobTableNow, PTL

-----------------------------------------------------------------------------
(* What a step does to one transfer.                                       *)

\* A transfer that stays where it is stays the same job.
LEMMA JobKept ==
    ASSUME MapInv, MapInv', NEW r \in Ids,
           \A x \in Threads : Holds(x, r) => call'[x] = call[x],
           r > next_id' <=> r > next_id, resolved'[r] = resolved[r],
           r \in Range(pending') <=> r \in Range(pending),
           r \in Range(active') <=> r \in Range(active),
           Open(r) => owner'[r] = owner[r] /\ xfer'[r].device = xfer[r].device
    PROVE  JobOf(r)' = JobOf(r)
<1>1. /\ Inv /\ Inv' /\ JobTable /\ JobTable'
      /\ r \in Nat /\ next_id \in Nat /\ next_id' \in Nat
  <2>1. Inv /\ Inv'
    BY DEF MapInv
  <2>2. next_id \in 0..MaxTransfers /\ next_id' \in 0..MaxTransfers /\ MaxTransfers \in Nat
    BY <2>1, BoundAssumption DEF Inv, TypeOK
  <2> QED
    BY <2>1, <2>2, JobTableNow, JobTableNext DEF Ids
<1>2. CASE r > next_id
  BY <1>1, <1>2 DEF JobTable, Contract!Nothing
<1>3. CASE r <= next_id /\ resolved[r] > 0
  <2>1. r <= next_id'
    BY <1>1, <1>3
  <2> QED
    BY <1>1, <1>3, <2>1 DEF JobTable, Contract!Done
<1>4. CASE Open(r)
  <2>1. r \in Queued \/ \E x \in Threads : Holds(x, r)
    BY <1>1, <1>4 DEF Inv, ExactlyOnce, Open
  <2>2. CASE r \in Range(pending)
    BY <1>1, <1>4, <2>2 DEF JobTable, Contract!Job
  <2>3. CASE r \in Range(active)
    BY <1>1, <1>4, <2>3 DEF JobTable, Contract!Job
  <2>4. ASSUME NEW x \in Threads, Holds(x, r)
        PROVE  JobOf(r)' = JobOf(r)
    <3>1. call'[x] = call[x]
      BY <2>4
    <3>2. CASE At(x, "submit")
      <4>1. HeldAt(r, "submit") /\ HeldAt(r, "submit")'
        BY <2>4, <3>1, <3>2 DEF HeldAt, At, Holds
      <4> QED
        BY <1>1, <1>4, <4>1 DEF JobTable, Contract!Job
    <3>3. CASE At(x, "complete")
      <4>1. At(x, "complete")' /\ call[x].req = r /\ call'[x].req = r
        BY <2>4, <3>1, <3>3 DEF At, Holds
      <4> QED
        BY <1>1, <1>4, <3>1, <3>3, <4>1 DEF JobTable, Contract!Job
    <3>4. CASE At(x, "giveback")
      <4>1. HeldAt(r, "giveback") /\ HeldAt(r, "giveback")'
        BY <2>4, <3>1, <3>4 DEF HeldAt, At, Holds
      <4> QED
        BY <1>1, <1>4, <4>1 DEF JobTable, Contract!Job
    <3> QED
      BY <2>4, <3>2, <3>3, <3>4 DEF Holds, At
  <2> QED
    BY <2>1, <2>2, <2>3, <2>4 DEF Queued
<1> QED
  <2>1. resolved[r] \in Nat
    BY <1>1 DEF Inv, TypeOK
  <2> QED
    BY <1>1, <1>2, <1>3, <1>4, <2>1 DEF Open

\* One transfer moves and the others keep their jobs.
LEMMA Moved ==
    ASSUME NEW t \in Ids, NEW from, NEW to, JobOf(t).phase \in from, JobOf(t)' = to,
           \A r \in Ids : r # t => JobOf(r)' = JobOf(r)
    PROVE  Contract!Move(t, from, to)
<1>1. [r \in Ids |-> JobOf(r)]' = [[r \in Ids |-> JobOf(r)] EXCEPT ![t] = to]
  OBVIOUS
<1>2. [r \in Ids |-> JobOf(r)][t].phase \in from
  OBVIOUS
<1> QED
  BY <1>1, <1>2 DEF Contract!Move

\* No transfer moves.
LEMMA NoneMoved ==
    ASSUME \A r \in Ids : JobOf(r)' = JobOf(r)
    PROVE  [r \in Ids |-> JobOf(r)]' = [r \in Ids |-> JobOf(r)]
  OBVIOUS

-----------------------------------------------------------------------------
(* The mapping's invariant.                                                *)

\* Only fetch gives a request an owner, and it makes the request active; no
\* step touches the transfer of an id that is still to be drawn.
LEMMA OwnerStep ==
    ASSUME Inv, NEW th \in Threads, Step(th), NEW r \in Ids
    PROVE  /\ owner'[r] = owner[r] \/ owner'[r] = NoFile \/ r \in Range(active')
           /\ next_id \in Nat /\ next_id' \in Nat /\ next_id' >= next_id
           /\ r > next_id' => xfer'[r] = xfer[r] /\ owner'[r] = owner[r]
<1>1. /\ next_id \in Nat /\ r \in Nat
      /\ owner \in [Ids -> Files \cup {NoFile}] /\ xfer \in [Ids -> Transfer]
  <2>1. owner \in [Ids -> Files \cup {NoFile}] /\ xfer \in [Ids -> Transfer]
    BY DEF Inv, TypeOK
  <2> QED
    BY <2>1, RequestDrawn DEF Ids
<1>2. CASE UNCHANGED <<next_id, xfer, owner>>
  BY <1>1, <1>2
<1>3. CASE Drops(th) \/ GivesBack(th) \/ SubmitFails(th)
  <2>1. PICK q \in Ids : q = call[th].req /\ q <= next_id
    BY <1>3, RequestDrawn
    DEF Drops, ReleaseRequest, PutCreatorRef, FetchCopies, GivesBack, Giveback,
        CompleteGivesBack, SubmitFails, At, Carrying
  <2>2. /\ next_id' = next_id
        /\ owner' = owner \/ owner' = [owner EXCEPT ![q] = NoFile]
        /\ xfer' = xfer \/ \E e : xfer' = [xfer EXCEPT ![q] = e]
    BY <1>3, <2>1
    DEF Drops, ReleaseRequest, PutCreatorRef, FetchCopies, GivesBack, Giveback,
        CompleteGivesBack, GiveUrbBack, SubmitFails, Put
  <2> QED
    BY <1>1, <2>1, <2>2
<1>4. CASE Submits(th) \/ Refuses(th)
  <2>1. next_id' = next_id + 1 /\ owner' = owner
    BY <1>4 DEF Submits, Enqueue, Refuses, EnqueueFails
  <2>2. xfer' = xfer \/ \E e : xfer' = [xfer EXCEPT ![next_id + 1] = e]
    BY <1>4 DEF Submits, Enqueue, Refuses, EnqueueFails
  <2> QED
    BY <1>1, <2>1, <2>2
<1>5. CASE Fetches(th)
  <2>1. PICK t \in Ids : /\ t \in Range(pending) /\ t \in Range(active')
                         /\ \A q \in Ids : q # t => owner'[q] = owner[q]
                         /\ next_id' = next_id /\ xfer' = xfer
    BY <1>5, FetchRoutes
  <2>2. t <= next_id
    BY <2>1 DEF Inv, ExactlyOnce, Queued
  <2> QED
    BY <1>1, <2>1, <2>2
<1>6. CASE FetchRollback(th)
  <2>1. PICK q \in Ids : q = call[th].req /\ q <= next_id
    BY <1>6, RequestDrawn DEF FetchRollback, At, Carrying
  <2>2. /\ next_id' = next_id /\ xfer' = xfer
        /\ owner' = owner \/ owner' = [owner EXCEPT ![q] = NoFile]
    BY <1>6, <2>1 DEF FetchRollback
  <2> QED
    BY <1>1, <2>1, <2>2
<1>7. \/ UNCHANGED <<next_id, xfer, owner>> \/ Drops(th) \/ GivesBack(th)
      \/ SubmitFails(th) \/ Submits(th) \/ Refuses(th) \/ Fetches(th)
      \/ FetchRollback(th)
  BY DEF Step, Waits, Wake, FetchReturns, FetchWaits, WaitPrepare, WaitCondition,
     WaitWoken, WaitInterrupted, TakesOne, Takes, DrainEnds, SubmitQueues, Binds,
     Register, Releases, Unregister, Unbound, StopDrainEnds, Stop, StopUnbind, xferVars
<1> QED
  BY <1>2, <1>3, <1>4, <1>5, <1>6, <1>7

\* Only urb_enqueue begins a submit, with an id it has just drawn.
LEMMA SubmitBegins ==
    ASSUME Inv, NEW th \in Threads, Step(th), At(th, "submit")'
    PROVE  Submits(th) /\ call'[th].req = next_id + 1
<1>1. CASE Submits(th)
  <2>1. PICK u \in Urbs, d \in Devices : Enqueue(th, u, d)
    BY <1>1 DEF Submits
  <2>2. /\ call[th] \in Call
        /\ call'[th] = [call[th] EXCEPT !.pc = "submit", !.req = next_id + 1]
    BY <2>1, Departure, Arrival DEF Enqueue
  <2> QED
    BY <1>1, <2>2 DEF Call
<1>2. CASE Refuses(th)
  BY <1>2 DEF Refuses, EnqueueFails, At
<1>3. CASE SubmitQueues(th)
  BY <1>3, SubmitMove DEF At
<1>4. CASE SubmitFails(th)
  <2>1. call'[th] = Idle
    BY <1>4, Arrival DEF SubmitFails, Return
  <2> QED
    BY <2>1 DEF Idle, At
<1>5. CASE TakesOne(th)
  <2>1. PICK c \in Call : Enter(th, c) /\ c.pc \in {"complete", "giveback"}
    BY <1>5 DEF TakesOne, Takes
  <2> QED
    BY <2>1, Arrival DEF At
<1>7. CASE Waits(th)
  BY <1>7, WaitsMove DEF At
<1>8. CASE GivesBack(th)
  BY <1>8, GivesBackMove DEF At
<1>9. CASE Drops(th)
  BY <1>9, DropsMove DEF At
<1>10. CASE \/ Binds(th) \/ Fetches(th) \/ FetchRollback(th) \/ Unbound(th)
            \/ DrainEnds(th)
  BY <1>10, UserMove DEF At
<1>11. CASE Releases(th)
  BY <1>11, ReleaseMove DEF At
<1>12. CASE StopDrainEnds(th) \/ Stop(th) \/ StopUnbind(th)
  BY <1>12, StopMove DEF At
<1> QED
  BY <1>1, <1>2, <1>3, <1>4, <1>5, <1>7, <1>8, <1>9, <1>10, <1>11, <1>12 DEF Step

\* Every step keeps the mapping's invariant.
LEMMA MapInvStep ==
    ASSUME MapInv, Inv', NEW th \in Threads, Step(th)
    PROVE  MapInv'
<1>1. Inv
  BY DEF MapInv
<1>2. ASSUME NEW r \in Ids, r > next_id'
      PROVE  xfer'[r].device = NoDevice /\ owner'[r] = NoFile
  <2>1. /\ r \in Nat /\ next_id \in Nat /\ next_id' \in Nat /\ next_id' >= next_id
        /\ xfer'[r] = xfer[r] /\ owner'[r] = owner[r]
    BY <1>1, <1>2, OwnerStep DEF Ids
  <2> QED
    BY <1>2, <2>1 DEF MapInv, Blank
<1>3. ASSUME NEW r \in Ids, r \in Range(pending') \/ HeldAt(r, "submit")'
      PROVE  owner'[r] = NoFile
  <2>1. r \notin Range(active')
    BY <1>3 DEF Inv, Lists, Owners, OwnsRequest, Holds, HeldAt, At, Queued
  <2>2. owner'[r] = owner[r] \/ owner'[r] = NoFile
    BY <1>1, <2>1, OwnerStep
  <2>3. CASE r \in Range(pending) \/ HeldAt(r, "submit")
    BY <2>2, <2>3 DEF MapInv, Unowned
  <2>4. CASE HeldAt(r, "submit")' /\ ~HeldAt(r, "submit")
    <3>1. PICK x \in Threads : At(x, "submit")' /\ call'[x].req = r
      BY <2>4 DEF HeldAt
    <3>2. x = th
      BY <1>1, <2>4, <3>1, OthersStay DEF HeldAt, At
    <3>3. r = next_id + 1
      BY <1>1, <3>1, <3>2, SubmitBegins
    <3>4. r > next_id
      BY <1>1, <3>3, RequestDrawn
    <3> QED
      BY <2>2, <3>4 DEF MapInv, Blank
  <2>5. CASE r \in Range(pending') /\ r \notin Range(pending)
    <3>1. SubmitQueues(th) \/ FetchRollback(th)
      BY <1>1, <2>5, ListsStep, FetchRoutes DEF ListsShrink
    <3>2. PICK q \in Ids : q = call[th].req
      BY <1>1, <3>1, RequestDrawn DEF SubmitQueues, FetchRollback, At, Carrying
    <3>3. pending \in Seq(Ids)
      BY <1>1 DEF Inv, TypeOK
    <3>4. CASE SubmitQueues(th)
      <4>1. pending' = Append(pending, q) /\ HeldAt(q, "submit")
        BY <3>2, <3>4 DEF SubmitQueues, HeldAt
      <4>2. Range(pending') = Range(pending) \cup {q}
        BY <3>3, <4>1, AppendFacts
      <4> QED
        BY <2>2, <2>5, <4>1, <4>2 DEF MapInv, Unowned
    <3>5. CASE FetchRollback(th)
      <4>1. pending' = <<q>> \o pending /\ owner' = [owner EXCEPT ![q] = NoFile]
        BY <2>5, <3>2, <3>5 DEF FetchRollback, ToHead
      <4>2. Range(pending') = Range(pending) \cup {q}
        BY <3>3, <4>1, PrependFacts
      <4> QED
        BY <1>1, <2>5, <4>1, <4>2 DEF Inv, TypeOK
    <3> QED
      BY <3>1, <3>4, <3>5
  <2> QED
    BY <1>3, <2>3, <2>4, <2>5
<1> QED
  BY <1>2, <1>3 DEF MapInv, Blank, Unowned

-----------------------------------------------------------------------------
(* The steps, kind by kind.                                                *)

\* Nothing of transfer r changes in a step of th, but perhaps the owner of one
\* that has ended.
Rests(th, r) ==
    /\ ~Holds(th, r)
    /\ r > next_id' <=> r > next_id
    /\ resolved'[r] = resolved[r]
    /\ r \in Range(pending') <=> r \in Range(pending)
    /\ r \in Range(active') <=> r \in Range(active)
    /\ Open(r) => owner'[r] = owner[r]

\* Such a transfer keeps its job.
LEMMA RestsKept ==
    ASSUME MapInv, MapInv', NEW th \in Threads, Step(th), NEW r \in Ids, Rests(th, r)
    PROVE  JobOf(r)' = JobOf(r)
<1>1. Inv /\ Inv' /\ r \in Nat /\ next_id \in Nat /\ next_id' \in Nat
  <2>1. Inv /\ Inv'
    BY DEF MapInv
  <2> QED
    BY <2>1, OwnerStep DEF Ids
<1>2. \A x \in Threads : Holds(x, r) => call'[x] = call[x]
  BY <1>1, OthersStay DEF Rests
<1>3. Open(r) => Open(r)'
  BY <1>1 DEF Rests, Open
<1>4. Open(r) => owner'[r] = owner[r] /\ xfer'[r].device = xfer[r].device
  BY <1>1, <1>3, OpenKept DEF Rests
<1> QED
  BY <1>2, <1>4, JobKept DEF Rests

\* What the contract sees of a step.
Maps == Contract!Next \/ UNCHANGED <<bindings, [t \in Ids |-> JobOf(t)]>>

\* complete answers a transfer routed to its file; cancel and the drain loops
\* drop one that waits or is routed.
LEMMA TakesMaps ==
    ASSUME MapInv, MapInv', NEW th \in Threads, Step(th), TakesOne(th)
    PROVE  Maps
<1>1. PICK t \in Ids, c \in Call : Takes(th, t, c)
  BY DEF TakesOne
<1>2. Inv /\ JobTable /\ JobTable'
  BY JobTableNow, JobTableNext DEF MapInv
<1>3. /\ call'[th] = c /\ call[th].pc \in {"idle", "drain", "stopdrain"}
      /\ UNCHANGED <<bindings, next_id, resolved, owner, xfer>>
  BY <1>1, <1>2, Arrival DEF Takes, xferVars
<1>4. \A r \in Ids : r # t => JobOf(r)' = JobOf(r)
  <2>1. ASSUME NEW r \in Ids, r # t PROVE Rests(th, r)
    BY <1>1, <1>3, <2>1 DEF Rests, Takes, Holds
  <2> QED
    BY <2>1, RestsKept
<1>5. CASE c.pc = "complete"
  <2>1. /\ JobOf(t) = Contract!Job("routed", xfer[t].device, owner[t])
        /\ owner[t] = c.file /\ c.file \in Files
    BY <1>1, <1>2, <1>5 DEF Takes, JobTable
  <2>2. JobOf(t)' = Contract!Job("answered", xfer[t].device, c.file)
    <3>1. At(th, "complete")' /\ call'[th].req = t
      BY <1>1, <1>3, <1>5 DEF Takes, At
    <3> QED
      BY <1>2, <1>3, <3>1 DEF JobTable, Contract!Job
  <2>3. JobOf(t).phase = "routed" /\ JobOf(t).device = xfer[t].device
        /\ JobOf(t).owner = c.file
    BY <2>1 DEF Contract!Job
  <2>4. Contract!Move(t, {"routed"}, Contract!Job("answered", JobOf(t).device, c.file))
    BY <1>4, <2>2, <2>3, Moved
  <2>5. Contract!Answer(t, c.file)
    BY <1>3, <2>3, <2>4 DEF Contract!Answer
  <2> QED
    BY <2>1, <2>5, Zenon DEF Maps, Contract!Next, Contract!TransferStep
<1>6. CASE c.pc = "giveback"
  <2>1. /\ JobOf(t).phase \in {"waiting", "routed"}
        /\ JobOf(t).device = xfer[t].device /\ JobOf(t).owner = owner[t]
    BY <1>1, <1>2 DEF Takes, JobTable, Queued, Contract!Job
  <2>2. JobOf(t)' = Contract!Job("cancelled", xfer[t].device, owner[t])
    <3>1. HeldAt(t, "giveback")'
      BY <1>1, <1>3, <1>6 DEF Takes, HeldAt, At
    <3> QED
      BY <1>2, <1>3, <3>1 DEF JobTable, Contract!Job
  <2>3. Contract!Move(t, {"waiting", "routed"},
                      Contract!Job("cancelled", JobOf(t).device, JobOf(t).owner))
    BY <1>4, <2>1, <2>2, Moved
  <2>4. Contract!Drop(t)
    BY <1>3, <2>3 DEF Contract!Drop
  <2> QED
    BY <2>4, Zenon DEF Maps, Contract!Next, Contract!TransferStep
<1> QED
  BY <1>1, <1>5, <1>6 DEF Takes

\* usb_hcd_giveback_urb ends a transfer that was answered or dropped.
LEMMA GivesBackMaps ==
    ASSUME MapInv, MapInv', NEW th \in Threads, Step(th), GivesBack(th)
    PROVE  Maps
<1>1. Inv /\ JobTable /\ JobTable'
  BY JobTableNow, JobTableNext DEF MapInv
<1>2. /\ call[th].pc \in {"complete", "giveback"} /\ call'[th].pc = "free"
  BY <1>1, GivesBackMove
<1>3. PICK t \in Ids : t = call[th].req /\ t <= next_id
  BY <1>1, <1>2, RequestDrawn DEF Carrying
<1>4. /\ UNCHANGED <<bindings, pending, active, next_id, owner>>
      /\ resolved' = [resolved EXCEPT ![t] = @ + 1]
      /\ resolved \in [Ids -> Nat]
  BY <1>1, <1>3
  DEF GivesBack, Giveback, CompleteGivesBack, GiveUrbBack, queueVars, Inv, TypeOK
<1>5. \A r \in Ids : r # t => JobOf(r)' = JobOf(r)
  <2>1. ASSUME NEW r \in Ids, r # t PROVE Rests(th, r)
    BY <1>2, <1>3, <1>4, <2>1 DEF Rests, Holds
  <2> QED
    BY <2>1, RestsKept
<1>6. JobOf(t).phase \in {"answered", "cancelled"}
  <2>1. At(th, "complete") \/ HeldAt(t, "giveback")
    BY <1>2, <1>3 DEF HeldAt, At
  <2> QED
    BY <1>1, <1>3, <2>1 DEF JobTable, Contract!Job
<1>7. JobOf(t)' = Contract!Done
  <2>1. t <= next_id' /\ resolved'[t] > 0
    BY <1>3, <1>4
  <2> QED
    BY <1>1, <2>1 DEF JobTable, Contract!Done
<1>8. Contract!End(t)
  BY <1>4, <1>5, <1>6, <1>7, Moved DEF Contract!End
<1> QED
  BY <1>8, Zenon DEF Maps, Contract!Next, Contract!TransferStep

\* urb_enqueue offers a new transfer, or refuses it at once.
LEMMA EnqueueMaps ==
    ASSUME MapInv, MapInv', NEW th \in Threads, Step(th), Submits(th) \/ Refuses(th)
    PROVE  Maps
<1>1. Inv /\ JobTable /\ JobTable'
  BY JobTableNow, JobTableNext DEF MapInv
<1>2. next_id \in Nat /\ next_id < MaxTransfers /\ MaxTransfers \in Nat
  BY <1>1, RequestDrawn DEF Submits, Refuses, Enqueue, EnqueueFails
<1>3. PICK t \in Ids : t = next_id + 1 /\ t > next_id
  BY <1>2 DEF Ids
<1>4. /\ next_id' = t /\ call[th].pc = "idle"
      /\ UNCHANGED <<bindings, pending, active, owner>>
  BY <1>3 DEF Submits, Refuses, Enqueue, EnqueueFails, queueVars, At
<1>5. JobOf(t).phase = "none" /\ owner[t] = NoFile
  BY <1>1, <1>3 DEF JobTable, Contract!Nothing, Contract!Job, MapInv, Blank
<1>6. \A r \in Ids : r # t => (r > next_id' <=> r > next_id)
  BY <1>2, <1>3, <1>4 DEF Ids
<1>7. CASE Submits(th)
  <2>1. PICK u \in Urbs, d \in Devices : Enqueue(th, u, d)
    BY <1>7 DEF Submits
  <2>2. /\ call[th] \in Call /\ resolved' = resolved
        /\ call'[th] = [call[th] EXCEPT !.pc = "submit", !.req = t]
    BY <1>1, <1>3, <2>1, Departure, Arrival DEF Enqueue
  <2>3. call'[th].pc = "submit" /\ call'[th].req = t
    BY <2>2 DEF Call
  <2>4. xfer'[t].device = d
    BY <1>1, <1>3, <2>1 DEF Enqueue, NewTransfer, Inv, TypeOK
  <2>5. \A r \in Ids : r # t => JobOf(r)' = JobOf(r)
    <3>1. ASSUME NEW r \in Ids, r # t PROVE Rests(th, r)
      BY <1>4, <1>6, <2>2, <2>3, <3>1 DEF Rests, Holds
    <3> QED
      BY <3>1, RestsKept
  <2>6. JobOf(t)' = Contract!Job("offered", d, NoFile)
    <3>1. HeldAt(t, "submit")' /\ owner'[t] = NoFile
      BY <1>4, <1>5, <2>3 DEF HeldAt, At
    <3> QED
      BY <1>1, <2>4, <3>1 DEF JobTable, Contract!Job
  <2>7. Contract!Offer(t, d)
    BY <1>4, <1>5, <2>5, <2>6, Moved DEF Contract!Offer
  <2> QED
    BY <2>7, Zenon DEF Maps, Contract!Next, Contract!TransferStep
<1>8. CASE Refuses(th)
  <2>1. /\ call' = call
        /\ resolved' = [resolved EXCEPT ![t] = @ + 1] /\ resolved \in [Ids -> Nat]
    BY <1>1, <1>3, <1>8 DEF Refuses, EnqueueFails, Inv, TypeOK
  <2>2. \A r \in Ids : r # t => JobOf(r)' = JobOf(r)
    <3>1. ASSUME NEW r \in Ids, r # t PROVE Rests(th, r)
      BY <1>4, <1>6, <2>1, <3>1 DEF Rests, Holds
    <3> QED
      BY <3>1, RestsKept
  <2>3. JobOf(t)' = Contract!Done
    <3>1. t <= next_id' /\ resolved'[t] > 0
      BY <1>2, <1>3, <1>4, <2>1
    <3> QED
      BY <1>1, <3>1 DEF JobTable, Contract!Done
  <2>4. Contract!Refuse(t)
    BY <1>4, <1>5, <2>2, <2>3, Moved DEF Contract!Refuse
  <2> QED
    BY <2>4, Zenon DEF Maps, Contract!Next, Contract!TransferStep
<1> QED
  BY <1>7, <1>8

\* virtusb_backend_submit accepts an offered transfer of a bound device, or
\* refuses it.
LEMMA SubmitMaps ==
    ASSUME MapInv, MapInv', NEW th \in Threads, Step(th),
           SubmitQueues(th) \/ SubmitFails(th)
    PROVE  Maps
<1>1. Inv /\ JobTable /\ JobTable'
  BY JobTableNow, JobTableNext DEF MapInv
<1>2. PICK t \in Ids : t = call[th].req /\ t <= next_id
  BY <1>1, RequestDrawn DEF SubmitQueues, SubmitFails, At, Carrying
<1>3. /\ call[th].pc = "submit" /\ call'[th].pc # "submit"
      /\ call'[th].pc \in {"idle", "wake", "submit"}
      /\ UNCHANGED <<bindings, active, next_id, owner>>
  <2>1. /\ call[th].pc = "submit" /\ call'[th].pc \in {"idle", "wake", "submit"}
        /\ UNCHANGED <<bindings, active, next_id, owner>>
    BY <1>1, SubmitMove DEF SubmitQueues, SubmitFails, At, queueVars, xferVars
  <2> QED
    BY <1>1, <2>1, SubmitBegins DEF At, Submits, Enqueue
<1>4. HeldAt(t, "submit")
  BY <1>2, <1>3 DEF HeldAt, At
<1>5. /\ JobOf(t) = Contract!Job("offered", xfer[t].device, owner[t])
      /\ JobOf(t).phase = "offered" /\ JobOf(t).device = xfer[t].device
      /\ owner[t] = NoFile
  BY <1>1, <1>4 DEF JobTable, Contract!Job, MapInv, Unowned
<1>6. CASE SubmitQueues(th)
  <2>1. /\ pending' = Append(pending, t) /\ UNCHANGED <<resolved, xfer>>
        /\ BoundDevice(xfer[t].device) /\ pending \in Seq(Ids)
    BY <1>1, <1>2, <1>6 DEF SubmitQueues, Accepts, Inv, TypeOK, xferVars
  <2>2. Range(pending') = Range(pending) \cup {t}
    BY <2>1, AppendFacts
  <2>3. \A r \in Ids : r # t => JobOf(r)' = JobOf(r)
    <3>1. ASSUME NEW r \in Ids, r # t PROVE Rests(th, r)
      BY <1>2, <1>3, <2>1, <2>2, <3>1 DEF Rests, Holds
    <3> QED
      BY <3>1, RestsKept
  <2>4. JobOf(t)' = Contract!Job("waiting", JobOf(t).device, NoFile)
    <3>1. t \in Range(pending')
      BY <2>2
    <3> QED
      BY <1>1, <1>3, <1>5, <2>1, <3>1 DEF JobTable, Contract!Job
  <2>5. \E b \in bindings : b.device = JobOf(t).device
    BY <1>5, <2>1 DEF BoundDevice
  <2>6. Contract!Accept(t)
    BY <1>3, <1>5, <2>3, <2>4, <2>5, Moved DEF Contract!Accept
  <2> QED
    BY <2>6, Zenon DEF Maps, Contract!Next, Contract!TransferStep
<1>7. CASE SubmitFails(th)
  <2>1. /\ resolved' = [resolved EXCEPT ![t] = @ + 1] /\ resolved \in [Ids -> Nat]
        /\ pending' = pending
    BY <1>1, <1>2, <1>7 DEF SubmitFails, queueVars, Inv, TypeOK
  <2>2. \A r \in Ids : r # t => JobOf(r)' = JobOf(r)
    <3>1. ASSUME NEW r \in Ids, r # t PROVE Rests(th, r)
      BY <1>2, <1>3, <2>1, <3>1 DEF Rests, Holds
    <3> QED
      BY <3>1, RestsKept
  <2>3. JobOf(t)' = Contract!Done
    <3>1. t <= next_id' /\ resolved'[t] > 0
      BY <1>2, <1>3, <2>1
    <3> QED
      BY <1>1, <3>1 DEF JobTable, Contract!Done
  <2>4. Contract!Refuse(t)
    BY <1>3, <1>5, <2>2, <2>3, Moved DEF Contract!Refuse
  <2> QED
    BY <2>4, Zenon DEF Maps, Contract!Next, Contract!TransferStep
<1> QED
  BY <1>6, <1>7

\* virtusb_backend_fetch routes a waiting transfer to the bound file.
LEMMA FetchMaps ==
    ASSUME MapInv, MapInv', NEW th \in Threads, Step(th), Fetches(th)
    PROVE  Maps
<1>1. Inv /\ JobTable /\ JobTable'
  BY JobTableNow, JobTableNext DEF MapInv
<1>2. PICK b \in bindings, t \in Ids :
         /\ b.device = xfer[t].device
         /\ t \in Range(pending) /\ t \notin Range(active)
         /\ Range(pending') = Range(pending) \ {t}
         /\ Range(active') = Range(active) \cup {t}
         /\ owner'[t] = b.owner
         /\ \A r \in Ids : r # t => owner'[r] = owner[r]
         /\ UNCHANGED <<bindings, next_id, xfer, resolved>>
  BY <1>1, FetchRoutes DEF usbVars
<1>3. call[th].pc \in {"idle", "fetch"} /\ call'[th].pc = "copy"
  BY <1>1, UserMove
<1>4. \A r \in Ids : r # t => JobOf(r)' = JobOf(r)
  <2>1. ASSUME NEW r \in Ids, r # t PROVE Rests(th, r)
    BY <1>2, <1>3, <2>1 DEF Rests, Holds
  <2> QED
    BY <2>1, RestsKept
<1>5. b.owner \in Files /\ b = [device |-> b.device, owner |-> b.owner]
  BY <1>1 DEF Inv, TypeOK
<1>6. JobOf(t).phase = "waiting" /\ JobOf(t).device = b.device
  BY <1>1, <1>2 DEF JobTable, Contract!Job
<1>7. JobOf(t)' = Contract!Job("routed", JobOf(t).device, b.owner)
  <2>1. t \in Range(active')
    BY <1>2
  <2> QED
    BY <1>1, <1>2, <1>6, <2>1 DEF JobTable, Contract!Job
<1>8. [device |-> JobOf(t).device, owner |-> b.owner] \in bindings
  BY <1>5, <1>6
<1>9. Contract!Route(t, b.owner)
  BY <1>2, <1>4, <1>6, <1>7, <1>8, Moved DEF Contract!Route
<1> QED
  BY <1>5, <1>9, Zenon DEF Maps, Contract!Next, Contract!TransferStep

\* virtusb_backend_fetch_rollback puts a transfer that is still its file's back,
\* and leaves any other alone.
LEMMA RollbackMaps ==
    ASSUME MapInv, MapInv', NEW th \in Threads, Step(th), FetchRollback(th)
    PROVE  Maps
<1>1. Inv /\ JobTable /\ JobTable'
  BY JobTableNow, JobTableNext DEF MapInv
<1>2. PICK t \in Ids : t = call[th].req
  BY <1>1, RequestDrawn DEF FetchRollback, At, Carrying
<1>3. /\ call[th].pc = "rollback" /\ call'[th].pc \in {"idle", "wake"}
      /\ UNCHANGED <<bindings, next_id, xfer, resolved>>
  BY <1>1, UserMove DEF FetchRollback, usbVars
<1>4. CASE UNCHANGED <<pending, active, owner>>
  <2>1. ASSUME NEW r \in Ids PROVE JobOf(r)' = JobOf(r)
    <3>1. Rests(th, r)
      BY <1>3, <1>4 DEF Rests, Holds
    <3> QED
      BY <3>1, RestsKept
  <2> QED
    BY <1>3, <2>1, NoneMoved DEF Maps
<1>5. CASE /\ \E i \in FindId(call[th].file, t) : active' = Without(active, i)
           /\ owner' = [owner EXCEPT ![t] = NoFile]
           /\ pending' = ToHead(t)
  <2>1. PICK i \in DOMAIN active : active[i] = t /\ active' = Without(active, i)
    BY <1>5 DEF FindId
  <2>2. /\ active \in Seq(Ids) /\ IsInjective(active) /\ pending \in Seq(Ids)
        /\ owner \in [Ids -> Files \cup {NoFile}]
    BY <1>1 DEF Inv, TypeOK, Lists, IsInjective
  <2>3. Range(active') = Range(active) \ {t}
    BY <2>1, <2>2, WithoutFacts
  <2>4. Range(pending') = Range(pending) \cup {t}
    BY <1>5, <2>2, PrependFacts DEF ToHead
  <2>5. t \in Range(active)
    BY <2>1 DEF Range
  <2>6. \A r \in Ids : r # t => JobOf(r)' = JobOf(r)
    <3>1. ASSUME NEW r \in Ids, r # t PROVE Rests(th, r)
      BY <1>3, <1>5, <2>2, <2>3, <2>4, <3>1 DEF Rests, Holds
    <3> QED
      BY <3>1, RestsKept
  <2>7. JobOf(t).phase = "routed" /\ JobOf(t).device = xfer[t].device
    BY <1>1, <2>5 DEF JobTable, Contract!Job
  <2>8. JobOf(t)' = Contract!Job("waiting", JobOf(t).device, NoFile)
    <3>1. t \in Range(pending') /\ owner'[t] = NoFile
      BY <1>5, <2>2, <2>4
    <3> QED
      BY <1>1, <1>3, <2>7, <3>1 DEF JobTable, Contract!Job
  <2>9. Contract!Unroute(t)
    BY <1>3, <2>6, <2>7, <2>8, Moved DEF Contract!Unroute
  <2> QED
    BY <2>9, Zenon DEF Maps, Contract!Next, Contract!TransferStep
<1> QED
  BY <1>2, <1>4, <1>5 DEF FetchRollback

\* Every other step leaves all transfers where they are.
LEMMA OthersRest ==
    ASSUME MapInv, MapInv', NEW th \in Threads, Step(th),
           \/ Waits(th) \/ DrainEnds(th) \/ Drops(th) \/ Binds(th) \/ Releases(th)
           \/ Unbound(th) \/ StopDrainEnds(th) \/ Stop(th) \/ StopUnbind(th)
    PROVE  [t \in Ids |-> JobOf(t)]' = [t \in Ids |-> JobOf(t)]
<1>1. Inv
  BY DEF MapInv
<1>2. call[th].pc \notin {"submit", "complete", "giveback"}
  <2>1. CASE Waits(th)
    BY <1>1, <2>1, WaitsMove
  <2>2. CASE Drops(th)
    BY <1>1, <2>2, DropsMove
  <2>3. CASE Binds(th) \/ Unbound(th) \/ DrainEnds(th)
    BY <1>1, <2>3, UserMove
  <2>4. CASE Releases(th)
    BY <1>1, <2>4, ReleaseMove
  <2>5. CASE StopDrainEnds(th) \/ Stop(th) \/ StopUnbind(th)
    BY <1>1, <2>5, StopMove
  <2> QED
    BY <2>1, <2>2, <2>3, <2>4, <2>5
<1>3. UNCHANGED <<pending, active, next_id, resolved>>
  BY DEF Waits, Wake, FetchReturns, FetchWaits, WaitPrepare, WaitCondition,
     WaitWoken, WaitInterrupted, DrainEnds, Drops, ReleaseRequest, PutCreatorRef,
     FetchCopies, Binds, Register, Releases, Unregister, Unbound, StopDrainEnds,
     Stop, StopUnbind, queueVars, xferVars, usbVars
<1>4. ASSUME NEW r \in Ids, Open(r) PROVE owner'[r] = owner[r]
  <2>1. CASE ReleaseRequest(th)
    <3>1. PICK q \in Ids : q = call[th].req
      BY <1>1, <2>1, RequestDrawn DEF ReleaseRequest, At, Carrying
    <3>2. resolved[q] = 1
      BY <1>1, <2>1, <3>1 DEF ReleaseRequest, Inv, Freed
    <3>3. r # q
      BY <1>4, <3>2 DEF Open
    <3> QED
      BY <1>1, <2>1, <3>1, <3>3 DEF ReleaseRequest, Inv, TypeOK
  <2>2. owner' = owner \/ ReleaseRequest(th)
    BY DEF Waits, Wake, FetchReturns, FetchWaits, WaitPrepare, WaitCondition,
       WaitWoken, WaitInterrupted, DrainEnds, Drops, PutCreatorRef,
       FetchCopies, Binds, Register, Releases, Unregister, Unbound, StopDrainEnds,
       Stop, StopUnbind, xferVars
  <2> QED
    BY <2>1, <2>2
<1>5. ASSUME NEW r \in Ids PROVE JobOf(r)' = JobOf(r)
  <2>1. Rests(th, r)
    BY <1>2, <1>3, <1>4 DEF Rests, Holds
  <2> QED
    BY <2>1, RestsKept
<1> QED
  BY <1>5, NoneMoved

\* register and the ends of a binding are those of the contract; what is left
\* is invisible in it.
LEMMA RestMaps ==
    ASSUME MapInv, MapInv', NEW th \in Threads, Step(th),
           \/ Waits(th) \/ DrainEnds(th) \/ Drops(th) \/ Binds(th) \/ Releases(th)
           \/ Unbound(th) \/ StopDrainEnds(th) \/ Stop(th) \/ StopUnbind(th)
    PROVE  Maps
<1>1. [t \in Ids |-> JobOf(t)]' = [t \in Ids |-> JobOf(t)]
  BY OthersRest
<1>2. CASE bindings' = bindings
  BY <1>1, <1>2 DEF Maps
<1>3. CASE Binds(th)
  <2>1. PICK f \in Files, d \in Devices : Register(th, f, d)
    BY <1>3 DEF Binds
  <2>2. Contract!Bind(d, f)
    BY <1>1, <2>1 DEF Contract!Bind, Register, Free, BoundFile, BoundDevice
  <2> QED
    BY <2>2, Zenon DEF Maps, Contract!Next
<1>4. ASSUME NEW b \in bindings, bindings' = bindings \ {b}
      PROVE  Maps
  <2>1. Contract!Unbind(b)
    BY <1>1, <1>4 DEF Contract!Unbind
  <2> QED
    BY <2>1, Zenon DEF Maps, Contract!Next
<1>5. \/ bindings' = bindings \/ Binds(th)
      \/ \E b \in bindings : bindings' = bindings \ {b}
  BY BindingsStep DEF Releases, Unregister, StopUnbind
<1> QED
  BY <1>2, <1>3, <1>4, <1>5

-----------------------------------------------------------------------------
\* The initial states of the data plane are the contract's.
LEMMA InitMaps == Init => MapInv /\ Contract!Init
<1> SUFFICES ASSUME Init PROVE MapInv /\ Contract!Init
  OBVIOUS
<1>1. Inv
  BY InitInv
<1>2. \A t \in Ids : t > next_id
  BY DEF Init, Ids
<1>3. \A t \in Ids : xfer[t].device = NoDevice /\ owner[t] = NoFile
  BY DEF Init, NoTransfer
<1>4. MapInv
  BY <1>1, <1>3 DEF MapInv, Blank, Unowned
<1>5. \A t \in Ids : JobOf(t) = Contract!Nothing
  BY <1>2, <1>4, JobTableNow DEF JobTable
<1>6. [t \in Ids |-> JobOf(t)] = [t \in Ids |-> Contract!Nothing] /\ bindings = {}
  BY <1>5 DEF Init
<1> QED
  BY <1>4, <1>6 DEF Contract!Init

\* Every step of the data plane is a step of the contract or none.
LEMMA NextMaps ==
    MapInv /\ [Next]_vars => MapInv' /\ [Contract!Next]_(Contract!contractVars)
<1> SUFFICES ASSUME MapInv, [Next]_vars
             PROVE  MapInv' /\ [Contract!Next]_(Contract!contractVars)
  OBVIOUS
<1>1. Inv /\ Inv'
  BY NextInv DEF MapInv
<1>2. SUFFICES MapInv' /\ Maps
  BY Zenon DEF Maps, Contract!contractVars
<1>3. CASE Next
  <2>1. PICK th \in Threads : Step(th)
    BY <1>1, <1>3, Steps
  <2>2. MapInv'
    BY <1>1, <2>1, MapInvStep
  <2> QED
    BY <2>1, <2>2, TakesMaps, GivesBackMaps, EnqueueMaps, SubmitMaps, FetchMaps,
       RollbackMaps, RestMaps DEF Step
<1>4. CASE UNCHANGED vars
  <2>1. UNCHANGED <<bindings, pending, active, next_id, xfer, owner, resolved, call>>
    BY <1>4 DEF vars, queueVars, xferVars, usbVars
  <2>2. MapInv'
    BY <1>1, <2>1 DEF MapInv, Blank, Unowned, HeldAt, At
  <2>3. \A r \in Ids : JobOf(r)' = JobOf(r)
    BY <2>1, <2>2, JobKept
  <2> QED
    BY <2>1, <2>2, <2>3, NoneMoved DEF Maps
<1> QED
  BY <1>3, <1>4

\* The data plane does what UrbContract promises, for any number of threads,
\* files, devices, URBs and transfers: a URB is accepted only for a bound
\* device, routed only to the bound file, answered only by the file it is
\* routed to, and ends once, however the handlers of virtusb_backend.c overlap.
THEOREM Refinement == Spec => ImplementsContract
<1> QED
  BY InitMaps, NextMaps, PTL DEF Spec, ImplementsContract, Contract!Spec
=============================================================================
