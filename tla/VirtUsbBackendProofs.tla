------------------------ MODULE VirtUsbBackendProofs ------------------------
(***************************************************************************)
(* The inductive invariant behind the custody of requests, and its proof.  *)
(***************************************************************************)
EXTENDS VirtUsbBackend, TLAPS

Carrying == {"submit", "put", "complete", "giveback", "free", "copy", "rollback"}

\* What a thread's locals are at each place of a handler.
Locals ==
    \A th \in Threads :
        LET c == call[th] IN
        /\ c.pc \in Carrying \/ c.ret = "put" => c.req \in 1..next_id
        /\ c.ret = "put" => c.pc = "wake"
        /\ c.ret = "drain" => c.pc \in {"giveback", "free"}
        /\ c.ret = "stopdrain" => c.pc \in {"wake", "giveback", "free"}

\* Requests in the lists are there once, and no thread has them.
Lists ==
    /\ \A i, j \in DOMAIN pending : pending[i] = pending[j] => i = j
    /\ \A i, j \in DOMAIN active : active[i] = active[j] => i = j
    /\ Range(pending) \cap Range(active) = {}

Owners ==
    \A t \in Ids, th \in Threads : OwnsRequest(th, t) =>
        /\ t \notin Queued
        /\ \A th2 \in Threads : OwnsRequest(th2, t) => th2 = th

\* A fetch that still refers to a request has made it active: the request is
\* not pending again and not still being submitted.
Fetching(th, t) == call[th].pc \in {"copy", "rollback"} /\ call[th].req = t

Fetchers ==
    \A t \in Ids, th \in Threads : Fetching(th, t) =>
        /\ t \notin Range(pending)
        /\ \A th2 \in Threads : Fetching(th2, t) => th2 = th
        /\ \A th2 \in Threads : ~(At(th2, "submit") /\ call[th2].req = t)

Creators ==
    \A t \in Ids, th1, th2 \in Threads :
        Creator(th1, t) /\ Creator(th2, t) => th1 = th2

\* A referenced transfer has not been freed.
Live ==
    \A t \in Ids : refcount[t] > 0 =>
        /\ xfer[t].urb \in Urbs
        /\ xfer[t].device \in Devices

\* An id that was not drawn yet has no history.
Fresh == \A t \in Ids : t > next_id => resolved[t] = 0

\* A request that is freed has given its URB back.
Freed ==
    \A th \in Threads : At(th, "free") => resolved[call[th].req] = 1

Inv ==
    /\ TypeOK
    /\ Locals
    /\ Lists
    /\ Owners
    /\ Fetchers
    /\ Creators
    /\ RefcountExact
    /\ Live
    /\ ExactlyOnce
    /\ Fresh
    /\ Freed

-----------------------------------------------------------------------------
(* The two lists.                                                          *)

\* list_del takes one entry out and keeps the others, once each.
LEMMA WithoutFacts ==
    ASSUME NEW S, NEW s \in Seq(S), NEW i \in DOMAIN s, IsInjective(s)
    PROVE  /\ Without(s, i) \in Seq(S)
           /\ Range(Without(s, i)) = Range(s) \ {s[i]}
           /\ IsInjective(Without(s, i))
<1> DEFINE w == Without(s, i)
<1>1. Len(s) \in Nat /\ DOMAIN s = 1..Len(s) /\ i \in 1..Len(s)
  OBVIOUS
<1>2. /\ DOMAIN w = 1..(Len(s) - 1)
      /\ \A j \in 1..(Len(s) - 1) : w[j] = IF j < i THEN s[j] ELSE s[j + 1]
  BY DEF Without
<1>3. w \in Seq(S)
  <2>1. Len(s) - 1 \in Nat
    BY <1>1
  <2>2. \A j \in 1..(Len(s) - 1) : w[j] \in S
    BY <1>1, <1>2
  <2> QED
    BY <2>1, <2>2 DEF Without
<1>4. \A j \in DOMAIN w : w[j] \in Range(s) \ {s[i]}
  BY <1>1, <1>2 DEF Range, IsInjective
<1>5. ASSUME NEW j \in DOMAIN s, s[j] # s[i]
      PROVE  s[j] \in Range(w)
  <2>1. CASE j < i
    <3>1. j \in DOMAIN w /\ w[j] = s[j]
      BY <1>1, <1>2, <2>1
    <3> QED
      BY <3>1 DEF Range
  <2>2. CASE j > i
    <3>1. j - 1 \in DOMAIN w /\ w[j - 1] = s[j]
      BY <1>1, <1>2, <2>2
    <3> QED
      BY <3>1 DEF Range
  <2> QED
    BY <1>1, <1>5, <2>1, <2>2
<1>6. IsInjective(w)
  <2> DEFINE old(j) == IF j < i THEN j ELSE j + 1
  <2>1. \A j \in DOMAIN w : old(j) \in DOMAIN s /\ w[j] = s[old(j)]
    BY <1>1, <1>2
  <2>2. \A j, k \in DOMAIN w : old(j) = old(k) => j = k
    BY <1>1, <1>2
  <2> HIDE DEF old, w
  <2> QED
    BY <2>1, <2>2 DEF IsInjective
<1> QED
  BY <1>3, <1>4, <1>5, <1>6 DEF Range

\* list_add_tail adds one entry.
LEMMA AppendFacts ==
    ASSUME NEW S, NEW s \in Seq(S), NEW x \in S
    PROVE  /\ Append(s, x) \in Seq(S)
           /\ Range(Append(s, x)) = Range(s) \cup {x}
           /\ IsInjective(s) /\ x \notin Range(s) => IsInjective(Append(s, x))
<1> DEFINE w == Append(s, x)
<1>1. /\ w \in Seq(S)
      /\ DOMAIN s = 1..Len(s) /\ Len(s) \in Nat
      /\ DOMAIN w = 1..(Len(s) + 1)
      /\ \A j \in 1..(Len(s) + 1) : w[j] = IF j <= Len(s) THEN s[j] ELSE x
  OBVIOUS
<1> HIDE DEF w
<1>2. Range(w) = Range(s) \cup {x}
  BY <1>1 DEF Range
<1>3. IsInjective(s) /\ x \notin Range(s) => IsInjective(w)
  BY <1>1 DEF IsInjective, Range
<1> QED
  BY <1>1, <1>2, <1>3 DEF w

\* list_move to the head adds one entry, too.
LEMMA PrependFacts ==
    ASSUME NEW S, NEW s \in Seq(S), NEW x \in S
    PROVE  /\ <<x>> \o s \in Seq(S)
           /\ Range(<<x>> \o s) = Range(s) \cup {x}
           /\ IsInjective(s) /\ x \notin Range(s) => IsInjective(<<x>> \o s)
<1> DEFINE w == <<x>> \o s
<1>1. /\ w \in Seq(S)
      /\ DOMAIN s = 1..Len(s) /\ Len(s) \in Nat
      /\ DOMAIN w = 1..(Len(s) + 1)
      /\ \A j \in 1..(Len(s) + 1) : w[j] = IF j = 1 THEN x ELSE s[j - 1]
  OBVIOUS
<1> HIDE DEF w
<1>2. Range(w) = Range(s) \cup {x}
  <2>1. \A j \in DOMAIN s : j + 1 \in DOMAIN w /\ w[j + 1] = s[j]
    BY <1>1
  <2>2. 1 \in DOMAIN w /\ w[1] = x
    BY <1>1
  <2>3. \A j \in DOMAIN w : w[j] = x \/ (j - 1 \in DOMAIN s /\ w[j] = s[j - 1])
    BY <1>1
  <2> QED
    BY <2>1, <2>2, <2>3 DEF Range
<1>3. ASSUME IsInjective(s), x \notin Range(s)
      PROVE  IsInjective(w)
  <2>1. SUFFICES ASSUME NEW j \in DOMAIN w, NEW k \in DOMAIN w, w[j] = w[k]
                 PROVE  j = k
    BY DEF IsInjective
  <2>2. \A l \in DOMAIN w : l # 1 => l - 1 \in DOMAIN s /\ w[l] = s[l - 1]
    BY <1>1
  <2>3. \A l \in DOMAIN w : l # 1 => w[l] # x
    BY <2>2, <1>3 DEF Range
  <2>4. w[1] = x /\ j \in Int /\ k \in Int
    BY <1>1
  <2>5. CASE j = 1 \/ k = 1
    BY <2>1, <2>3, <2>4, <2>5
  <2>6. CASE j # 1 /\ k # 1
    <3>1. j - 1 = k - 1
      BY <2>1, <2>2, <2>6, <1>3 DEF IsInjective
    <3> QED
      BY <3>1, <2>4
  <2> QED
    BY <2>5, <2>6
<1> QED
  BY <1>1, <1>2, <1>3 DEF w

-----------------------------------------------------------------------------
(* Steps that touch no request.                                            *)

\* TypeOK but for the threads.
DataTyped ==
    /\ bindings \subseteq [device : Devices, owner : Files]
    /\ pending \in Seq(Ids)
    /\ active \in Seq(Ids)
    /\ stopping \in BOOLEAN
    /\ waitq \subseteq Threads
    /\ next_id \in 0..MaxTransfers
    /\ xfer \in [Ids -> Transfer]
    /\ refcount \in [Ids -> Int]
    /\ owner \in [Ids -> Files \cup {NoFile}]
    /\ dev_refs \in [Devices -> Int]
    /\ urb \in [Urbs -> {"host", "hcd"}]
    /\ linked \subseteq Urbs
    /\ resolved \in [Ids -> Nat]

\* TypeOK is the type of the shared state and that of the threads' locals.
LEMMA Typing == TypeOK <=> DataTyped /\ call \in [Threads -> Call]
  BY DEF TypeOK, DataTyped

\* The locals of one thread change and those of the others do not.
LEMMA EnterFacts ==
    ASSUME call \in [Threads -> Call], NEW th \in Threads, NEW c \in Call,
           Enter(th, c)
    PROVE  /\ call' \in [Threads -> Call]
           /\ call'[th] = c
           /\ \A x \in Threads : x # th => call'[x] = call[x]
  BY DEF Enter

\* A thread that refers to no request and has no wake-up of a submit to do.
Plain(c) ==
    /\ c.pc \notin Carrying
    /\ c.ret = "idle" \/ (c.ret = "stopdrain" /\ c.pc = "wake")

\* A step that leaves the requests, the transfers and every thread's part in
\* them alone preserves the invariant.
LEMMA CustodyKept ==
    ASSUME Inv, TypeOK', Locals',
           pending' = pending, active' = active, next_id' = next_id,
           xfer' = xfer, refcount' = refcount, resolved' = resolved,
           \A x \in Threads, t \in Ids :
              /\ Creator(x, t)' <=> Creator(x, t)
              /\ OwnsRequest(x, t)' <=> OwnsRequest(x, t)
              /\ Holds(x, t)' <=> Holds(x, t)
              /\ Reader(x, t)' <=> Reader(x, t)
              /\ Fetching(x, t)' <=> Fetching(x, t)
              /\ (At(x, "submit") /\ call[x].req = t)'
                    <=> (At(x, "submit") /\ call[x].req = t),
           \A x \in Threads : At(x, "free")' =>
              At(x, "free") /\ call'[x].req = call[x].req
    PROVE  Inv'
<1>2. Queued' = Queued /\ Range(pending)' = Range(pending)
                       /\ Range(active)' = Range(active)
  BY DEF Queued, Range
<1>4. Lists'
  BY DEF Inv, Lists, Range
<1>5. Owners'
  BY <1>2 DEF Inv, Owners
<1>6. Fetchers'
  BY <1>2 DEF Inv, Fetchers
<1>7. Creators'
  BY DEF Inv, Creators
<1>8. RefcountExact'
  BY <1>2 DEF Inv, RefcountExact, One
<1>9. Live'
  BY DEF Inv, Live
<1>10. ExactlyOnce'
  BY <1>2 DEF Inv, ExactlyOnce
<1>11. Fresh'
  BY DEF Inv, Fresh
<1>12. Freed'
  BY DEF Inv, Freed
<1> QED
  BY <1>4, <1>5, <1>6, <1>7, <1>8, <1>9, <1>10, <1>11, <1>12 DEF Inv

\* A step that moves one thread between places without a request or a
\* transfer, and changes neither lists nor URBs, keeps the invariant.
LEMMA PlainStep ==
    ASSUME Inv, DataTyped', NEW th \in Threads, NEW c \in Call, Enter(th, c),
           pending' = pending, active' = active, next_id' = next_id,
           xfer' = xfer, refcount' = refcount, resolved' = resolved,
           Plain(call[th]), Plain(c)
    PROVE  Inv'
<1>0. /\ TypeOK'
      /\ call'[th] = c
      /\ \A x \in Threads : x # th => call'[x] = call[x]
  BY Typing, EnterFacts DEF Inv, TypeOK, DataTyped
<1>1. \A x \in Threads, t \in Ids :
         /\ Creator(x, t)' <=> Creator(x, t)
         /\ OwnsRequest(x, t)' <=> OwnsRequest(x, t)
         /\ Holds(x, t)' <=> Holds(x, t)
         /\ Reader(x, t)' <=> Reader(x, t)
         /\ Fetching(x, t)' <=> Fetching(x, t)
         /\ (At(x, "submit") /\ call[x].req = t)'
               <=> (At(x, "submit") /\ call[x].req = t)
  BY <1>0 DEF Plain, Carrying, Creator, OwnsRequest, Holds, Reader, Fetching, At
<1>2. Locals'
  BY <1>0 DEF Inv, Locals, Plain, Carrying
<1>3. \A x \in Threads : At(x, "free")' =>
         At(x, "free") /\ call'[x].req = call[x].req
  BY <1>0 DEF Plain, Carrying, At
<1> QED
  BY <1>0, <1>1, <1>2, <1>3, CustodyKept

\* A counter lowered at one place, which may be none of its own, stays one.
LEMMA Lowered ==
    ASSUME NEW S, NEW f \in [S -> Int], NEW x
    PROVE  [f EXCEPT ![x] = @ - 1] \in [S -> Int]
<1>1. ASSUME NEW y \in S
      PROVE  (IF y = x THEN f[x] - 1 ELSE f[y]) \in Int
  BY <1>1
<1>2. [f EXCEPT ![x] = @ - 1] = [y \in S |-> IF y = x THEN f[x] - 1 ELSE f[y]]
  BY Zenon
<1> QED
  BY <1>1, <1>2

\* Outside a wake-up a thread without a request is plain.
LEMMA PlainBefore ==
    ASSUME Inv, NEW th \in Threads, call[th].pc \notin Carrying, call[th].pc # "wake"
    PROVE  call[th] \in Call /\ Plain(call[th]) /\ call[th].ret = "idle"
<1>1. call[th] \in Call
  BY Typing DEF Inv
<1>2. call[th].ret \in {"idle", "put", "drain", "stopdrain"}
  BY <1>1 DEF Call
<1> QED
  BY <1>1, <1>2 DEF Inv, Locals, Plain, Carrying


\* Binding a file to a device (virtusb_backend_register) keeps the invariant.
LEMMA RegisterStep ==
    ASSUME Inv, NEW th \in Threads, NEW f \in Files, NEW d \in Devices, Register(th, f, d)
    PROVE  Inv'
<1> DEFINE c1 == [call[th] EXCEPT !.pc = "wake"]
<1>1. DataTyped'
  BY DEF Inv, TypeOK, DataTyped, Register, Goto, usbVars
<1>2. call[th] \in Call /\ Plain(call[th]) /\ call[th].ret = "idle"
  BY PlainBefore DEF Register, Goto, usbVars, At, Carrying
<1>3. /\ c1 \in Call /\ Plain(c1)
  BY <1>2 DEF Call, Pcs, Plain, Carrying, Idle, NoId
<1>4. Enter(th, c1)
  BY SMT DEF Register, Goto, usbVars
<1> HIDE DEF c1
<1> QED
  BY <1>1, <1>2, <1>3, <1>4, PlainStep DEF Register, Goto, usbVars

\* A fetch that finds nothing and goes to wait keeps the invariant.
LEMMA FetchWaitsStep ==
    ASSUME Inv, NEW th \in Threads, NEW f \in Files, FetchWaits(th, f)
    PROVE  Inv'
<1> DEFINE c1 == [call[th] EXCEPT !.pc = "prepare", !.file = f]
<1>1. DataTyped'
  BY DEF Inv, TypeOK, DataTyped, FetchWaits, InFetch, queueVars, xferVars, usbVars
<1>2. call[th] \in Call /\ Plain(call[th]) /\ call[th].ret = "idle"
  BY PlainBefore DEF FetchWaits, InFetch, queueVars, xferVars, usbVars, At, Carrying
<1>3. /\ c1 \in Call /\ Plain(c1)
  BY <1>2 DEF Call, Pcs, Plain, Carrying, Idle, NoId
<1>4. Enter(th, c1)
  BY SMT DEF FetchWaits, InFetch, queueVars, xferVars, usbVars
<1> HIDE DEF c1
<1> QED
  BY <1>1, <1>2, <1>3, <1>4, PlainStep DEF FetchWaits, InFetch, queueVars, xferVars, usbVars

\* A fetch that returns without a transfer keeps the invariant.
LEMMA FetchReturnsStep ==
    ASSUME Inv, NEW th \in Threads, FetchReturns(th)
    PROVE  Inv'
<1> DEFINE c1 == Idle
<1>1. DataTyped'
  BY DEF Inv, TypeOK, DataTyped, FetchReturns, Return, queueVars, xferVars, usbVars
<1>2. call[th] \in Call /\ Plain(call[th]) /\ call[th].ret = "idle"
  BY PlainBefore DEF FetchReturns, Return, queueVars, xferVars, usbVars, At, Carrying
<1>3. /\ c1 \in Call /\ Plain(c1)
  BY <1>2 DEF Call, Pcs, Plain, Carrying, Idle, NoId
<1>4. Enter(th, c1)
  BY SMT DEF FetchReturns, Return, queueVars, xferVars, usbVars
<1> HIDE DEF c1
<1> QED
  BY <1>1, <1>2, <1>3, <1>4, PlainStep DEF FetchReturns, Return, queueVars, xferVars, usbVars

\* A fetch that enters the wait queue keeps the invariant.
LEMMA WaitPrepareStep ==
    ASSUME Inv, NEW th \in Threads, WaitPrepare(th)
    PROVE  Inv'
<1> DEFINE c1 == [call[th] EXCEPT !.pc = "cond"]
<1>1. DataTyped'
  BY DEF Inv, TypeOK, DataTyped, WaitPrepare, Goto, queueVars, xferVars, usbVars
<1>2. call[th] \in Call /\ Plain(call[th]) /\ call[th].ret = "idle"
  BY PlainBefore DEF WaitPrepare, Goto, queueVars, xferVars, usbVars, At, Carrying
<1>3. /\ c1 \in Call /\ Plain(c1)
  BY <1>2 DEF Call, Pcs, Plain, Carrying, Idle, NoId
<1>4. Enter(th, c1)
  BY SMT DEF WaitPrepare, Goto, queueVars, xferVars, usbVars
<1> HIDE DEF c1
<1> QED
  BY <1>1, <1>2, <1>3, <1>4, PlainStep DEF WaitPrepare, Goto, queueVars, xferVars, usbVars

\* A fetch that evaluates the condition of its wait keeps the invariant.
LEMMA WaitConditionStep ==
    ASSUME Inv, NEW th \in Threads, WaitCondition(th)
    PROVE  Inv'
<1> DEFINE c1 == [call[th] EXCEPT !.pc = "fetch"]
<1> DEFINE c2 == [call[th] EXCEPT !.pc = "sleep"]
<1>1. DataTyped'
  BY DEF Inv, TypeOK, DataTyped, WaitCondition, Goto, queueVars, xferVars, usbVars
<1>2. call[th] \in Call /\ Plain(call[th]) /\ call[th].ret = "idle"
  BY PlainBefore DEF WaitCondition, Goto, queueVars, xferVars, usbVars, At, Carrying
<1>3. /\ c1 \in Call /\ Plain(c1)
      /\ c2 \in Call /\ Plain(c2)
  BY <1>2 DEF Call, Pcs, Plain, Carrying, Idle, NoId
<1>4. Enter(th, c1) \/ Enter(th, c2)
  BY SMT DEF WaitCondition, Goto, queueVars, xferVars, usbVars
<1> HIDE DEF c1, c2
<1> QED
  BY <1>1, <1>2, <1>3, <1>4, PlainStep DEF WaitCondition, Goto, queueVars, xferVars, usbVars

\* A fetch that is woken and looks again keeps the invariant.
LEMMA WaitWokenStep ==
    ASSUME Inv, NEW th \in Threads, WaitWoken(th)
    PROVE  Inv'
<1> DEFINE c1 == [call[th] EXCEPT !.pc = "prepare"]
<1>1. DataTyped'
  BY DEF Inv, TypeOK, DataTyped, WaitWoken, Goto, queueVars, xferVars, usbVars
<1>2. call[th] \in Call /\ Plain(call[th]) /\ call[th].ret = "idle"
  BY PlainBefore DEF WaitWoken, Goto, queueVars, xferVars, usbVars, At, Carrying
<1>3. /\ c1 \in Call /\ Plain(c1)
  BY <1>2 DEF Call, Pcs, Plain, Carrying, Idle, NoId
<1>4. Enter(th, c1)
  BY SMT DEF WaitWoken, Goto, queueVars, xferVars, usbVars
<1> HIDE DEF c1
<1> QED
  BY <1>1, <1>2, <1>3, <1>4, PlainStep DEF WaitWoken, Goto, queueVars, xferVars, usbVars

\* A fetch that a signal takes out of its wait keeps the invariant.
LEMMA WaitInterruptedStep ==
    ASSUME Inv, NEW th \in Threads, WaitInterrupted(th)
    PROVE  Inv'
<1> DEFINE c1 == Idle
<1>1. DataTyped'
  BY DEF Inv, TypeOK, DataTyped, WaitInterrupted, Return, queueVars, xferVars, usbVars
<1>2. call[th] \in Call /\ Plain(call[th]) /\ call[th].ret = "idle"
  BY PlainBefore DEF WaitInterrupted, Return, queueVars, xferVars, usbVars, At, Carrying
<1>3. /\ c1 \in Call /\ Plain(c1)
  BY <1>2 DEF Call, Pcs, Plain, Carrying, Idle, NoId
<1>4. Enter(th, c1)
  BY SMT DEF WaitInterrupted, Return, queueVars, xferVars, usbVars
<1> HIDE DEF c1
<1> QED
  BY <1>1, <1>2, <1>3, <1>4, PlainStep DEF WaitInterrupted, Return, queueVars, xferVars, usbVars

\* The end of virtusb_backend_release_owner keeps the invariant.
LEMMA UnboundStep ==
    ASSUME Inv, NEW th \in Threads, Unbound(th)
    PROVE  Inv'
<1> DEFINE c1 == [Idle EXCEPT !.pc = "wake"]
<1>1. DataTyped'
  <2>2. dev_refs' \in [Devices -> Int]
    BY Lowered DEF Inv, TypeOK, Unbound
  <2> QED
    BY <2>2 DEF Inv, TypeOK, DataTyped, Unbound, queueVars, usbVars
<1>2. call[th] \in Call /\ Plain(call[th]) /\ call[th].ret = "idle"
  BY PlainBefore DEF Unbound, queueVars, usbVars, At, Carrying
<1>3. /\ c1 \in Call /\ Plain(c1)
  BY <1>2 DEF Call, Pcs, Plain, Carrying, Idle, NoId
<1>4. Enter(th, c1)
  BY SMT DEF Unbound, queueVars, usbVars
<1> HIDE DEF c1
<1> QED
  BY <1>1, <1>2, <1>3, <1>4, PlainStep DEF Unbound, queueVars, usbVars

\* The begin of virtusb_backend_stop keeps the invariant.
LEMMA StopBegins ==
    ASSUME Inv, NEW th \in Threads, Stop(th)
    PROVE  Inv'
<1> DEFINE c1 == [call[th] EXCEPT !.pc = "wake", !.ret = "stopdrain"]
<1>1. DataTyped'
  BY DEF Inv, TypeOK, DataTyped, Stop, xferVars, usbVars
<1>2. call[th] \in Call /\ Plain(call[th]) /\ call[th].ret = "idle"
  BY PlainBefore DEF Stop, xferVars, usbVars, At, Carrying
<1>3. /\ c1 \in Call /\ Plain(c1)
  BY <1>2 DEF Call, Pcs, Plain, Carrying, Idle, NoId
<1>4. Enter(th, c1)
  BY SMT DEF Stop, xferVars, usbVars
<1> HIDE DEF c1
<1> QED
  BY <1>1, <1>2, <1>3, <1>4, PlainStep DEF Stop, xferVars, usbVars

\* virtusb_backend_stop dropping a binding keeps the invariant.
LEMMA StopUnbindStep ==
    ASSUME Inv, NEW th \in Threads, StopUnbind(th)
    PROVE  Inv'
<1> DEFINE c1 == call[th]
<1> DEFINE c2 == [call[th] EXCEPT !.pc = "stopped"]
<1>1. DataTyped'
  BY DEF Inv, TypeOK, DataTyped, StopUnbind, Goto, usbVars
<1>2. call[th] \in Call /\ Plain(call[th]) /\ call[th].ret = "idle"
  BY PlainBefore DEF StopUnbind, Goto, usbVars, At, Carrying
<1>3. /\ c1 \in Call /\ Plain(c1)
      /\ c2 \in Call /\ Plain(c2)
  BY <1>2 DEF Call, Pcs, Plain, Carrying, Idle, NoId
<1>4. Enter(th, c1) \/ Enter(th, c2)
  BY Typing DEF StopUnbind, Goto, usbVars, Enter, Inv
<1> HIDE DEF c1, c2
<1> QED
  BY <1>1, <1>2, <1>3, <1>4, PlainStep DEF StopUnbind, Goto, usbVars

\* The begin of virtusb_backend_release_owner keeps the invariant.
LEMMA UnregisterStep ==
    ASSUME Inv, NEW th \in Threads, NEW f \in Files, Unregister(th, f)
    PROVE  Inv'
<1>1. PICK b \in bindings :
         /\ bindings' = bindings \ {b}
         /\ Enter(th, [call[th] EXCEPT !.pc = "drain", !.file = f,
                                       !.device = b.device])
  BY DEF Unregister
<1> DEFINE c1 == [call[th] EXCEPT !.pc = "drain", !.file = f, !.device = b.device]
<1>2. DataTyped'
  BY <1>1 DEF Inv, TypeOK, DataTyped, Unregister, xferVars, usbVars
<1>3. call[th] \in Call /\ Plain(call[th]) /\ call[th].ret = "idle"
  BY PlainBefore DEF Unregister, At, Carrying
<1>4. b.device \in Devices
  BY DEF Inv, TypeOK
<1>5. c1 \in Call /\ Plain(c1)
  BY <1>3, <1>4 DEF Call, Pcs, Plain, Carrying
<1> HIDE DEF c1
<1> QED
  BY <1>1, <1>2, <1>3, <1>5, PlainStep DEF c1, Unregister, xferVars, usbVars

\* A wake-up after an unlock keeps the invariant.
LEMMA WakeStep ==
    ASSUME Inv, NEW th \in Threads, Wake(th)
    PROVE  Inv'
<1> USE DEF Wake, At
<1>1. /\ call \in [Threads -> Call]
      /\ call[th] \in Call /\ call[th].pc = "wake"
      /\ call[th].ret \in {"idle", "put", "stopdrain"}
  <2>1. call[th] \in Call
    BY Typing DEF Inv
  <2>2. call[th].ret \in {"idle", "put", "drain", "stopdrain"}
    BY <2>1 DEF Call
  <2> QED
    BY <2>1, <2>2, Typing DEF Inv, Locals
<1>2. DataTyped'
  BY DEF Inv, TypeOK, DataTyped, queueVars, xferVars, usbVars
<1>3. CASE call[th].ret = "idle"
  <2>1. Idle \in Call /\ Plain(Idle) /\ Plain(call[th])
    BY <1>1, <1>3 DEF Call, Pcs, Plain, Carrying, Idle, NoId
  <2> QED
    BY <1>2, <1>3, <2>1, PlainStep DEF Resume, Return, queueVars, xferVars, usbVars
<1>4. CASE call[th].ret = "stopdrain"
  <2> DEFINE c == [call[th] EXCEPT !.pc = "stopdrain", !.ret = "idle",
                                   !.req = call[th].req]
  <2>1. c \in Call /\ Plain(c) /\ Plain(call[th])
    BY <1>1, <1>4 DEF Call, Pcs, Plain, Carrying
  <2>2. Enter(th, c)
    BY <1>4 DEF Resume
  <2> HIDE DEF c
  <2> QED
    BY <1>2, <2>1, <2>2, PlainStep DEF queueVars, xferVars, usbVars
<1>5. CASE call[th].ret = "put"
  <2> DEFINE c == [call[th] EXCEPT !.pc = "put", !.ret = "idle",
                                   !.req = call[th].req]
  <2>1. c \in Call /\ c.pc = "put" /\ c.ret = "idle" /\ c.req = call[th].req
    BY <1>1 DEF Call, Pcs
  <2>2. Enter(th, c)
    BY <1>5 DEF Resume
  <2> HIDE DEF c
  <2>3. /\ TypeOK'
        /\ call'[th] = c
        /\ \A x \in Threads : x # th => call'[x] = call[x]
    BY <1>1, <1>2, <2>1, <2>2, EnterFacts DEF TypeOK, DataTyped
  <2>4. \A x \in Threads, t \in Ids :
         /\ Creator(x, t)' <=> Creator(x, t)
         /\ OwnsRequest(x, t)' <=> OwnsRequest(x, t)
         /\ Holds(x, t)' <=> Holds(x, t)
         /\ Reader(x, t)' <=> Reader(x, t)
         /\ Fetching(x, t)' <=> Fetching(x, t)
         /\ (At(x, "submit") /\ call[x].req = t)'
               <=> (At(x, "submit") /\ call[x].req = t)
    BY <1>1, <1>5, <2>1, <2>3
    DEF Creator, OwnsRequest, Holds, Reader, Fetching
  <2>5. Locals'
    BY <1>5, <2>1, <2>3 DEF Inv, Locals, queueVars, xferVars, usbVars, Carrying
  <2>6. \A x \in Threads : At(x, "free")' =>
           At(x, "free") /\ call'[x].req = call[x].req
    BY <2>1, <2>3
  <2> QED
    BY <2>3, <2>4, <2>5, <2>6, CustodyKept DEF queueVars, xferVars, usbVars
<1> QED
  BY <1>1, <1>3, <1>4, <1>5

-----------------------------------------------------------------------------
(* Steps on a request that a thread has.                                   *)

\* A thread that carries a request has drawn its id.
LEMMA RequestDrawn ==
    ASSUME Inv
    PROVE  /\ next_id \in Nat /\ next_id <= MaxTransfers /\ MaxTransfers \in Nat
           /\ \A x \in Threads : call[x].pc \in Carrying \/ call[x].ret = "put" =>
                 call[x].req \in Ids /\ call[x].req <= next_id
<1>1. next_id \in Nat /\ next_id <= MaxTransfers /\ MaxTransfers \in Nat
  BY BoundAssumption DEF Inv, TypeOK
<1>2. ASSUME NEW x \in Threads, call[x].pc \in Carrying \/ call[x].ret = "put"
      PROVE  call[x].req \in 1..next_id
  BY <1>2 DEF Inv, Locals
<1> QED
  BY <1>1, <1>2 DEF Ids

\* The URB goes back, once, and the request is still to be freed.
LEMMA GiveUrbBackStep ==
    ASSUME Inv, NEW th \in Threads, NEW s \in {"completed", "cancelled"},
           call[th].pc \in {"complete", "giveback"}, GiveUrbBack(th, s)
    PROVE  Inv'
<1> DEFINE t0 == call[th].req
           c == [call[th] EXCEPT !.pc = "free"]
<1>0. t0 \in Ids /\ t0 <= next_id /\ next_id \in Nat
  BY RequestDrawn DEF Carrying
<1>1. c \in Call /\ c.pc = "free" /\ c.ret = call[th].ret /\ c.req = t0
  BY Typing DEF Inv, Call, Pcs
<1>2. Enter(th, c)
  BY DEF GiveUrbBack, Goto
<1> HIDE DEF c
<1>3. /\ call' \in [Threads -> Call]
      /\ call'[th] = c
      /\ \A x \in Threads : x # th => call'[x] = call[x]
  BY <1>1, <1>2, Typing, EnterFacts DEF Inv
<1>4. Holds(th, t0) /\ OwnsRequest(th, t0) /\ t0 \notin Queued /\ resolved[t0] = 0
  <2>1. Holds(th, t0) /\ OwnsRequest(th, t0)
    BY DEF Holds, OwnsRequest
  <2> QED
    BY <1>0, <2>1 DEF Inv, Owners, ExactlyOnce
<1>5. \A x \in Threads, t \in Ids :
         /\ Creator(x, t)' <=> Creator(x, t)
         /\ OwnsRequest(x, t)' <=> OwnsRequest(x, t)
         /\ Holds(x, t)' <=> Holds(x, t) /\ x # th
         /\ Reader(x, t)' <=> Reader(x, t)
         /\ Fetching(x, t)' <=> Fetching(x, t)
         /\ (At(x, "submit") /\ call[x].req = t)'
               <=> (At(x, "submit") /\ call[x].req = t)
  BY <1>1, <1>3 DEF Creator, OwnsRequest, Holds, Reader, Fetching, At
<1>6. /\ pending' = pending /\ active' = active /\ next_id' = next_id
      /\ refcount' = refcount /\ bindings' = bindings /\ stopping' = stopping
      /\ waitq' = waitq /\ owner' = owner /\ dev_refs' = dev_refs
      /\ linked' = linked
      /\ Queued' = Queued /\ Range(pending)' = Range(pending)
      /\ resolved' = [resolved EXCEPT ![t0] = @ + 1]
  BY DEF GiveUrbBack, queueVars, Queued, Range
<1>7. /\ xfer' \in [Ids -> Transfer]
      /\ \A t \in Ids : xfer'[t].urb = xfer[t].urb /\ xfer'[t].device = xfer[t].device
  <2>1. xfer \in [Ids -> Transfer] /\ xfer[t0] \in Transfer
    BY <1>0 DEF Inv, TypeOK
  <2> DEFINE e == [xfer[t0] EXCEPT !.state = Ended(t0, s)]
  <2>2. Ended(t0, s) \in {"none", "queued", "completed", "cancelled"}
    BY <2>1 DEF Ended, Transfer
  <2>3. e \in Transfer /\ e.urb = xfer[t0].urb /\ e.device = xfer[t0].device
    BY <2>1, <2>2 DEF Transfer
  <2>4. xfer' = [xfer EXCEPT ![t0] = e]
    BY DEF GiveUrbBack
  <2> HIDE DEF e
  <2> QED
    BY <1>0, <2>1, <2>3, <2>4
<1>8. TypeOK'
  <2>1. urb' \in [Urbs -> {"host", "hcd"}]
    BY DEF Inv, TypeOK, GiveUrbBack
  <2>2. resolved' \in [Ids -> Nat]
    BY <1>0, <1>6 DEF Inv, TypeOK
  <2> QED
    BY <1>3, <1>6, <1>7, <2>1, <2>2 DEF Inv, TypeOK
<1>9. Locals'
  BY <1>1, <1>3, <1>6 DEF Inv, Locals, Carrying
<1>10. Lists' /\ Owners' /\ Fetchers' /\ Creators'
  BY <1>5, <1>6 DEF Inv, Lists, Owners, Fetchers, Creators, Range
<1>11. RefcountExact'
  BY <1>5, <1>6 DEF Inv, RefcountExact, One
<1>12. Live'
  BY <1>6, <1>7 DEF Inv, Live
<1>13. ExactlyOnce'
  <2>1. \A x \in Threads : Holds(x, t0) => x = th
    BY <1>0, <1>4 DEF Inv, Owners, OwnsRequest
  <2>2. resolved'[t0] = 1 /\ \A t \in Ids : t # t0 => resolved'[t] = resolved[t]
    BY <1>0, <1>4, <1>6 DEF Inv, TypeOK
  <2>3. ASSUME NEW t \in Ids, t # t0
        PROVE  \A x \in Threads : Holds(x, t)' <=> Holds(x, t)
    BY <1>5, <2>3 DEF Holds
  <2> QED
    BY <1>4, <1>5, <1>6, <2>1, <2>2, <2>3 DEF Inv, ExactlyOnce
<1>14. Fresh'
  <2>1. \A t \in Ids : t > next_id => t # t0 /\ resolved[t] = 0
    BY <1>0 DEF Inv, Fresh, Ids
  <2>2. \A t \in Ids : t # t0 => resolved'[t] = resolved[t]
    BY <1>0, <1>6 DEF Inv, TypeOK
  <2> QED
    BY <1>6, <2>1, <2>2 DEF Fresh
<1>15. Freed'
  <2>1. resolved'[t0] = 1 /\ \A t \in Ids : t # t0 => resolved'[t] = resolved[t]
    BY <1>0, <1>4, <1>6 DEF Inv, TypeOK
  <2>2. \A x \in Threads : At(x, "free") => call[x].req \in Ids
    BY RequestDrawn DEF Carrying, At
  <2> QED
    BY <1>1, <1>3, <2>1, <2>2 DEF Inv, Freed, At
<1> QED
  BY <1>8, <1>9, <1>10, <1>11, <1>12, <1>13, <1>14, <1>15 DEF Inv

-----------------------------------------------------------------------------
(* Steps that take a request out of a list.                                *)

\* Thread th takes request t out of whichever list it is in.
LEMMA TakeStep ==
    ASSUME Inv, DataTyped', NEW th \in Threads, NEW c \in Call, NEW t \in Ids,
           Enter(th, c), Plain(call[th]), t \in Queued,
           c.req = t,
           \/ c.pc = "complete" /\ c.ret = "idle"
           \/ c.pc = "giveback" /\ c.ret \in {"idle", "drain", "stopdrain"},
           next_id' = next_id, xfer' = xfer, refcount' = refcount,
           resolved' = resolved,
           Lists', Queued' = Queued \ {t}, Range(pending)' \subseteq Range(pending)
    PROVE  Inv'
<1>1. /\ TypeOK'
      /\ call'[th] = c
      /\ \A x \in Threads : x # th => call'[x] = call[x]
  BY Typing, EnterFacts DEF Inv, TypeOK, DataTyped
<1>2. \A x \in Threads, r \in Ids :
         /\ Creator(x, r)' <=> Creator(x, r)
         /\ OwnsRequest(x, r)' <=> OwnsRequest(x, r) \/ (x = th /\ r = t)
         /\ Holds(x, r)' <=> Holds(x, r) \/ (x = th /\ r = t)
         /\ Reader(x, r)' <=> Reader(x, r)
         /\ Fetching(x, r)' <=> Fetching(x, r)
         /\ (At(x, "submit") /\ call[x].req = r)'
               <=> (At(x, "submit") /\ call[x].req = r)
  BY <1>1 DEF Plain, Carrying, Creator, OwnsRequest, Holds, Reader, Fetching, At
<1>3. t <= next_id /\ resolved[t] = 0
  BY DEF Inv, ExactlyOnce
<1>4. \A x \in Threads : ~OwnsRequest(x, t) /\ ~Holds(x, t)
  BY DEF Inv, Owners, OwnsRequest
<1>5. Locals'
  <2>1. c.req \in 1..next_id
    BY <1>3, RequestDrawn DEF Ids
  <2> QED
    BY <1>1, <2>1 DEF Inv, Locals, Carrying
<1>6. Owners'
  BY <1>2, <1>4 DEF Inv, Owners
<1>7. Fetchers' /\ Creators'
  BY <1>2 DEF Inv, Fetchers, Creators
<1>8. RefcountExact'
  <2>1. ASSUME NEW r \in Ids
        PROVE  /\ (\E x \in Threads : Creator(x, r))' <=> \E x \in Threads : Creator(x, r)
               /\ (\E x \in Threads : Reader(x, r))' <=> \E x \in Threads : Reader(x, r)
               /\ (r \in Queued \/ \E x \in Threads : OwnsRequest(x, r))'
                     <=> (r \in Queued \/ \E x \in Threads : OwnsRequest(x, r))
    BY <1>2, <1>4
  <2>2. \A r \in Ids, x, y \in Threads :
           OwnsRequest(x, r)' /\ OwnsRequest(y, r)' => x = y
    BY <1>6 DEF Owners
  <2> QED
    BY <1>2, <2>1, <2>2 DEF Inv, RefcountExact, One
<1>9. Live' /\ Fresh'
  BY DEF Inv, Live, Fresh
<1>10. ExactlyOnce'
  <2>1. ASSUME NEW r \in Ids
        PROVE  (r \in Queued \/ \E x \in Threads : Holds(x, r))'
                     <=> (r \in Queued \/ \E x \in Threads : Holds(x, r))
    BY <1>2, <1>4
  <2> QED
    BY <2>1 DEF Inv, ExactlyOnce
<1>11. Freed'
  BY <1>1 DEF Inv, Freed, At
<1> QED
  BY <1>1, <1>5, <1>6, <1>7, <1>8, <1>9, <1>10, <1>11 DEF Inv

\* The places and locals with which the handlers take a request.
TakesAt(th, p, r) ==
    /\ call[th].pc \in {"idle", "drain", "stopdrain"}
    /\ \/ p = "complete" /\ r = "idle"
       \/ p = "giveback" /\ r \in {"idle", "drain", "stopdrain"}

\* Taking a request from the pending list under the lock keeps the invariant.
LEMMA TakePendingStep ==
    ASSUME Inv, NEW th \in Threads, NEW i \in DOMAIN pending,
           NEW f \in Files \cup {NoFile}, NEW p, NEW r, TakesAt(th, p, r),
           TakePending(th, i, f, p, r)
    PROVE  Inv'
<1> DEFINE t == pending[i]
           c == [call[th] EXCEPT !.pc = p, !.ret = r, !.req = t, !.file = f]
<1>1. call[th] \in Call /\ Plain(call[th])
  BY PlainBefore DEF TakesAt, Carrying
<1>2. t \in Ids /\ t \in Range(pending)
  BY DEF Inv, TypeOK, Range
<1>3. c \in Call /\ c.req = t /\ c.pc = p /\ c.ret = r
  BY <1>1, <1>2 DEF Call, Pcs, TakesAt
<1>4. Enter(th, c)
  BY DEF TakePending, TakeFrom
<1> HIDE DEF c
<1>5. /\ pending' \in Seq(Ids) /\ Range(pending') = Range(pending) \ {t}
      /\ IsInjective(pending')
  <2>1. pending \in Seq(Ids) /\ IsInjective(pending)
    BY DEF Inv, TypeOK, Lists, IsInjective
  <2> QED
    BY <2>1, WithoutFacts DEF TakePending
<1>6. Lists' /\ Queued' = Queued \ {t}
  BY <1>2, <1>5 DEF Inv, Lists, Queued, TakePending, IsInjective
<1>7. DataTyped'
  BY <1>5 DEF Inv, TypeOK, DataTyped, TakePending, TakeFrom, xferVars
<1> QED
  BY <1>1, <1>2, <1>3, <1>4, <1>5, <1>6, <1>7, TakeStep
  DEF TakesAt, TakePending, TakeFrom, xferVars, Queued

\* Taking a request from the active list under the lock keeps the invariant.
LEMMA TakeActiveStep ==
    ASSUME Inv, NEW th \in Threads, NEW i \in DOMAIN active,
           NEW f \in Files \cup {NoFile}, NEW p, NEW r, TakesAt(th, p, r),
           TakeActive(th, i, f, p, r)
    PROVE  Inv'
<1> DEFINE t == active[i]
           c == [call[th] EXCEPT !.pc = p, !.ret = r, !.req = t, !.file = f]
<1>1. call[th] \in Call /\ Plain(call[th])
  BY PlainBefore DEF TakesAt, Carrying
<1>2. t \in Ids /\ t \in Range(active)
  BY DEF Inv, TypeOK, Range
<1>3. c \in Call /\ c.req = t /\ c.pc = p /\ c.ret = r
  BY <1>1, <1>2 DEF Call, Pcs, TakesAt
<1>4. Enter(th, c)
  BY DEF TakeActive, TakeFrom
<1> HIDE DEF c
<1>5. /\ active' \in Seq(Ids) /\ Range(active') = Range(active) \ {t}
      /\ IsInjective(active')
  <2>1. active \in Seq(Ids) /\ IsInjective(active)
    BY DEF Inv, TypeOK, Lists, IsInjective
  <2> QED
    BY <2>1, WithoutFacts DEF TakeActive
<1>6. Lists' /\ Queued' = Queued \ {t} /\ Range(pending)' = Range(pending)
  BY <1>2, <1>5 DEF Inv, Lists, Queued, TakeActive, IsInjective
<1>7. DataTyped'
  BY <1>5 DEF Inv, TypeOK, DataTyped, TakeActive, TakeFrom, xferVars
<1> QED
  BY <1>1, <1>2, <1>3, <1>4, <1>5, <1>6, <1>7, TakeStep
  DEF TakesAt, TakeActive, TakeFrom, xferVars, Queued

\* virtusb_backend_cancel, up to its unlock, keeps the invariant.
LEMMA CancelStep ==
    ASSUME Inv, NEW th \in Threads, NEW u \in Urbs, Cancel(th, u)
    PROVE  Inv'
<1>1. TakesAt(th, "giveback", "idle")
  BY DEF TakesAt, Cancel, At
<1>2. CASE \E i \in DOMAIN pending : TakePending(th, i, NoFile, "giveback", "idle")
  BY <1>1, <1>2, TakePendingStep
<1>3. CASE \E i \in DOMAIN active : TakeActive(th, i, NoFile, "giveback", "idle")
  BY <1>1, <1>3, TakeActiveStep
<1> QED
  BY <1>2, <1>3 DEF Cancel

\* virtusb_backend_complete, up to its unlock, keeps the invariant.
LEMMA CompleteTakesStep ==
    ASSUME Inv, NEW th \in Threads, NEW f \in Files, NEW t \in Ids,
           CompleteTakes(th, f, t)
    PROVE  Inv'
<1>1. TakesAt(th, "complete", "idle")
  BY DEF TakesAt, CompleteTakes, At
<1>2. \E i \in DOMAIN active : TakeActive(th, i, f, "complete", "idle")
  BY DEF CompleteTakes, FindId
<1> QED
  BY <1>1, <1>2, TakeActiveStep

\* The end of a loop, and any other move between plain places.
LEMMA PlainGoto ==
    ASSUME Inv, NEW th \in Threads, call[th].pc \in {"drain", "stopdrain"},
           NEW p \in {"unbound", "unbind"}, Goto(th, p),
           UNCHANGED <<queueVars, waitq, xferVars, usbVars>>
    PROVE  Inv'
<1> DEFINE c == [call[th] EXCEPT !.pc = p]
<1>1. DataTyped'
  BY DEF Inv, TypeOK, DataTyped, queueVars, xferVars, usbVars
<1>2. call[th] \in Call /\ Plain(call[th]) /\ call[th].ret = "idle"
  BY PlainBefore DEF Carrying
<1>3. c \in Call /\ Plain(c)
  BY <1>2 DEF Call, Pcs, Plain, Carrying
<1>4. Enter(th, c)
  BY DEF Goto
<1> HIDE DEF c
<1> QED
  BY <1>1, <1>2, <1>3, <1>4, PlainStep DEF queueVars, xferVars, usbVars

\* A turn of the loop of virtusb_backend_release_owner keeps the invariant.
LEMMA DrainStep ==
    ASSUME Inv, NEW th \in Threads, Drain(th)
    PROVE  Inv'
<1>1. /\ call[th].pc = "drain" /\ call[th].file \in Files \cup {NoFile}
      /\ TakesAt(th, "giveback", "drain")
  BY Typing DEF Inv, Call, TakesAt, Drain, At
<1>2. CASE \E i \in FirstPending(call[th].device) :
              TakePending(th, i, call[th].file, "giveback", "drain")
  BY <1>1, <1>2, TakePendingStep DEF FirstPending
<1>3. CASE \E i \in FirstActive(call[th].device, call[th].file) :
              TakeActive(th, i, call[th].file, "giveback", "drain")
  BY <1>1, <1>3, TakeActiveStep DEF FirstActive
<1>4. CASE Goto(th, "unbound") /\ UNCHANGED <<queueVars, waitq, xferVars, usbVars>>
  BY <1>1, <1>4, PlainGoto
<1> QED
  BY <1>2, <1>3, <1>4 DEF Drain

\* A turn of the loop of virtusb_backend_stop keeps the invariant.
LEMMA StopDrainStep ==
    ASSUME Inv, NEW th \in Threads, StopDrain(th)
    PROVE  Inv'
<1>1. call[th].pc = "stopdrain" /\ TakesAt(th, "giveback", "stopdrain")
  BY DEF TakesAt, StopDrain, At
<1>2. CASE pending # <<>> /\ TakePending(th, 1, NoFile, "giveback", "stopdrain")
  <2>1. 1 \in DOMAIN pending
    BY <1>2 DEF Inv, TypeOK
  <2> QED
    BY <1>1, <1>2, <2>1, TakePendingStep
<1>3. CASE active # <<>> /\ TakeActive(th, 1, NoFile, "giveback", "stopdrain")
  <2>1. 1 \in DOMAIN active
    BY <1>3 DEF Inv, TypeOK
  <2> QED
    BY <1>1, <1>3, <2>1, TakeActiveStep
<1>4. CASE Goto(th, "unbind") /\ UNCHANGED <<queueVars, waitq, xferVars, usbVars>>
  BY <1>1, <1>4, PlainGoto
<1> QED
  BY <1>2, <1>3, <1>4 DEF StopDrain

-----------------------------------------------------------------------------
(* Steps that drop a reference.                                            *)

\* What virtusb_transfer_put does to the references of transfers.
LEMMA PutFacts ==
    ASSUME Inv, NEW t \in Ids, Put(t)
    PROVE  /\ refcount' \in [Ids -> Int]
           /\ refcount'[t] = refcount[t] - 1
           /\ \A r \in Ids : r # t => refcount'[r] = refcount[r]
           /\ xfer' \in [Ids -> Transfer]
           /\ dev_refs' \in [Devices -> Int]
           /\ Live'
<1>1. /\ refcount \in [Ids -> Int] /\ xfer \in [Ids -> Transfer]
      /\ dev_refs \in [Devices -> Int]
  BY DEF Inv, TypeOK
<1>2. /\ refcount' \in [Ids -> Int]
      /\ refcount'[t] = refcount[t] - 1
      /\ \A r \in Ids : r # t => refcount'[r] = refcount[r]
  BY <1>1 DEF Put
<1>3. /\ xfer' \in [Ids -> Transfer]
      /\ \A r \in Ids : xfer'[r] = xfer[r] \/ (r = t /\ refcount[t] = 1)
  <2>1. NoTransfer \in Transfer
    BY DEF NoTransfer, Transfer
  <2> QED
    BY <1>1, <2>1 DEF Put
<1>4. dev_refs' \in [Devices -> Int]
  BY <1>1, Lowered DEF Put
<1>5. Live'
  <2>1. \A r \in Ids : refcount'[r] > 0 => refcount[r] > 0 /\ xfer'[r] = xfer[r]
    BY <1>1, <1>2, <1>3
  <2> QED
    BY <2>1 DEF Inv, Live
<1> QED
  BY <1>2, <1>3, <1>4, <1>5

\* The creator, the request's owner or a fetch drops its reference.
LEMMA DropStep ==
    ASSUME Inv, DataTyped', NEW th \in Threads, NEW c \in Call, Enter(th, c),
           NEW t \in Ids, call[th].req = t,
           call[th].pc \in {"free", "put", "copy"}, Put(t),
           c.ret = "idle",
           \/ c.pc \notin Carrying /\ c.pc # "wake"
           \/ call[th].pc = "copy" /\ c.pc = "rollback" /\ c.req = t,
           pending' = pending, active' = active, next_id' = next_id,
           resolved' = resolved
    PROVE  Inv'
<1>1. /\ TypeOK'
      /\ call'[th] = c
      /\ \A x \in Threads : x # th => call'[x] = call[x]
  BY Typing, EnterFacts DEF Inv, TypeOK, DataTyped
<1>2. t \in Ids /\ t <= next_id /\ next_id \in Nat
  BY RequestDrawn DEF Carrying
<1>3. Queued' = Queued /\ Range(pending)' = Range(pending)
  BY DEF Queued
<1>4. \A x \in Threads, r \in Ids :
         /\ Creator(x, r)' <=> Creator(x, r) /\ x # th
         /\ OwnsRequest(x, r)' <=> OwnsRequest(x, r) /\ x # th
         /\ Holds(x, r)' <=> Holds(x, r)
         /\ Reader(x, r)' <=> Reader(x, r) /\ x # th
         /\ Fetching(x, r)' => Fetching(x, r)
         /\ (At(x, "submit") /\ call[x].req = r)'
               <=> (At(x, "submit") /\ call[x].req = r)
  BY <1>1 DEF Carrying, Creator, OwnsRequest, Holds, Reader, Fetching, At
<1>5. Locals'
  <2>1. c.pc \in Carrying => c.req \in 1..next_id
    BY <1>2 DEF Carrying, Ids
  <2> QED
    BY <1>1, <2>1 DEF Inv, Locals
<1>6. Owners' /\ Fetchers' /\ Creators'
  BY <1>3, <1>4 DEF Inv, Owners, Fetchers, Creators
<1>7. Lists' /\ Fresh'
  BY DEF Inv, Lists, Fresh
<1>8. RefcountExact'
  <2> DEFINE A(r) == \E x \in Threads : Creator(x, r)
             B(r) == r \in Queued \/ \E x \in Threads : OwnsRequest(x, r)
             R(r) == \E x \in Threads : Reader(x, r)
  <2>1. \A r \in Ids : r # t => (A(r)' <=> A(r)) /\ (B(r)' <=> B(r)) /\ (R(r)' <=> R(r))
    <3>1. \A r \in Ids : r # t => ~Creator(th, r) /\ ~OwnsRequest(th, r) /\ ~Reader(th, r)
      BY DEF Creator, OwnsRequest, Holds, Reader
    <3> QED
      BY <1>3, <1>4, <3>1
  <2>2. \A r \in Ids, x, y \in Threads :
           /\ Creator(x, r) /\ Creator(y, r) => x = y
           /\ OwnsRequest(x, r) /\ OwnsRequest(y, r) => x = y /\ r \notin Queued
           /\ Reader(x, r) /\ Reader(y, r) => x = y
    BY DEF Inv, RefcountExact, Owners
  <2>3. refcount'[t] = One(A(t)') + One(B(t)') + One(R(t)')
    <3>1. refcount[t] = One(A(t)) + One(B(t)) + One(R(t))
      BY <1>2 DEF Inv, RefcountExact
    <3>2. refcount'[t] = refcount[t] - 1
      BY <1>2, PutFacts
    <3>3. CASE call[th].pc = "put"
      <4>1. Creator(th, t) /\ ~OwnsRequest(th, t) /\ ~Reader(th, t)
        BY <3>3 DEF Creator, OwnsRequest, Holds, Reader, At
      <4>2. A(t) /\ ~A(t)' /\ (B(t)' <=> B(t)) /\ (R(t)' <=> R(t))
        BY <1>2, <1>3, <1>4, <2>2, <4>1
      <4> QED
        BY <3>1, <3>2, <4>2 DEF One
    <3>4. CASE call[th].pc = "free"
      <4>1. ~Creator(th, t) /\ OwnsRequest(th, t) /\ ~Reader(th, t)
        BY <3>4 DEF Creator, OwnsRequest, Holds, Reader, At
      <4>2. B(t) /\ ~B(t)' /\ (A(t)' <=> A(t)) /\ (R(t)' <=> R(t))
        BY <1>2, <1>3, <1>4, <2>2, <4>1
      <4> QED
        BY <3>1, <3>2, <4>2 DEF One
    <3>5. CASE call[th].pc = "copy"
      <4>1. ~Creator(th, t) /\ ~OwnsRequest(th, t) /\ Reader(th, t)
        BY <3>5 DEF Creator, OwnsRequest, Holds, Reader, At
      <4>2. R(t) /\ ~R(t)' /\ (A(t)' <=> A(t)) /\ (B(t)' <=> B(t))
        BY <1>2, <1>3, <1>4, <2>2, <4>1
      <4> QED
        BY <3>1, <3>2, <4>2 DEF One
    <3> QED
      BY <3>3, <3>4, <3>5
  <2>4. \A r \in Ids : r # t =>
           /\ refcount'[r] = refcount[r]
           /\ refcount[r] = One(A(r)) + One(B(r)) + One(R(r))
    BY <1>2, PutFacts DEF Inv, RefcountExact
  <2>5. \A r \in Ids : refcount'[r] = One(A(r)') + One(B(r)') + One(R(r)')
    <3> HIDE DEF A, B, R
    <3> QED
      BY <2>1, <2>3, <2>4 DEF One
  <2>6. \A r \in Ids, x, y \in Threads :
           /\ Creator(x, r)' /\ Creator(y, r)' => x = y
           /\ OwnsRequest(x, r)' /\ OwnsRequest(y, r)' => x = y
           /\ Reader(x, r)' /\ Reader(y, r)' => x = y
    BY <1>4, <2>2
  <2> QED
    BY <2>5, <2>6 DEF RefcountExact
<1>9. Live'
  BY <1>2, PutFacts
<1>10. ExactlyOnce'
  BY <1>3, <1>4 DEF Inv, ExactlyOnce
<1>11. Freed'
  BY <1>1 DEF Inv, Freed, At, Carrying
<1> QED
  BY <1>1, <1>5, <1>6, <1>7, <1>8, <1>9, <1>10, <1>11 DEF Inv

\* Freeing a request (virtusb_backend_release_request) keeps the invariant.
LEMMA ReleaseRequestStep ==
    ASSUME Inv, NEW th \in Threads, ReleaseRequest(th)
    PROVE  Inv'
<1> DEFINE t == call[th].req
           c1 == [call[th] EXCEPT !.pc = call[th].ret, !.ret = "idle", !.req = NoId]
<1>1. call[th] \in Call /\ call[th].pc = "free"
  BY Typing DEF Inv, ReleaseRequest, At
<1>2. t \in Ids /\ Put(t)
  BY <1>1, RequestDrawn DEF Carrying, ReleaseRequest
<1>3. call[th].ret \in {"idle", "drain", "stopdrain"}
  <2>1. call[th].ret \in {"idle", "put", "drain", "stopdrain"}
    BY <1>1 DEF Call
  <2> QED
    BY <1>1, <2>1 DEF Inv, Locals
<1>4. DataTyped'
  <2>1. owner' \in [Ids -> Files \cup {NoFile}]
    BY DEF Inv, TypeOK, ReleaseRequest
  <2> QED
    BY <1>2, <2>1, PutFacts
    DEF Inv, TypeOK, DataTyped, ReleaseRequest, queueVars, usbVars
<1>5. CASE call[th].ret = "idle"
  <2>1. Idle \in Call /\ Idle.pc = "idle" /\ Idle.ret = "idle"
    BY DEF Call, Pcs, Idle, NoId
  <2>2. Enter(th, Idle)
    BY <1>5 DEF ReleaseRequest, Resume, Return
  <2> QED
    BY <1>1, <1>2, <1>4, <2>1, <2>2, DropStep
    DEF ReleaseRequest, queueVars, usbVars, Carrying
<1>6. CASE call[th].ret # "idle"
  <2>1. c1 \in Call /\ c1.pc = call[th].ret /\ c1.ret = "idle"
    BY <1>1, <1>3 DEF Call, Pcs
  <2>2. Enter(th, c1)
    BY <1>6 DEF ReleaseRequest, Resume
  <2> HIDE DEF c1
  <2> QED
    BY <1>1, <1>2, <1>3, <1>4, <2>1, <2>2, DropStep
    DEF ReleaseRequest, queueVars, usbVars, Carrying
<1> QED
  BY <1>5, <1>6

\* urb_enqueue dropping its reference keeps the invariant.
LEMMA PutCreatorRefStep ==
    ASSUME Inv, NEW th \in Threads, PutCreatorRef(th)
    PROVE  Inv'
<1>1. call[th].pc = "put" /\ Put(call[th].req) /\ Enter(th, Idle)
  BY DEF PutCreatorRef, At, Return
<1>2. call[th].req \in Ids
  BY <1>1, RequestDrawn DEF Carrying
<1>3. DataTyped'
  BY <1>1, <1>2, PutFacts
  DEF Inv, TypeOK, DataTyped, PutCreatorRef, queueVars, usbVars
<1>4. Idle \in Call /\ Idle.pc = "idle" /\ Idle.ret = "idle"
  BY DEF Call, Pcs, Idle, NoId
<1> QED
  BY <1>1, <1>2, <1>3, <1>4, DropStep DEF PutCreatorRef, queueVars, usbVars, Carrying

\* A fetch that has copied the transfer out keeps the invariant.
LEMMA FetchCopiesStep ==
    ASSUME Inv, NEW th \in Threads, FetchCopies(th)
    PROVE  Inv'
<1> DEFINE c == [call[th] EXCEPT !.pc = "rollback"]
<1>1. /\ call[th].pc = "copy" /\ Put(call[th].req)
      /\ Enter(th, Idle) \/ Enter(th, c)
  BY DEF FetchCopies, At, Return, Goto
<1>2. call[th].req \in Ids
  BY <1>1, RequestDrawn DEF Carrying
<1>3. DataTyped'
  BY <1>1, <1>2, PutFacts
  DEF Inv, TypeOK, DataTyped, FetchCopies, queueVars, usbVars
<1>4. Idle \in Call /\ Idle.pc = "idle" /\ Idle.ret = "idle"
  BY DEF Call, Pcs, Idle, NoId
<1>5. c \in Call /\ c.pc = "rollback" /\ c.ret = "idle" /\ c.req = call[th].req
  <2>1. call[th] \in Call
    BY Typing DEF Inv
  <2>2. call[th].ret = "idle"
    BY <1>1, <2>1 DEF Call, Inv, Locals
  <2> QED
    BY <2>1, <2>2 DEF Call, Pcs
<1> HIDE DEF c
<1> QED
  BY <1>1, <1>2, <1>3, <1>4, <1>5, DropStep DEF FetchCopies, queueVars, usbVars, Carrying

-----------------------------------------------------------------------------
(* Steps of a submission.                                                  *)

\* No thread and no list knows an id that was not drawn yet.
LEMMA UnknownId ==
    ASSUME Inv, NEW t \in Ids, t > next_id
    PROVE  /\ t \notin Queued /\ resolved[t] = 0
           /\ \A x \in Threads : /\ ~Creator(x, t) /\ ~OwnsRequest(x, t)
                                 /\ ~Holds(x, t) /\ ~Reader(x, t) /\ ~Fetching(x, t)
                                 /\ ~(At(x, "submit") /\ call[x].req = t)
<1>1. next_id \in Nat /\ t \in Nat
  BY RequestDrawn DEF Ids
<1>2. ~(t <= next_id)
  BY <1>1
<1>3. \A x \in Threads : call[x].req = t =>
         call[x].pc \notin Carrying /\ call[x].ret # "put"
  BY <1>2, RequestDrawn
<1>4. t \notin Queued
  BY <1>2 DEF Inv, ExactlyOnce
<1> QED
  BY <1>3, <1>4 DEF Inv, Fresh, Creator, OwnsRequest, Holds, Reader, Fetching,
                    Carrying, At

\* urb_enqueue creating a transfer and linking the URB keeps the invariant.
LEMMA EnqueueStep ==
    ASSUME Inv, NEW th \in Threads, NEW u \in Urbs, NEW d \in Devices,
           NEW t, t = next_id + 1, Enqueue(th, u, d)
    PROVE  Inv'
<1> DEFINE c == [call[th] EXCEPT !.pc = "submit", !.req = t]
<1>0. t \in Ids /\ t > next_id /\ next_id \in Nat /\ next_id <= MaxTransfers
  BY RequestDrawn DEF Enqueue, Ids
<1>1. call[th] \in Call /\ Plain(call[th]) /\ call[th].ret = "idle"
  BY PlainBefore DEF Enqueue, At, Carrying
<1>2. c \in Call /\ c.pc = "submit" /\ c.req = t /\ c.ret = "idle"
  BY <1>0, <1>1 DEF Call, Pcs
<1>3. Enter(th, c)
  BY DEF Enqueue
<1> HIDE DEF c
<1>4. /\ call' \in [Threads -> Call]
      /\ call'[th] = c
      /\ \A x \in Threads : x # th => call'[x] = call[x]
  BY <1>2, <1>3, Typing, EnterFacts DEF Inv
<1>5. /\ pending' = pending /\ active' = active /\ next_id' = t
      /\ resolved' = resolved
      /\ Queued' = Queued /\ Range(pending)' = Range(pending)
  BY DEF Enqueue, queueVars, Queued
<1>6. /\ refcount' \in [Ids -> Int] /\ refcount'[t] = 2
      /\ \A r \in Ids : r # t => refcount'[r] = refcount[r]
  BY <1>0 DEF Enqueue, Inv, TypeOK
<1>7. /\ xfer' \in [Ids -> Transfer]
      /\ xfer'[t].urb = u /\ xfer'[t].device = d
      /\ \A r \in Ids : r # t => xfer'[r] = xfer[r]
  <2>1. NewTransfer(u, d) \in Transfer
    BY DEF NewTransfer, Transfer
  <2>2. xfer' = [xfer EXCEPT ![t] = NewTransfer(u, d)] /\ xfer \in [Ids -> Transfer]
    BY DEF Enqueue, Inv, TypeOK
  <2>3. NewTransfer(u, d).urb = u /\ NewTransfer(u, d).device = d
    BY DEF NewTransfer
  <2> HIDE DEF NewTransfer
  <2> QED
    BY <1>0, <2>1, <2>2, <2>3
<1>8. TypeOK'
  <2>1. t \in 0..MaxTransfers
    BY <1>0 DEF Ids
  <2>2. dev_refs' \in [Devices -> Int] /\ urb' \in [Urbs -> {"host", "hcd"}]
    BY DEF Enqueue, Inv, TypeOK
  <2> QED
    BY <1>4, <1>5, <1>6, <1>7, <2>1, <2>2 DEF Enqueue, Inv, TypeOK, queueVars
<1>9. \A x \in Threads, r \in Ids :
         /\ Creator(x, r)' <=> Creator(x, r) \/ (x = th /\ r = t)
         /\ OwnsRequest(x, r)' <=> OwnsRequest(x, r) \/ (x = th /\ r = t)
         /\ Holds(x, r)' <=> Holds(x, r) \/ (x = th /\ r = t)
         /\ Reader(x, r)' <=> Reader(x, r)
         /\ Fetching(x, r)' <=> Fetching(x, r)
         /\ (At(x, "submit") /\ call[x].req = r)'
               <=> (At(x, "submit") /\ call[x].req = r) \/ (x = th /\ r = t)
  BY <1>1, <1>2, <1>4
  DEF Plain, Carrying, Creator, OwnsRequest, Holds, Reader, Fetching, At
<1>10. Locals'
  <2>1. \A n \in 1..next_id : n \in 1..t
    BY <1>0
  <2>2. t \in 1..t
    BY <1>0
  <2> QED
    BY <1>2, <1>4, <1>5, <2>1, <2>2 DEF Inv, Locals, Carrying
<1>11. Lists'
  BY <1>5 DEF Inv, Lists
<1>12. Owners' /\ Fetchers' /\ Creators'
  <2>1. /\ t \notin Queued
        /\ \A x \in Threads : ~Creator(x, t) /\ ~OwnsRequest(x, t) /\ ~Fetching(x, t)
    BY <1>0, UnknownId
  <2> QED
    BY <1>0, <1>5, <1>9, <2>1 DEF Inv, Owners, Fetchers, Creators
<1>13. RefcountExact'
  <2> DEFINE A(r) == \E x \in Threads : Creator(x, r)
             B(r) == r \in Queued \/ \E x \in Threads : OwnsRequest(x, r)
             R(r) == \E x \in Threads : Reader(x, r)
  <2>1. \A r \in Ids : r # t => (A(r)' <=> A(r)) /\ (B(r)' <=> B(r)) /\ (R(r)' <=> R(r))
    BY <1>5, <1>9
  <2>2. A(t)' /\ B(t)' /\ ~R(t)'
    BY <1>0, <1>9, UnknownId
  <2>3. \A r \in Ids : refcount[r] = One(A(r)) + One(B(r)) + One(R(r))
    BY DEF Inv, RefcountExact
  <2>4. \A r \in Ids : refcount'[r] = One(A(r)') + One(B(r)') + One(R(r)')
    <3> HIDE DEF A, B, R
    <3> QED
      BY <1>6, <2>1, <2>2, <2>3 DEF One
  <2>5. \A r \in Ids, x, y \in Threads : Reader(x, r)' /\ Reader(y, r)' => x = y
    BY <1>9 DEF Inv, RefcountExact
  <2> QED
    BY <1>12, <2>4, <2>5 DEF RefcountExact, Owners, Creators
<1>14. Live'
  BY <1>6, <1>7 DEF Inv, Live
<1>15. ExactlyOnce'
  <2>1. \A r \in Ids : r # t => (r <= t <=> r <= next_id)
    BY <1>0 DEF Ids
  <2>2. resolved[t] = 0 /\ t <= t
    BY <1>0, UnknownId
  <2> QED
    BY <1>5, <1>9, <2>1, <2>2 DEF Inv, ExactlyOnce
<1>16. Fresh'
  <2>1. \A r \in Ids : r > t => r > next_id
    BY <1>0 DEF Ids
  <2> QED
    BY <1>5, <2>1 DEF Inv, Fresh
<1>17. Freed'
  BY <1>2, <1>4, <1>5 DEF Inv, Freed, At
<1> QED
  BY <1>8, <1>10, <1>11, <1>12, <1>13, <1>14, <1>15, <1>16, <1>17 DEF Inv

\* urb_enqueue failing before the submission keeps the invariant.
LEMMA EnqueueFailsStep ==
    ASSUME Inv, NEW th \in Threads, NEW u \in Urbs,
           NEW t, t = next_id + 1, EnqueueFails(th, u)
    PROVE  Inv'
<1>0. t \in Ids /\ t > next_id /\ next_id \in Nat
  BY RequestDrawn DEF EnqueueFails, Ids
<1>1. /\ pending' = pending /\ active' = active /\ next_id' = t
      /\ xfer' = xfer /\ refcount' = refcount /\ call' = call
      /\ Queued' = Queued /\ Range(pending)' = Range(pending)
  BY DEF EnqueueFails, queueVars, Queued
<1>2. /\ resolved' \in [Ids -> Nat] /\ resolved'[t] = 1
      /\ \A r \in Ids : r # t => resolved'[r] = resolved[r]
  <2>1. resolved[t] = 0 /\ resolved \in [Ids -> Nat]
    BY <1>0, UnknownId DEF Inv, TypeOK
  <2>2. resolved' = [resolved EXCEPT ![t] = @ + 1]
    BY DEF EnqueueFails
  <2> QED
    BY <1>0, <2>1, <2>2
<1>3. TypeOK'
  <2>1. t \in 0..MaxTransfers
    BY <1>0 DEF Ids
  <2> QED
    BY <1>1, <1>2, <2>1 DEF EnqueueFails, Inv, TypeOK, queueVars
<1>4. \A r : \A x \in Threads :
         /\ Creator(x, r)' <=> Creator(x, r)
         /\ OwnsRequest(x, r)' <=> OwnsRequest(x, r)
         /\ Holds(x, r)' <=> Holds(x, r)
         /\ Reader(x, r)' <=> Reader(x, r)
         /\ Fetching(x, r)' <=> Fetching(x, r)
         /\ At(x, "submit")' <=> At(x, "submit")
  BY <1>1 DEF Creator, OwnsRequest, Holds, Reader, Fetching, At
<1>5. Locals'
  <2>1. \A n \in 1..next_id : n \in 1..t
    BY <1>0
  <2> QED
    BY <1>1, <2>1 DEF Inv, Locals
<1>6. Lists' /\ Live'
  BY <1>1 DEF Inv, Lists, Live
<1>7. Owners' /\ Fetchers' /\ Creators'
  BY <1>1, <1>4 DEF Inv, Owners, Fetchers, Creators
<1>8. RefcountExact'
  BY <1>1, <1>4 DEF Inv, RefcountExact, One
<1>9. ExactlyOnce'
  <2>1. \A r \in Ids : r # t => (r <= t <=> r <= next_id)
    BY <1>0 DEF Ids
  <2>2. t \notin Queued /\ \A x \in Threads : ~Holds(x, t)
    BY <1>0, UnknownId
  <2> QED
    BY <1>1, <1>2, <1>4, <2>1, <2>2 DEF Inv, ExactlyOnce
<1>10. Fresh'
  <2>1. \A r \in Ids : r > t => r > next_id /\ r # t
    BY <1>0 DEF Ids
  <2> QED
    BY <1>1, <1>2, <2>1 DEF Inv, Fresh
<1>11. Freed'
  <2>1. \A x \in Threads : At(x, "free") => call[x].req \in Ids /\ call[x].req # t
    <3>1. ~(t <= next_id)
      BY <1>0
    <3> QED
      BY <3>1, RequestDrawn DEF At, Carrying
  <2> QED
    BY <1>1, <1>2, <2>1 DEF Inv, Freed, At
<1> QED
  BY <1>3, <1>5, <1>6, <1>7, <1>8, <1>9, <1>10, <1>11 DEF Inv

\* What the reference count says of a request somebody has.
LEMMA Referenced ==
    ASSUME Inv, NEW t \in Ids
    PROVE  /\ t \in Queued \/ (\E x \in Threads : OwnsRequest(x, t))
                 => refcount[t] > 0
           /\ (/\ \E x \in Threads : Creator(x, t)
               /\ \E x \in Threads : OwnsRequest(x, t)
               /\ \A x \in Threads : ~Reader(x, t))
                 => refcount[t] = 2
<1> DEFINE A == \E x \in Threads : Creator(x, t)
           B == t \in Queued \/ \E x \in Threads : OwnsRequest(x, t)
           R == \E x \in Threads : Reader(x, t)
<1>1. refcount[t] = One(A) + One(B) + One(R)
  BY DEF Inv, RefcountExact
<1>2. (B => refcount[t] > 0) /\ (A /\ B /\ ~R => refcount[t] = 2)
  <2> HIDE DEF A, B, R
  <2> QED
    BY <1>1 DEF One
<1> QED
  BY <1>2

\* The request goes into the pending list; its creator keeps a reference.
LEMMA SubmitQueuesStep ==
    ASSUME Inv, NEW th \in Threads, NEW t, t = call[th].req, SubmitQueues(th)
    PROVE  Inv'
<1> DEFINE c == [call[th] EXCEPT !.pc = "wake", !.ret = "put"]
<1>0. /\ call[th] \in Call /\ call[th].pc = "submit"
      /\ t \in Ids /\ t <= next_id /\ next_id \in Nat
  BY Typing, RequestDrawn DEF Inv, SubmitQueues, At, Carrying
<1>1. c \in Call /\ c.pc = "wake" /\ c.ret = "put" /\ c.req = t
  BY <1>0 DEF Call, Pcs
<1>2. Enter(th, c)
  BY DEF SubmitQueues
<1> HIDE DEF c
<1>3. /\ call' \in [Threads -> Call]
      /\ call'[th] = c
      /\ \A x \in Threads : x # th => call'[x] = call[x]
  BY <1>1, <1>2, Typing, EnterFacts DEF Inv
<1>4. /\ Holds(th, t) /\ OwnsRequest(th, t) /\ t \notin Queued
      /\ \A x \in Threads : /\ OwnsRequest(x, t) => x = th
                            /\ ~Fetching(x, t)
  <2>1. Holds(th, t) /\ OwnsRequest(th, t) /\ At(th, "submit")
    BY <1>0 DEF Holds, OwnsRequest, At
  <2> QED
    BY <1>0, <2>1 DEF Inv, Owners, Fetchers
<1>5. /\ active' = active /\ next_id' = next_id /\ xfer' = xfer
      /\ refcount' = refcount /\ resolved' = resolved
      /\ pending' = Append(pending, t)
  BY DEF SubmitQueues, xferVars
<1>6. /\ pending' \in Seq(Ids) /\ Range(pending') = Range(pending) \cup {t}
      /\ IsInjective(pending')
  <2>1. pending \in Seq(Ids) /\ IsInjective(pending) /\ t \notin Range(pending)
    BY <1>4 DEF Inv, TypeOK, Lists, IsInjective, Queued
  <2> QED
    BY <1>0, <1>5, <2>1, AppendFacts
<1>7. Lists' /\ Queued' = Queued \cup {t}
  BY <1>4, <1>5, <1>6 DEF Inv, Lists, Queued, IsInjective
<1>8. TypeOK'
  <2>1. xfer[t].urb \in Urbs
    <3>1. refcount[t] > 0
      BY <1>0, <1>4, Referenced
    <3> QED
      BY <1>0, <3>1 DEF Inv, Live
  <2>2. linked' \subseteq Urbs
    BY <2>1 DEF SubmitQueues, Inv, TypeOK
  <2> QED
    BY <1>3, <1>6, <2>2 DEF SubmitQueues, Inv, TypeOK, xferVars
<1>9. \A x \in Threads, r \in Ids :
         /\ Creator(x, r)' <=> Creator(x, r)
         /\ OwnsRequest(x, r)' <=> OwnsRequest(x, r) /\ x # th
         /\ Holds(x, r)' <=> Holds(x, r) /\ x # th
         /\ Reader(x, r)' <=> Reader(x, r)
         /\ Fetching(x, r)' <=> Fetching(x, r)
         /\ (At(x, "submit") /\ call[x].req = r)'
               => (At(x, "submit") /\ call[x].req = r)
  BY <1>0, <1>1, <1>3 DEF Creator, OwnsRequest, Holds, Reader, Fetching, At
<1>10. \A r \in Ids : r # t => ~OwnsRequest(th, r) /\ ~Holds(th, r)
  BY DEF OwnsRequest, Holds
<1>11. Locals'
  <2>1. t \in 1..next_id
    BY <1>0 DEF Ids
  <2> QED
    BY <1>1, <1>3, <1>5, <2>1 DEF Inv, Locals, Carrying
<1>12. Owners' /\ Fetchers' /\ Creators'
  BY <1>4, <1>6, <1>7, <1>9 DEF Inv, Owners, Fetchers, Creators
<1>13. RefcountExact'
  <2>1. ASSUME NEW r \in Ids
        PROVE  /\ (\E x \in Threads : Creator(x, r))' <=> \E x \in Threads : Creator(x, r)
               /\ (\E x \in Threads : Reader(x, r))' <=> \E x \in Threads : Reader(x, r)
               /\ (r \in Queued \/ \E x \in Threads : OwnsRequest(x, r))'
                     <=> (r \in Queued \/ \E x \in Threads : OwnsRequest(x, r))
    BY <1>4, <1>7, <1>9, <1>10
  <2> QED
    BY <1>5, <1>9, <2>1 DEF Inv, RefcountExact, One
<1>14. Live' /\ Fresh'
  BY <1>5 DEF Inv, Live, Fresh
<1>15. ExactlyOnce'
  <2>1. ASSUME NEW r \in Ids
        PROVE  (r \in Queued \/ \E x \in Threads : Holds(x, r))'
                     <=> (r \in Queued \/ \E x \in Threads : Holds(x, r))
    BY <1>4, <1>7, <1>9, <1>10
  <2> QED
    BY <1>5, <2>1 DEF Inv, ExactlyOnce
<1>16. Freed'
  BY <1>1, <1>3, <1>5 DEF Inv, Freed, At
<1> QED
  BY <1>7, <1>8, <1>11, <1>12, <1>13, <1>14, <1>15, <1>16 DEF Inv

\* Both references go, and nobody else has one.
LEMMA SubmitFailsStep ==
    ASSUME Inv, NEW th \in Threads, NEW t, t = call[th].req, SubmitFails(th)
    PROVE  Inv'
<1>0. /\ call[th] \in Call /\ call[th].pc = "submit"
      /\ t \in Ids /\ t <= next_id /\ next_id \in Nat
  BY Typing, RequestDrawn DEF Inv, SubmitFails, At, Carrying
<1>1. Idle \in Call /\ Idle.pc = "idle" /\ Idle.ret = "idle" /\ Enter(th, Idle)
  BY DEF Call, Pcs, Idle, NoId, SubmitFails, Return
<1>3. /\ call' \in [Threads -> Call]
      /\ call'[th] = Idle
      /\ \A x \in Threads : x # th => call'[x] = call[x]
  BY <1>1, Typing, EnterFacts DEF Inv
<1>4. /\ Holds(th, t) /\ OwnsRequest(th, t) /\ Creator(th, t) /\ t \notin Queued
      /\ \A x \in Threads : /\ OwnsRequest(x, t) => x = th
                            /\ Creator(x, t) => x = th
                            /\ ~Reader(x, t)
  <2>1. Holds(th, t) /\ OwnsRequest(th, t) /\ At(th, "submit") /\ Creator(th, t)
    BY <1>0 DEF Holds, OwnsRequest, At, Creator
  <2>2. \A x \in Threads : ~Fetching(x, t)
    BY <1>0, <2>1 DEF Inv, Fetchers
  <2> QED
    BY <1>0, <2>1, <2>2 DEF Inv, Owners, Creators, Reader, Fetching, At
<1>5. /\ pending' = pending /\ active' = active /\ next_id' = next_id
      /\ Queued' = Queued /\ Range(pending)' = Range(pending)
  BY DEF SubmitFails, queueVars, Queued
<1>6. /\ resolved' \in [Ids -> Nat] /\ resolved'[t] = 1
      /\ \A r \in Ids : r # t => resolved'[r] = resolved[r]
  <2>1. resolved[t] = 0 /\ resolved \in [Ids -> Nat]
    BY <1>0, <1>4 DEF Inv, TypeOK, ExactlyOnce
  <2>2. resolved' = [resolved EXCEPT ![t] = @ + 1]
    BY DEF SubmitFails
  <2> QED
    BY <1>0, <2>1, <2>2
<1>7. /\ refcount' \in [Ids -> Int] /\ refcount'[t] = 0
      /\ \A r \in Ids : r # t => refcount'[r] = refcount[r]
  <2>1. refcount[t] = 2 /\ refcount \in [Ids -> Int]
    BY <1>0, <1>4, Referenced DEF Inv, TypeOK
  <2>2. refcount' = [refcount EXCEPT ![t] = @ - 2]
    BY DEF SubmitFails
  <2> QED
    BY <1>0, <2>1, <2>2
<1>8. /\ xfer' \in [Ids -> Transfer]
      /\ \A r \in Ids : r # t => xfer'[r] = xfer[r]
  <2>1. NoTransfer \in Transfer
    BY DEF NoTransfer, Transfer
  <2> QED
    BY <1>0, <2>1 DEF SubmitFails, Inv, TypeOK
<1>9. TypeOK'
  <2>1. dev_refs' \in [Devices -> Int]
    BY Lowered DEF SubmitFails, Inv, TypeOK
  <2>2. urb' \in [Urbs -> {"host", "hcd"}]
    BY DEF SubmitFails, Inv, TypeOK
  <2> QED
    BY <1>3, <1>6, <1>7, <1>8, <2>1, <2>2 DEF SubmitFails, Inv, TypeOK, queueVars
<1>10. \A x \in Threads, r \in Ids :
         /\ Creator(x, r)' <=> Creator(x, r) /\ x # th
         /\ OwnsRequest(x, r)' <=> OwnsRequest(x, r) /\ x # th
         /\ Holds(x, r)' <=> Holds(x, r) /\ x # th
         /\ Reader(x, r)' <=> Reader(x, r)
         /\ Fetching(x, r)' <=> Fetching(x, r)
         /\ (At(x, "submit") /\ call[x].req = r)'
               => (At(x, "submit") /\ call[x].req = r)
  BY <1>0, <1>1, <1>3 DEF Creator, OwnsRequest, Holds, Reader, Fetching, At
<1>11. \A r \in Ids : r # t => ~OwnsRequest(th, r) /\ ~Holds(th, r) /\ ~Creator(th, r)
  BY DEF OwnsRequest, Holds, Creator
<1>12. Locals'
  BY <1>1, <1>3, <1>5 DEF Inv, Locals, Carrying
<1>13. Lists' /\ Owners' /\ Fetchers' /\ Creators'
  BY <1>5, <1>10 DEF Inv, Lists, Owners, Fetchers, Creators
<1>14. RefcountExact'
  <2> DEFINE A(r) == \E x \in Threads : Creator(x, r)
             B(r) == r \in Queued \/ \E x \in Threads : OwnsRequest(x, r)
             R(r) == \E x \in Threads : Reader(x, r)
  <2>1. \A r \in Ids : r # t => (A(r)' <=> A(r)) /\ (B(r)' <=> B(r)) /\ (R(r)' <=> R(r))
    BY <1>5, <1>10, <1>11
  <2>2. ~A(t)' /\ ~B(t)' /\ ~R(t)'
    BY <1>0, <1>4, <1>5, <1>10
  <2>3. \A r \in Ids : refcount[r] = One(A(r)) + One(B(r)) + One(R(r))
    BY DEF Inv, RefcountExact
  <2>4. \A r \in Ids : refcount'[r] = One(A(r)') + One(B(r)') + One(R(r)')
    <3> HIDE DEF A, B, R
    <3> QED
      BY <1>7, <2>1, <2>2, <2>3 DEF One
  <2>5. \A r \in Ids, x, y \in Threads : Reader(x, r)' /\ Reader(y, r)' => x = y
    BY <1>10 DEF Inv, RefcountExact
  <2> QED
    BY <1>13, <2>4, <2>5 DEF RefcountExact, Owners, Creators
<1>15. Live'
  BY <1>7, <1>8 DEF Inv, Live
<1>16. ExactlyOnce'
  <2>1. ~(\E x \in Threads : Holds(x, t))'
    BY <1>0, <1>4, <1>10 DEF OwnsRequest
  <2> QED
    BY <1>4, <1>5, <1>6, <1>10, <1>11, <2>1 DEF Inv, ExactlyOnce
<1>17. Fresh'
  <2>1. \A r \in Ids : r > next_id => r # t
    BY <1>0 DEF Ids
  <2> QED
    BY <1>5, <1>6, <2>1 DEF Inv, Fresh
<1>18. Freed'
  <2>1. \A x \in Threads : At(x, "free") => call[x].req \in Ids
    BY RequestDrawn DEF Carrying, At
  <2> QED
    BY <1>1, <1>3, <1>6, <2>1 DEF Inv, Freed, At
<1> QED
  BY <1>9, <1>12, <1>13, <1>14, <1>15, <1>16, <1>17, <1>18 DEF Inv

-----------------------------------------------------------------------------
(* Steps that move a request from one list to the other.                   *)

\* A fetch makes the request active and takes a reference to read it.
LEMMA FetchTakesStep ==
    ASSUME Inv, NEW th \in Threads, NEW f \in Files, FetchTakes(th, f)
    PROVE  Inv'
<1>1. PICK i \in DOMAIN pending :
         /\ owner' = [owner EXCEPT ![pending[i]] = f]
         /\ pending' = Without(pending, i)
         /\ active' = Append(active, pending[i])
         /\ Get(pending[i])
         /\ Enter(th, [call[th] EXCEPT !.pc = "copy", !.file = f,
                                       !.req = pending[i]])
  BY DEF FetchTakes, FirstPending
<1>2. PICK t \in Ids : t = pending[i]
  BY DEF Inv, TypeOK
<1> DEFINE c == [call[th] EXCEPT !.pc = "copy", !.file = f, !.req = t]
<1>3. call[th] \in Call /\ Plain(call[th]) /\ call[th].ret = "idle"
  BY PlainBefore DEF FetchTakes, InFetch, At, Carrying
<1>4. c \in Call /\ c.pc = "copy" /\ c.ret = "idle" /\ c.req = t
  BY <1>3 DEF Call, Pcs
<1>5. Enter(th, c)
  BY <1>1, <1>2
<1> HIDE DEF c
<1>6. /\ call' \in [Threads -> Call]
      /\ call'[th] = c
      /\ \A x \in Threads : x # th => call'[x] = call[x]
  BY <1>4, <1>5, Typing, EnterFacts DEF Inv
<1>7. /\ next_id' = next_id /\ xfer' = xfer /\ resolved' = resolved
  BY DEF FetchTakes, usbVars
<1>8. /\ pending \in Seq(Ids) /\ IsInjective(pending)
      /\ active \in Seq(Ids) /\ IsInjective(active)
      /\ t \in Range(pending) /\ t \notin Range(active)
  BY <1>2 DEF Inv, TypeOK, Lists, IsInjective, Range
<1>9. /\ pending' \in Seq(Ids) /\ Range(pending') = Range(pending) \ {t}
      /\ IsInjective(pending')
  BY <1>1, <1>2, <1>8, WithoutFacts
<1>10. /\ active' \in Seq(Ids) /\ Range(active') = Range(active) \cup {t}
       /\ IsInjective(active')
  BY <1>1, <1>2, <1>8, AppendFacts
<1>11. Lists' /\ Queued' = Queued
  BY <1>8, <1>9, <1>10 DEF Inv, Lists, Queued, IsInjective
<1>12. /\ refcount' \in [Ids -> Int] /\ refcount'[t] = refcount[t] + 1
       /\ \A r \in Ids : r # t => refcount'[r] = refcount[r]
  BY <1>1, <1>2 DEF Get, Inv, TypeOK
<1>13. TypeOK'
  <2>1. owner' \in [Ids -> Files \cup {NoFile}]
    BY <1>1, <1>2 DEF Inv, TypeOK
  <2> QED
    BY <1>6, <1>9, <1>10, <1>12, <2>1 DEF FetchTakes, Inv, TypeOK, usbVars
<1>14. \A x \in Threads, r \in Ids :
         /\ Creator(x, r)' <=> Creator(x, r)
         /\ OwnsRequest(x, r)' <=> OwnsRequest(x, r)
         /\ Holds(x, r)' <=> Holds(x, r)
         /\ Reader(x, r)' <=> Reader(x, r) \/ (x = th /\ r = t)
         /\ Fetching(x, r)' <=> Fetching(x, r) \/ (x = th /\ r = t)
         /\ (At(x, "submit") /\ call[x].req = r)'
               <=> (At(x, "submit") /\ call[x].req = r)
  BY <1>3, <1>4, <1>6
  DEF Plain, Carrying, Creator, OwnsRequest, Holds, Reader, Fetching, At
<1>15. \A x \in Threads : /\ ~Fetching(x, t) /\ ~Reader(x, t)
                          /\ ~(At(x, "submit") /\ call[x].req = t)
  <2>1. \A x \in Threads : ~Fetching(x, t) /\ ~OwnsRequest(x, t)
    BY <1>8 DEF Inv, Fetchers, Owners, Queued
  <2> QED
    BY <2>1 DEF Fetching, Reader, OwnsRequest, Holds, At
<1>16. Locals'
  <2>1. t <= next_id
    BY <1>8 DEF Inv, ExactlyOnce, Queued
  <2>2. t \in 1..next_id
    BY <2>1, RequestDrawn DEF Ids
  <2> QED
    BY <1>4, <1>6, <1>7, <2>2 DEF Inv, Locals, Carrying
<1>17. Owners' /\ Creators'
  BY <1>11, <1>14 DEF Inv, Owners, Creators
<1>18. Fetchers'
  BY <1>9, <1>14, <1>15 DEF Inv, Fetchers
<1>19. RefcountExact'
  <2> DEFINE A(r) == \E x \in Threads : Creator(x, r)
             B(r) == r \in Queued \/ \E x \in Threads : OwnsRequest(x, r)
             R(r) == \E x \in Threads : Reader(x, r)
  <2>1. \A r \in Ids : (A(r)' <=> A(r)) /\ (B(r)' <=> B(r))
    BY <1>11, <1>14
  <2>2. R(t)' /\ ~R(t) /\ \A r \in Ids : r # t => (R(r)' <=> R(r))
    BY <1>14, <1>15
  <2>3. \A r \in Ids : refcount[r] = One(A(r)) + One(B(r)) + One(R(r))
    BY DEF Inv, RefcountExact
  <2>4. \A r \in Ids : refcount'[r] = One(A(r)') + One(B(r)') + One(R(r)')
    <3> HIDE DEF A, B, R
    <3> QED
      BY <1>12, <2>1, <2>2, <2>3 DEF One
  <2>5. \A r \in Ids, x, y \in Threads : Reader(x, r)' /\ Reader(y, r)' => x = y
    <3>1. \A r \in Ids, x, y \in Threads : Reader(x, r) /\ Reader(y, r) => x = y
      BY DEF Inv, RefcountExact
    <3> QED
      BY <1>14, <1>15, <3>1
  <2> QED
    BY <1>17, <2>4, <2>5 DEF RefcountExact, Owners, Creators
<1>20. Live'
  <2>1. \A r \in Ids : refcount'[r] > 0 => refcount[r] > 0
    <3>1. refcount[t] > 0
      BY <1>8, Referenced DEF Queued
    <3> QED
      BY <1>12, <3>1
  <2> QED
    BY <1>7, <2>1 DEF Inv, Live
<1>21. ExactlyOnce' /\ Fresh'
  BY <1>7, <1>11, <1>14 DEF Inv, ExactlyOnce, Fresh
<1>22. Freed'
  BY <1>4, <1>6, <1>7 DEF Inv, Freed, At
<1> QED
  BY <1>11, <1>13, <1>16, <1>17, <1>18, <1>19, <1>20, <1>21, <1>22 DEF Inv

\* A fetch that faults puts the request back, unless it is gone.
LEMMA FetchRollbackStep ==
    ASSUME Inv, NEW th \in Threads, NEW t, t = call[th].req, FetchRollback(th)
    PROVE  Inv'
<1>0. /\ call[th].pc = "rollback" /\ t \in Ids
      /\ Fetching(th, t) /\ t \notin Range(pending)
      /\ \A x \in Threads : Fetching(x, t) => x = th
  <2>1. call[th].pc = "rollback" /\ t \in Ids
    BY RequestDrawn DEF FetchRollback, At, Carrying
  <2>2. Fetching(th, t)
    BY <2>1 DEF Fetching
  <2> QED
    BY <2>1, <2>2 DEF Inv, Fetchers
<1>1. PICK c \in Call : /\ c.pc \in {"idle", "wake"} /\ c.ret = "idle"
                        /\ Enter(th, c)
  <2> DEFINE c1 == [Idle EXCEPT !.pc = "wake"]
  <2>1. Idle \in Call /\ Idle.pc = "idle" /\ Idle.ret = "idle"
    BY DEF Call, Pcs, Idle, NoId
  <2>2. c1 \in Call /\ c1.pc = "wake" /\ c1.ret = "idle"
    BY DEF Call, Pcs, Idle, NoId
  <2>3. Enter(th, Idle) \/ Enter(th, c1)
    BY DEF FetchRollback, Return
  <2> HIDE DEF c1
  <2> QED
    BY <2>1, <2>2, <2>3
<1>2. /\ call' \in [Threads -> Call]
      /\ call'[th] = c
      /\ \A x \in Threads : x # th => call'[x] = call[x]
  BY <1>1, Typing, EnterFacts DEF Inv
<1>3. /\ next_id' = next_id /\ xfer' = xfer /\ resolved' = resolved
      /\ refcount' = refcount
  BY DEF FetchRollback, usbVars
<1>4. /\ pending \in Seq(Ids) /\ IsInjective(pending)
      /\ active \in Seq(Ids) /\ IsInjective(active)
  BY DEF Inv, TypeOK, Lists, IsInjective
<1>5. /\ pending' \in Seq(Ids) /\ active' \in Seq(Ids)
      /\ owner' \in [Ids -> Files \cup {NoFile}]
      /\ Lists' /\ Queued' = Queued
      /\ Range(pending') \subseteq Range(pending) \cup {t}
  <2>1. CASE UNCHANGED <<pending, active, owner>>
    BY <1>4, <2>1 DEF Inv, TypeOK, Lists, Queued
  <2>2. CASE /\ \E i \in FindId(call[th].file, t) : active' = Without(active, i)
             /\ owner' = [owner EXCEPT ![t] = NoFile]
             /\ pending' = ToHead(t)
    <3>1. PICK i \in DOMAIN active : active[i] = t /\ active' = Without(active, i)
      BY <2>2 DEF FindId
    <3>2. /\ active' \in Seq(Ids) /\ Range(active') = Range(active) \ {t}
          /\ IsInjective(active')
      BY <1>4, <3>1, WithoutFacts
    <3>3. /\ pending' \in Seq(Ids) /\ Range(pending') = Range(pending) \cup {t}
          /\ IsInjective(pending')
      BY <1>0, <1>4, <2>2, PrependFacts DEF ToHead
    <3>4. owner' \in [Ids -> Files \cup {NoFile}]
      BY <2>2 DEF Inv, TypeOK
    <3>5. t \in Range(active)
      BY <3>1 DEF Range
    <3> QED
      BY <3>2, <3>3, <3>4, <3>5 DEF Inv, Lists, Queued, IsInjective
  <2> QED
    BY <2>1, <2>2 DEF FetchRollback
<1>6. TypeOK'
  BY <1>2, <1>5 DEF FetchRollback, Inv, TypeOK, usbVars
<1>7. \A x \in Threads, r \in Ids :
         /\ Creator(x, r)' <=> Creator(x, r)
         /\ OwnsRequest(x, r)' <=> OwnsRequest(x, r)
         /\ Holds(x, r)' <=> Holds(x, r)
         /\ Reader(x, r)' <=> Reader(x, r)
         /\ Fetching(x, r)' <=> Fetching(x, r) /\ x # th
         /\ (At(x, "submit") /\ call[x].req = r)'
               <=> (At(x, "submit") /\ call[x].req = r)
  BY <1>0, <1>1, <1>2 DEF Creator, OwnsRequest, Holds, Reader, Fetching, At
<1>8. Locals'
  BY <1>1, <1>2, <1>3 DEF Inv, Locals, Carrying
<1>9. Owners' /\ Creators'
  BY <1>5, <1>7 DEF Inv, Owners, Creators
<1>10. Fetchers'
  BY <1>0, <1>5, <1>7 DEF Inv, Fetchers
<1>11. RefcountExact'
  BY <1>3, <1>5, <1>7 DEF Inv, RefcountExact, One
<1>12. ExactlyOnce' /\ Fresh' /\ Live'
  BY <1>3, <1>5, <1>7 DEF Inv, ExactlyOnce, Fresh, Live
<1>13. Freed'
  BY <1>1, <1>2, <1>3 DEF Inv, Freed, At
<1> QED
  BY <1>5, <1>6, <1>8, <1>9, <1>10, <1>11, <1>12, <1>13 DEF Inv

-----------------------------------------------------------------------------
(* The theorems.                                                           *)

\* The invariant holds when the driver was probed.
LEMMA InitInv == Init => Inv
<1> SUFFICES ASSUME Init PROVE Inv
  OBVIOUS
<1>1. Idle \in Call /\ Idle.pc = "idle" /\ Idle.ret = "idle"
  BY DEF Call, Pcs, Idle, NoId
<1>2. \A th \in Threads : call[th].pc = "idle" /\ call[th].ret = "idle"
  BY <1>1 DEF Init
<1>3. Range(pending) = {} /\ Range(active) = {} /\ Queued = {}
  BY DEF Init, Range, Queued
<1>4. TypeOK
  <2>1. NoTransfer \in Transfer
    BY DEF NoTransfer, Transfer
  <2>2. 0 \in 0..MaxTransfers
    BY BoundAssumption
  <2>3. xfer \in [Ids -> Transfer] /\ call \in [Threads -> Call]
    BY <1>1, <2>1 DEF Init
  <2>4. /\ refcount \in [Ids -> Int] /\ owner \in [Ids -> Files \cup {NoFile}]
        /\ dev_refs \in [Devices -> Int] /\ resolved \in [Ids -> Nat]
        /\ urb \in [Urbs -> {"host", "hcd"}]
    BY DEF Init
  <2>5. pending \in Seq(Ids) /\ active \in Seq(Ids)
    BY DEF Init
  <2> QED
    BY <2>2, <2>3, <2>4, <2>5 DEF Init, TypeOK
<1>5. \A x \in Threads, t \in Ids :
         /\ ~Creator(x, t) /\ ~OwnsRequest(x, t) /\ ~Holds(x, t)
         /\ ~Reader(x, t) /\ ~Fetching(x, t)
  BY <1>2 DEF Creator, OwnsRequest, Holds, Reader, Fetching, At
<1>6. Locals /\ Freed
  BY <1>2 DEF Locals, Freed, At, Carrying
<1>7. Lists
  BY <1>3 DEF Init, Lists
<1>8. Owners /\ Fetchers /\ Creators
  BY <1>5 DEF Owners, Fetchers, Creators
<1>9. RefcountExact
  BY <1>3, <1>5 DEF Init, RefcountExact, One
<1>10. Live /\ Fresh
  BY DEF Init, Live, Fresh
<1>11. ExactlyOnce
  <2>1. \A t \in Ids : resolved[t] = 0 /\ ~(t <= next_id)
    BY DEF Init, Ids
  <2> QED
    BY <1>3, <1>5, <2>1 DEF ExactlyOnce
<1> QED
  BY <1>4, <1>6, <1>7, <1>8, <1>9, <1>10, <1>11 DEF Inv

\* Giving a cancelled or drained URB back keeps the invariant.
LEMMA GivebackStep ==
    ASSUME Inv, NEW th \in Threads, Giveback(th) \/ CompleteGivesBack(th)
    PROVE  Inv'
  BY GiveUrbBackStep DEF Giveback, CompleteGivesBack, At

\* Every step of every thread keeps the invariant.
LEMMA NextInv == Inv /\ [Next]_vars => Inv'
<1> SUFFICES ASSUME Inv, [Next]_vars PROVE Inv'
  OBVIOUS
<1>1. CASE UNCHANGED vars
  <2>1. /\ UNCHANGED <<bindings, pending, active, stopping, waitq, next_id, xfer>>
        /\ UNCHANGED <<refcount, owner, dev_refs, urb, linked, resolved, call>>
    BY <1>1 DEF vars, queueVars, xferVars, usbVars
  <2>2. TypeOK' /\ Locals'
    BY <2>1 DEF Inv, TypeOK, Locals
  <2>3. \A x \in Threads, t \in Ids :
         /\ Creator(x, t)' <=> Creator(x, t)
         /\ OwnsRequest(x, t)' <=> OwnsRequest(x, t)
         /\ Holds(x, t)' <=> Holds(x, t)
         /\ Reader(x, t)' <=> Reader(x, t)
         /\ Fetching(x, t)' <=> Fetching(x, t)
         /\ (At(x, "submit") /\ call[x].req = t)'
               <=> (At(x, "submit") /\ call[x].req = t)
    BY <2>1 DEF Creator, OwnsRequest, Holds, Reader, Fetching, At
  <2>4. \A x \in Threads : At(x, "free")' =>
           At(x, "free") /\ call'[x].req = call[x].req
    BY <2>1 DEF At
  <2> QED
    BY <2>1, <2>2, <2>3, <2>4, CustodyKept
<1>2. ASSUME NEW th \in Threads,
             Wake(th) \/ Giveback(th) \/ ReleaseRequest(th)
      PROVE  Inv'
  BY <1>2, WakeStep, GivebackStep, ReleaseRequestStep
<1>3. ASSUME NEW th \in HostThreads, HostStep(th)
      PROVE  Inv'
  <2>1. th \in Threads
    BY DEF Threads
  <2> QED
    BY <1>2, <1>3, <2>1, SubmitQueuesStep, SubmitFailsStep, PutCreatorRefStep
    DEF HostStep
<1>4. ASSUME NEW th \in HostThreads, HostCall(th)
      PROVE  Inv'
  <2>1. th \in Threads
    BY DEF Threads
  <2> QED
    BY <1>4, <2>1, EnqueueStep, EnqueueFailsStep, CancelStep DEF HostCall
<1>5. ASSUME NEW th \in UserThreads, UserStep(th)
      PROVE  Inv'
  <2>1. th \in Threads
    BY DEF Threads
  <2>2. CASE FetchReturns(th) \/ FetchCopies(th) \/ FetchRollback(th)
    BY <2>1, <2>2, FetchReturnsStep, FetchCopiesStep, FetchRollbackStep
  <2>3. CASE \E f \in Files : FetchTakes(th, f) \/ FetchWaits(th, f)
    BY <2>1, <2>3, FetchTakesStep, FetchWaitsStep
  <2>4. CASE WaitPrepare(th) \/ WaitCondition(th) \/ WaitWoken(th)
    BY <2>1, <2>4, WaitPrepareStep, WaitConditionStep, WaitWokenStep
  <2>5. CASE CompleteGivesBack(th) \/ Drain(th) \/ Unbound(th)
    BY <2>1, <2>5, GivebackStep, DrainStep, UnboundStep
  <2> QED
    BY <1>2, <1>5, <2>1, <2>2, <2>3, <2>4, <2>5 DEF UserStep
<1>6. ASSUME NEW th \in UserThreads, UserCall(th)
      PROVE  Inv'
  <2>1. th \in Threads
    BY DEF Threads
  <2> QED
    BY <1>6, <2>1, WaitInterruptedStep, RegisterStep, FetchTakesStep,
       FetchWaitsStep, CompleteTakesStep, UnregisterStep DEF UserCall
<1>7. CASE StopStep(Remover) \/ Stop(Remover)
  <2>1. Remover \in Threads
    BY DEF Threads
  <2> QED
    BY <1>2, <1>7, <2>1, StopBegins, StopDrainStep, StopUnbindStep DEF StopStep
<1> QED
  BY <1>1, <1>3, <1>4, <1>5, <1>6, <1>7 DEF Next

\* The invariant is inductive.
THEOREM Invariance == Spec => []Inv
<1> QED
  BY InitInv, NextInv, PTL DEF Spec

\* Every variable keeps its shape in virtusb_backend.c's data plane.
THEOREM TypeCorrect == Spec => []TypeOK
<1>1. Inv => TypeOK
  BY DEF Inv
<1> QED
  BY <1>1, Invariance, PTL

\* Cancel, complete, release_owner and stop never take the same request twice.
THEOREM Custody == Spec => []SingleCustody
<1>1. Inv => SingleCustody
  BY DEF Inv, Lists, Owners, OwnsRequest, SingleCustody
<1> QED
  BY <1>1, Invariance, PTL

\* Every URB that urb_enqueue accepts is given back at most once, and it is not
\* forgotten before that.
THEOREM GivenBackOnce == Spec => []ExactlyOnce
<1>1. Inv => ExactlyOnce
  BY DEF Inv
<1> QED
  BY <1>1, Invariance, PTL

\* The kref of a transfer counts exactly its creator, its request and its
\* reader.
THEOREM RefcountCorrect == Spec => []RefcountExact
<1>1. Inv => RefcountExact
  BY DEF Inv
<1> QED
  BY <1>1, Invariance, PTL
=============================================================================
