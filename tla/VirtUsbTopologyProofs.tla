------------------------ MODULE VirtUsbTopologyProofs ------------------------
(***************************************************************************)
(* Proofs about VirtUsbTopology, for any number of threads, ports and      *)
(* objects.                                                                *)
(*                                                                         *)
(* The life time of objects is correct however the handlers meet           *)
(* (ObjectInv).  Peers and the hub's view of its ports are correct if the  *)
(* callers serialize the handlers, as the headers ask (SerialInv, proved   *)
(* under Serialized): the model shows that they are not if they do not.    *)
(***************************************************************************)
EXTENDS VirtUsbTopology, FiniteSetTheorems, TLAPS

-----------------------------------------------------------------------------
(* Handlers.                                                               *)

\* Places at which a handler holds a reference to an object.
Holding == {"attach", "link", "detach", "unlink", "signal", "drive", "destroy",
            "force", "unregister", "bind", "put"}

\* The locals of a handler at the place where it is.
CallOK(c) ==
    /\ c.pc \in Holding => c.dev \in Objects
    /\ c.pc \in {"power", "switch", "reset", "train"} => c.dev = NoObject
    /\ c.pc \in {"compare", "mark"} => (c.dev = NoObject <=> c.ret = "idle")
    /\ c.pc \in {"attach", "link", "power", "switch", "compare", "mark", "reset",
                 "train"} => c.port \in Ports
    /\ c.pc = "unlink" /\ c.was => c.port \in Ports
    /\ c.pc \in {"attach", "link"} => c.ret = "put"
    /\ c.pc \in {"signal", "drive", "detach"} => c.ret \in {"put", "detach"}
    /\ c.pc = "unlink" => c.ret \in {"put", "unregister"}
    /\ c.pc \in {"power", "switch"} => c.ret = "idle"
    /\ c.pc = "compare" => c.ret # "unregister"

CallsOK == \A th \in Threads : CallOK(call[th])

\* The object a handler holds a reference to.
WorksOn(c) == IF c.pc = "idle" THEN NoObject ELSE c.dev

\* Thread th enters c.
Enters(th, c) == c \in Call /\ CallOK(c) /\ call' = [call EXCEPT ![th] = c]

\* What is left of a handler that goes to p: all of its locals, or only the
\* object it still has to put, or nothing.
Goes(th, c, p) ==
    /\ Enters(th, c)
    /\ c.pc = p
    /\ p # "idle" => c.dev = call[th].dev
    /\ p \notin {"idle", "put"} =>
          /\ c.ret = call[th].ret /\ c.port = call[th].port
          /\ c.val = call[th].val /\ c.was = call[th].was
          /\ c.speed = call[th].speed

\* A thread that is in no handler has no locals.
LEMMA IdleFacts ==
    /\ Idle \in Call
    /\ Idle.pc = "idle" /\ Idle.ret = "idle" /\ Idle.dev = NoObject
    /\ Idle.port = NoPort /\ Idle.val = FALSE /\ Idle.was = FALSE
<1>1. PICK no \in BOOLEAN : no = FALSE
    BY Zenon
<1> DEFINE c == [pc |-> "idle", ret |-> "idle", dev |-> NoObject, port |-> NoPort,
                 val |-> no, was |-> no, speed |-> "none"]
<1>2. c \in Call /\ c.pc = "idle" /\ c.ret = "idle" /\ c.dev = NoObject
      /\ c.port = NoPort /\ c.val = no /\ c.was = no
    BY DEF Call, Pcs, Speeds, NoObject
<1>3. Idle = c
    BY <1>1, Zenon DEF Idle
<1> HIDE DEF c
<1> QED
    BY <1>1, <1>2, <1>3, Zenon

\* The goto of a handler.
LEMMA GotoFacts ==
    ASSUME TypeOK, CallsOK, NEW th \in Threads, NEW p \in Pcs, Goto(th, p),
           p \in Holding => call[th].dev \in Objects,
           p = "compare" => /\ call[th].port \in Ports
                            /\ call[th].dev = NoObject <=> call[th].ret = "idle"
                            /\ call[th].ret # "unregister",
           p = "mark" => /\ call[th].port \in Ports
                         /\ call[th].dev = NoObject <=> call[th].ret = "idle",
           p = "detach" => call[th].ret \in {"put", "detach"},
           p \in {"idle", "put", "compare", "mark", "detach", "unregister"}
    PROVE  \E c \in Call : Goes(th, c, p)
<1>0. call[th] \in Call /\ call \in [Threads -> Call]
    BY DEF TypeOK
<1>1. CASE p = "idle"
  <2>1. call' = [call EXCEPT ![th] = Idle]
      BY <1>1, Zenon DEF Goto, Enter
  <2>2. CallOK(Idle)
      BY IdleFacts DEF CallOK, Holding
  <2> QED
      BY <1>1, <2>1, <2>2, IdleFacts DEF Goes, Enters
<1>2. CASE p = "put"
  <2> DEFINE c == [Idle EXCEPT !.pc = "put", !.dev = call[th].dev]
  <2>1. call' = [call EXCEPT ![th] = c]
    <3>1. "put" # "idle"
        OBVIOUS
    <3> QED
        BY <1>2, <3>1, Zenon DEF Goto, Enter
  <2>2. c \in Call /\ c.pc = "put" /\ c.dev = call[th].dev
      BY <1>0, IdleFacts DEF Call, Pcs
  <2> HIDE DEF c
  <2>3. CallOK(c)
      BY <1>2, <2>2 DEF CallOK, Holding
  <2> QED
      BY <1>2, <2>1, <2>2, <2>3 DEF Goes, Enters
<1>3. CASE p \notin {"idle", "put"}
  <2> DEFINE c == [call[th] EXCEPT !.pc = p]
  <2>1. call' = [call EXCEPT ![th] = c]
      BY <1>3, Zenon DEF Goto, Enter
  <2>2. /\ c \in Call /\ c.pc = p /\ c.dev = call[th].dev
        /\ c.ret = call[th].ret /\ c.port = call[th].port /\ c.val = call[th].val
        /\ c.was = call[th].was /\ c.speed = call[th].speed
      BY <1>0 DEF Call
  <2> HIDE DEF c
  <2>3. CallOK(c)
      BY <1>3, <2>2 DEF CallOK, Holding
  <2> QED
      BY <2>1, <2>2, <2>3 DEF Goes, Enters
<1> QED
    BY <1>1, <1>2, <1>3

\* What a handler finds is a truth value.
LEMMA FindsBoolean == \A p : Finds(p) \subseteq BOOLEAN
<1> TAKE p
<1>1. Connected(p) \in BOOLEAN
    BY Zenon DEF Connected
<1> QED
    BY <1>1, Zenon DEF Finds

\* A handler that has read something goes on with it in its locals.
Sets(th, c, pc, ret, port, was) ==
    /\ Enters(th, c)
    /\ c.pc = pc /\ c.ret = ret /\ c.dev = call[th].dev /\ c.port = port
    /\ c.was = was

\* virtusb_device_attach refuses, or goes on with a port that has no peer.
LEMMA AttachGoes ==
    ASSUME TypeOK, CallsOK, NEW th \in Threads, Attach(th)
    PROVE  \E c \in Call :
              \/ Goes(th, c, "put")
              \/ /\ Sets(th, c, "link", call[th].ret, call[th].port, FALSE)
                 /\ dpeer[call[th].port] = NoObject /\ upeer[call[th].dev] = NoPort
<1>0. /\ call[th] \in Call /\ call \in [Threads -> Call] /\ CallOK(call[th])
      /\ call[th].pc = "attach" /\ call[th].dev \in Objects /\ call[th].ret = "put"
      /\ call[th].port \in Ports
    BY DEF TypeOK, CallsOK, Attach, At, CallOK, Holding
<1>1. CASE Goto(th, "put")
    BY <1>0, <1>1, GotoFacts DEF Pcs, Holding
<1>2. CASE /\ dpeer[call[th].port] = NoObject /\ upeer[call[th].dev] = NoPort
           /\ Enter(th, [call[th] EXCEPT !.pc = "link", !.was = Connected(call[th].port)])
  <2>1. PICK no \in BOOLEAN : no = FALSE
      BY Zenon
  <2>2. Connected(call[th].port) = no
      BY <1>2, <2>1, Zenon DEF Connected
  <2> DEFINE c == [call[th] EXCEPT !.pc = "link", !.was = no]
  <2>3. call' = [call EXCEPT ![th] = c]
      BY <1>2, <2>2, Zenon DEF Enter
  <2>4. /\ c \in Call /\ c.pc = "link" /\ c.dev = call[th].dev /\ c.was = no
        /\ c.ret = call[th].ret /\ c.port = call[th].port
      BY <1>0 DEF Call, Pcs
  <2> HIDE DEF c
  <2>5. CallOK(c)
      BY <1>0, <2>4 DEF CallOK, Holding
  <2> QED
      BY <1>2, <2>1, <2>3, <2>4, <2>5 DEF Sets, Enters
<1> QED
    BY <1>1, <1>2, Zenon DEF Attach

\* virtusb_device_detach goes on with the port it finds.
LEMMA DetachGoes ==
    ASSUME TypeOK, CallsOK, NEW th \in Threads, Detach(th)
    PROVE  \E c \in Call, was \in BOOLEAN :
              /\ Sets(th, c, "unlink",
                      IF call[th].ret = "detach" THEN "unregister" ELSE "put",
                      upeer[call[th].dev], was)
              /\ upeer[call[th].dev] = NoPort => was = FALSE
              /\ upeer[call[th].dev] # NoPort => was \in Finds(upeer[call[th].dev])
<1>0. /\ call[th] \in Call /\ call \in [Threads -> Call] /\ CallOK(call[th])
      /\ call[th].pc = "detach" /\ call[th].dev \in Objects
      /\ call[th].ret \in {"put", "detach"}
      /\ upeer[call[th].dev] \in Ports \cup {NoPort}
    BY DEF TypeOK, CallsOK, Detach, At, CallOK, Holding
<1>1. PICK p : p = upeer[call[th].dev]
    OBVIOUS
<1>2. PICK r : r = IF call[th].ret = "detach" THEN "unregister" ELSE "put"
    OBVIOUS
<1>3. AfterDetach(th) = r /\ r \in {"put", "unregister"}
    BY <1>0, <1>2 DEF AfterDetach
<1>4. PICK was \in IF p = NoPort THEN {FALSE} ELSE Finds(p) :
              Enter(th, [call[th] EXCEPT !.pc = "unlink", !.port = p, !.was = was,
                                         !.ret = AfterDetach(th)])
    BY <1>1, Zenon DEF Detach, AttachedPort
<1>5. was \in BOOLEAN /\ (p = NoPort => was = FALSE) /\ (p # NoPort => was \in Finds(p))
    BY <1>4, FindsBoolean, Zenon
<1> DEFINE c == [call[th] EXCEPT !.pc = "unlink", !.port = p, !.was = was, !.ret = r]
<1>6. call' = [call EXCEPT ![th] = c]
    BY <1>3, <1>4, Zenon DEF Enter
<1>7. /\ c \in Call /\ c.pc = "unlink" /\ c.dev = call[th].dev /\ c.was = was
      /\ c.ret = r /\ c.port = p
    BY <1>0, <1>1, <1>3, <1>5 DEF Call, Pcs
<1> HIDE DEF c
<1>8. CallOK(c)
  <2>1. c.was => c.port \in Ports
      BY <1>0, <1>1, <1>5, <1>7
  <2> QED
      BY <1>0, <1>3, <1>7, <2>1 DEF CallOK, Holding
<1> QED
    BY <1>1, <1>2, <1>5, <1>6, <1>7, <1>8 DEF Sets, Enters

\* virtusb_device_set_connection_signaling does the same.
LEMMA SignalGoes ==
    ASSUME TypeOK, CallsOK, NEW th \in Threads, Signal(th)
    PROVE  \E c \in Call, was \in BOOLEAN :
              /\ Sets(th, c, "drive", call[th].ret, upeer[call[th].dev], was)
              /\ upeer[call[th].dev] = NoPort => was = FALSE
              /\ upeer[call[th].dev] # NoPort => was \in Finds(upeer[call[th].dev])
<1>0. /\ call[th] \in Call /\ call \in [Threads -> Call] /\ CallOK(call[th])
      /\ call[th].pc = "signal" /\ call[th].dev \in Objects
      /\ call[th].ret \in {"put", "detach"}
      /\ upeer[call[th].dev] \in Ports \cup {NoPort}
    BY DEF TypeOK, CallsOK, Signal, At, CallOK, Holding
<1>1. PICK p : p = upeer[call[th].dev]
    OBVIOUS
<1>4. PICK was \in IF p = NoPort THEN {FALSE} ELSE Finds(p) :
              Enter(th, [call[th] EXCEPT !.pc = "drive", !.port = p, !.was = was])
    BY <1>1, Zenon DEF Signal, AttachedPort
<1>5. was \in BOOLEAN /\ (p = NoPort => was = FALSE) /\ (p # NoPort => was \in Finds(p))
    BY <1>4, FindsBoolean, Zenon
<1> DEFINE c == [call[th] EXCEPT !.pc = "drive", !.port = p, !.was = was]
<1>6. call' = [call EXCEPT ![th] = c]
    BY <1>4, Zenon DEF Enter
<1>7. /\ c \in Call /\ c.pc = "drive" /\ c.dev = call[th].dev /\ c.was = was
      /\ c.ret = call[th].ret /\ c.port = p
    BY <1>0, <1>1, <1>5 DEF Call, Pcs
<1> HIDE DEF c
<1>8. CallOK(c)
    BY <1>0, <1>7 DEF CallOK, Holding
<1> QED
    BY <1>1, <1>5, <1>6, <1>7, <1>8 DEF Sets, Enters

\* virtusb_hub_set_port_power looks at the port first.
LEMMA PowerGoes ==
    ASSUME TypeOK, CallsOK, NEW th \in Threads, Power(th)
    PROVE  \E c \in Call, was \in Finds(call[th].port) :
              Sets(th, c, "switch", call[th].ret, call[th].port, was)
<1>0. /\ call[th] \in Call /\ call \in [Threads -> Call] /\ CallOK(call[th])
      /\ call[th].pc = "power" /\ call[th].dev = NoObject /\ call[th].ret = "idle"
      /\ call[th].port \in Ports
    BY DEF TypeOK, CallsOK, Power, At, CallOK, Holding
<1>4. PICK was \in Finds(call[th].port) :
              Enter(th, [call[th] EXCEPT !.pc = "switch", !.was = was])
    BY DEF Power
<1>5. was \in BOOLEAN
    BY FindsBoolean
<1> DEFINE c == [call[th] EXCEPT !.pc = "switch", !.was = was]
<1>6. call' = [call EXCEPT ![th] = c]
    BY <1>4, Zenon DEF Enter
<1>7. /\ c \in Call /\ c.pc = "switch" /\ c.dev = call[th].dev /\ c.was = was
      /\ c.ret = call[th].ret /\ c.port = call[th].port
    BY <1>0, <1>5 DEF Call, Pcs
<1> HIDE DEF c
<1>8. CallOK(c)
    BY <1>0, <1>7 DEF CallOK, Holding
<1> QED
    BY <1>6, <1>7, <1>8 DEF Sets, Enters

\* virtusb_device_destroy goes on to unregister a detached device, refuses an
\* attached one or, by force, begins with its signaling.
LEMMA DestroyGoes ==
    ASSUME TypeOK, CallsOK, NEW th \in Threads, Destroy(th)
    PROVE  \E c \in Call :
              \/ Goes(th, c, "unregister") /\ upeer[call[th].dev] = NoPort
              \/ Goes(th, c, "put")
              \/ Sets(th, c, "signal", "detach", call[th].port, call[th].was)
<1>0. /\ call[th] \in Call /\ call \in [Threads -> Call] /\ CallOK(call[th])
      /\ call[th].pc \in {"destroy", "force"} /\ call[th].dev \in Objects
    BY DEF TypeOK, CallsOK, Destroy, At, CallOK, Holding
<1>1. CASE Goto(th, "put")
    BY <1>0, <1>1, GotoFacts DEF Pcs, Holding
<1>2. CASE Goto(th, "unregister") /\ upeer[call[th].dev] = NoPort
    BY <1>0, <1>2, GotoFacts DEF Pcs, Holding
<1>3. CASE Enter(th, [call[th] EXCEPT !.pc = "signal", !.ret = "detach", !.val = FALSE])
  <2>1. PICK no \in BOOLEAN : no = FALSE
      BY Zenon
  <2> DEFINE c == [call[th] EXCEPT !.pc = "signal", !.ret = "detach", !.val = no]
  <2>2. call' = [call EXCEPT ![th] = c]
      BY <1>3, <2>1, Zenon DEF Enter
  <2>3. /\ c \in Call /\ c.pc = "signal" /\ c.dev = call[th].dev /\ c.ret = "detach"
        /\ c.port = call[th].port /\ c.was = call[th].was
      BY <1>0 DEF Call, Pcs
  <2> HIDE DEF c
  <2>4. CallOK(c)
      BY <1>0, <2>3 DEF CallOK, Holding
  <2> QED
      BY <2>2, <2>3, <2>4 DEF Sets, Enters
<1> QED
    BY <1>1, <1>2, <1>3, Zenon DEF Destroy

\* The rest of the handlers on devices go to their next place.
LEMMA StepGoes ==
    ASSUME TypeOK, CallsOK, NEW th \in Threads
    PROVE  /\ Link(th) => \E c \in Call : Goes(th, c, "compare")
           /\ Compare(th) => \E c \in Call, is \in Finds(call[th].port) :
                 Goes(th, c, IF is # call[th].was THEN "mark" ELSE call[th].ret)
           /\ Mark(th) => \E c \in Call : Goes(th, c, call[th].ret)
           /\ Unlink(th) => \E c \in Call :
                 Goes(th, c, IF call[th].was THEN "mark" ELSE call[th].ret)
           /\ Drive(th) => \E c \in Call :
                 Goes(th, c, IF call[th].port = NoPort THEN call[th].ret ELSE "compare")
           /\ Switch(th) => \E c \in Call : Goes(th, c, "compare")
           /\ Unregister(th) => \E c \in Call : Goes(th, c, "put")
           /\ Bind(th) => \E c \in Call : Goes(th, c, "put")
           /\ PutObject(th) => \E c \in Call : Enters(th, c) /\ c.pc = "idle"
<1>0. /\ call[th] \in Call /\ call \in [Threads -> Call] /\ CallOK(call[th])
      /\ NoObject \notin Objects /\ NoPort \notin Ports
      /\ call[th].ret \in {"idle", "put", "detach", "unregister"}
      /\ call[th].dev \in Objects \cup {NoObject}
      /\ call[th].port \in Ports \cup {NoPort}
    BY TopologyAssumption DEF TypeOK, CallsOK, Call, NoObject, Objects
<1> USE DEF At
<1>1. ASSUME Link(th) PROVE \E c \in Call : Goes(th, c, "compare")
    BY <1>0, <1>1, GotoFacts DEF Link, Pcs, Holding, CallOK
<1>2. ASSUME Compare(th)
      PROVE  \E c \in Call, is \in Finds(call[th].port) :
                 Goes(th, c, IF is # call[th].was THEN "mark" ELSE call[th].ret)
  <2>1. PICK is \in Finds(call[th].port) :
           Goto(th, IF is # call[th].was THEN "mark" ELSE call[th].ret)
      BY <1>2 DEF Compare
  <2>2. PICK p : p = IF is # call[th].was THEN "mark" ELSE call[th].ret
      OBVIOUS
  <2>3. p \in {"mark", "idle", "put", "detach"}
        /\ (p # "mark" => p = call[th].ret)
      BY <1>0, <1>2, <2>2 DEF Compare, CallOK
  <2>4. Goto(th, p)
      BY <2>1, <2>2
  <2>5. \E c \in Call : Goes(th, c, p)
      BY <1>0, <1>2, <2>3, <2>4, GotoFacts DEF Compare, Pcs, Holding, CallOK
  <2> QED
      BY <2>2, <2>5
<1>3. ASSUME Mark(th) PROVE \E c \in Call : Goes(th, c, call[th].ret)
    BY <1>0, <1>3, GotoFacts DEF Mark, Pcs, Holding, CallOK
<1>4. ASSUME Unlink(th)
      PROVE  \E c \in Call : Goes(th, c, IF call[th].was THEN "mark" ELSE call[th].ret)
  <2>2. PICK p : p = IF call[th].was THEN "mark" ELSE call[th].ret
      OBVIOUS
  <2>3. /\ p \in {"mark", "put", "unregister"}
        /\ (p = "mark" => call[th].port \in Ports)
      BY <1>0, <1>4, <2>2 DEF Unlink, CallOK
  <2>4. Goto(th, p)
      BY <1>4, <2>2 DEF Unlink
  <2>5. \E c \in Call : Goes(th, c, p)
      BY <1>0, <1>4, <2>3, <2>4, GotoFacts DEF Unlink, Pcs, Holding, CallOK
  <2> QED
      BY <2>2, <2>5
<1>5. ASSUME Drive(th)
      PROVE  \E c \in Call :
                 Goes(th, c, IF call[th].port = NoPort THEN call[th].ret ELSE "compare")
  <2>2. PICK p : p = IF call[th].port = NoPort THEN call[th].ret ELSE "compare"
      OBVIOUS
  <2>3. /\ p \in {"compare", "put", "detach"}
        /\ (p = "compare" => call[th].port \in Ports)
        /\ (p # "compare" => p = call[th].ret)
      BY <1>0, <1>5, <2>2 DEF Drive, CallOK
  <2>4. Goto(th, p)
      BY <1>5, <2>2 DEF Drive
  <2>5. \E c \in Call : Goes(th, c, p)
      BY <1>0, <1>5, <2>3, <2>4, GotoFacts DEF Drive, Pcs, Holding, CallOK
  <2> QED
      BY <2>2, <2>5
<1>6. ASSUME Switch(th) PROVE \E c \in Call : Goes(th, c, "compare")
    BY <1>0, <1>6, GotoFacts DEF Switch, Pcs, Holding, CallOK
<1>7. ASSUME Unregister(th) \/ Bind(th) PROVE \E c \in Call : Goes(th, c, "put")
    BY <1>0, <1>7, GotoFacts DEF Unregister, Bind, Pcs, Holding, CallOK
<1>8. ASSUME PutObject(th) PROVE \E c \in Call : Enters(th, c) /\ c.pc = "idle"
    BY <1>8, IdleFacts DEF PutObject, Enter, Enters, CallOK, Holding
<1> QED
    BY <1>1, <1>2, <1>3, <1>4, <1>5, <1>6, <1>7, <1>8

\* The hub driver's requests go from place to place or end.
LEMMA HubGoes ==
    ASSUME TypeOK, CallsOK, NEW th \in Threads
    PROVE  /\ Train(th) => \E c \in Call : Enters(th, c) /\ c.pc = "idle"
           /\ ResetPort(th) => \E c \in Call :
                 \/ Enters(th, c) /\ c.pc = "idle"
                 \/ /\ Sets(th, c, "train", call[th].ret, call[th].port, call[th].was)
                    /\ \E connected \in Finds(call[th].port) : connected
                    /\ c.speed \in DeterminedSpeed(call[th].port)
                    /\ c.speed # "none"
<1>0. /\ call[th] \in Call /\ call \in [Threads -> Call] /\ CallOK(call[th])
    BY DEF TypeOK, CallsOK
<1> USE DEF At
<1>1. ASSUME Goto(th, "idle") PROVE \E c \in Call : Enters(th, c) /\ c.pc = "idle"
    BY <1>0, <1>1, GotoFacts DEF Pcs, Holding, Goes
<1>2. ASSUME ResetPort(th), ~Goto(th, "idle")
      PROVE  \E c \in Call :
                 /\ Sets(th, c, "train", call[th].ret, call[th].port, call[th].was)
                 /\ \E connected \in Finds(call[th].port) : connected
                 /\ c.speed \in DeterminedSpeed(call[th].port)
                 /\ c.speed # "none"
  <2>1. PICK connected \in Finds(call[th].port), s \in DeterminedSpeed(call[th].port) :
              /\ connected /\ s # "none"
              /\ Enter(th, [call[th] EXCEPT !.pc = "train", !.speed = s])
      BY <1>2, Zenon DEF ResetPort
  <2>2. s \in Speeds
    <3>1. \A cs : Fastest(cs) \in Speeds
        BY DEF Fastest, Speeds
    <3> QED
        BY <3>1 DEF DeterminedSpeed, Speeds
  <2> DEFINE c == [call[th] EXCEPT !.pc = "train", !.speed = s]
  <2>3. call' = [call EXCEPT ![th] = c]
      BY <2>1, Zenon DEF Enter
  <2>4. /\ c \in Call /\ c.pc = "train" /\ c.dev = call[th].dev /\ c.speed = s
        /\ c.ret = call[th].ret /\ c.port = call[th].port /\ c.was = call[th].was
      BY <1>0, <2>2 DEF Call, Pcs
  <2> HIDE DEF c
  <2>5. CallOK(c)
      BY <1>0, <1>2, <2>4 DEF CallOK, Holding, ResetPort
  <2> QED
      BY <2>1, <2>3, <2>4, <2>5 DEF Sets, Enters
<1> QED
    BY <1>1, <1>2 DEF Train

\* A handler that begins with a look-up of device d.
Looks(th, c, d) ==
    /\ MayBegin(th) /\ d \in registry
    /\ Enters(th, c) /\ c.dev = d
    /\ c.pc \in {"destroy", "force", "bind", "detach", "attach", "signal"}
    /\ refs' = [refs EXCEPT ![d] = @ + 1]
    /\ UNCHANGED <<next_object_id, registry, caps, bound, peerVars, lineVars,
                   hubVars, hostVars>>

\* A handler that begins with a port and no device.
Begins(th, c, places) ==
    /\ MayBegin(th)
    /\ Enters(th, c) /\ c.pc \in places /\ c.dev = NoObject

\* virtusb_control_lookup_device gives the handler its device.
LEMMA LookupGoes ==
    ASSUME TypeOK, NEW th \in Threads, NEW d \in Objects, NEW c0 \in Call,
           Lookup(th, d, c0),
           c0.pc \in {"destroy", "force", "bind", "detach", "attach", "signal"},
           c0.pc \in {"detach", "attach", "signal"} => c0.ret = "put",
           c0.pc = "attach" => c0.port \in Ports
    PROVE  \E c \in Call : Looks(th, c, d)
<1> DEFINE c == [c0 EXCEPT !.dev = d]
<1>1. /\ c \in Call /\ c.pc = c0.pc /\ c.dev = d /\ c.ret = c0.ret /\ c.port = c0.port
    BY DEF Call
<1>2. call' = [call EXCEPT ![th] = c]
    BY DEF Lookup, Enter
<1> HIDE DEF c
<1>3. CallOK(c)
    BY <1>1 DEF CallOK, Holding
<1> QED
    BY <1>1, <1>2, <1>3 DEF Looks, Enters, Lookup

\* Every ioctl on a device creates one or looks one up.
LEMMA IoctlGoes ==
    ASSUME TypeOK, NEW th \in Threads, Ioctl(th)
    PROVE  \/ \E cs \in Capabilities : Create(th, cs)
           \/ \E d \in Objects, c \in Call : Looks(th, c, d)
<1>1. ASSUME NEW d \in Objects, NEW op \in {"destroy", "force", "bind"},
             Lookup(th, d, [Idle EXCEPT !.pc = op])
      PROVE  \E c \in Call : Looks(th, c, d)
  <2> DEFINE c0 == [Idle EXCEPT !.pc = op]
  <2>1. c0 \in Call /\ c0.pc = op
      BY IdleFacts DEF Call, Pcs
  <2>2. Lookup(th, d, c0)
      BY <1>1
  <2> HIDE DEF c0
  <2> QED
      BY <2>1, <2>2, LookupGoes
<1>2. ASSUME NEW d \in Objects,
             Lookup(th, d, [Idle EXCEPT !.pc = "detach", !.ret = "put"])
      PROVE  \E c \in Call : Looks(th, c, d)
  <2> DEFINE c0 == [Idle EXCEPT !.pc = "detach", !.ret = "put"]
  <2>1. c0 \in Call /\ c0.pc = "detach" /\ c0.ret = "put"
      BY IdleFacts DEF Call, Pcs
  <2>2. Lookup(th, d, c0)
      BY <1>2
  <2> HIDE DEF c0
  <2> QED
      BY <2>1, <2>2, LookupGoes
<1>3. ASSUME NEW d \in Objects, NEW p \in Ports,
             Lookup(th, d, [Idle EXCEPT !.pc = "attach", !.ret = "put", !.port = p])
      PROVE  \E c \in Call : Looks(th, c, d)
  <2> DEFINE c0 == [Idle EXCEPT !.pc = "attach", !.ret = "put", !.port = p]
  <2>1. c0 \in Call /\ c0.pc = "attach" /\ c0.ret = "put" /\ c0.port = p
      BY IdleFacts DEF Call, Pcs
  <2>2. Lookup(th, d, c0)
      BY <1>3
  <2> HIDE DEF c0
  <2> QED
      BY <2>1, <2>2, LookupGoes
<1>4. ASSUME NEW d \in Objects, NEW v \in BOOLEAN,
             Lookup(th, d, [Idle EXCEPT !.pc = "signal", !.ret = "put", !.val = v])
      PROVE  \E c \in Call : Looks(th, c, d)
  <2> DEFINE c0 == [Idle EXCEPT !.pc = "signal", !.ret = "put", !.val = v]
  <2>1. c0 \in Call /\ c0.pc = "signal" /\ c0.ret = "put"
      BY IdleFacts DEF Call, Pcs
  <2>2. Lookup(th, d, c0)
      BY <1>4
  <2> HIDE DEF c0
  <2> QED
      BY <2>1, <2>2, LookupGoes
<1> QED
    BY <1>1, <1>2, <1>3, <1>4, Zenon DEF Ioctl

\* A device that is created is put or, if its id cannot be handed to the user,
\* destroyed by force.
LEMMA CreateGoes ==
    ASSUME TypeOK, NEW th \in Threads, NEW cs, Create(th, cs)
    PROVE  /\ next_object_id \in Objects
           /\ \E c \in Call : /\ Enters(th, c) /\ c.pc \in {"put", "force"}
                              /\ c.dev = next_object_id
<1>1. next_object_id \in Objects
    BY TopologyAssumption DEF Create, RegisterObject, TypeOK, Objects
<1>2. PICK p \in {"put", "force"} :
         Enter(th, [Idle EXCEPT !.pc = p, !.dev = next_object_id])
    BY DEF Create
<1> DEFINE c == [Idle EXCEPT !.pc = p, !.dev = next_object_id]
<1>3. c \in Call /\ c.pc = p /\ c.dev = next_object_id
    BY <1>1, IdleFacts DEF Call, Pcs
<1>4. call' = [call EXCEPT ![th] = c]
    BY <1>2 DEF Enter
<1> HIDE DEF c
<1>5. CallOK(c)
    BY <1>1, <1>3 DEF CallOK, Holding
<1> QED
    BY <1>1, <1>3, <1>4, <1>5 DEF Enters

\* SET_PORT_POWER and the hub driver's requests begin with a port.
LEMMA PortGoes ==
    ASSUME TypeOK, NEW th \in Threads, NEW p \in Ports
    PROVE  /\ \A v \in BOOLEAN : BeginPower(th, p, v) =>
                 \E c \in Call : Begins(th, c, {"power"})
           /\ BeginReset(th, p) => \E c \in Call : Begins(th, c, {"reset"})
<1>1. ASSUME NEW v \in BOOLEAN, BeginPower(th, p, v)
      PROVE  \E c \in Call : Begins(th, c, {"power"})
  <2> DEFINE c == [Idle EXCEPT !.pc = "power", !.port = p, !.val = v]
  <2>1. c \in Call /\ c.pc = "power" /\ c.port = p /\ c.dev = NoObject /\ c.ret = "idle"
      BY IdleFacts DEF Call, Pcs
  <2>2. call' = [call EXCEPT ![th] = c] /\ MayBegin(th)
      BY <1>1 DEF BeginPower, Enter
  <2> HIDE DEF c
  <2>3. CallOK(c)
      BY <2>1 DEF CallOK, Holding
  <2> QED
      BY <2>1, <2>2, <2>3 DEF Begins, Enters
<1>2. ASSUME BeginReset(th, p) PROVE \E c \in Call : Begins(th, c, {"reset"})
  <2> DEFINE c == [Idle EXCEPT !.pc = "reset", !.port = p]
  <2>1. c \in Call /\ c.pc = "reset" /\ c.port = p /\ c.dev = NoObject
      BY IdleFacts DEF Call, Pcs
  <2>2. call' = [call EXCEPT ![th] = c] /\ MayBegin(th)
      BY <1>2 DEF BeginReset, Enter
  <2> HIDE DEF c
  <2>3. CallOK(c)
      BY <2>1 DEF CallOK, Holding
  <2> QED
      BY <2>1, <2>2, <2>3 DEF Begins, Enters
<1> QED
    BY <1>1, <1>2

-----------------------------------------------------------------------------
(* Objects and their references.                                           *)

\* An id that was not handed out yet belongs to nothing.
IdInv ==
    /\ \A d \in Objects : d >= next_object_id =>
          /\ d \notin registry /\ d \notin bound
          /\ caps[d] = {} /\ upeer[d] = NoPort
          /\ \A th \in Threads : WorksOn(call[th]) # d
    /\ \A p \in Ports : dpeer[p] < next_object_id

\* Every reference has its holder, and the holders of each are finitely many.
RefsInv ==
    \A d \in Objects :
        /\ IsFiniteSet(Users(d))
        /\ refs[d] = (IF d \in registry THEN 1 ELSE 0) + (IF d \in bound THEN 1 ELSE 0)
                        + Cardinality(Users(d))

ObjectInv == TypeOK /\ CallsOK /\ IdInv /\ RefsInv

\* What a handler on device d may do to the peers.
PeersMove(d) ==
    /\ \A x \in Objects : upeer'[x] # NoPort => upeer[x] # NoPort \/ x = d
    /\ \A p \in Ports : dpeer'[p] \in {dpeer[p], NoObject, d}

\* The steps as far as objects are concerned: a handler goes on with its device
\* ...
Keeps(th, c) ==
    /\ Enters(th, c) /\ WorksOn(c) = WorksOn(call[th])
    /\ PeersMove(WorksOn(call[th]))
    /\ UNCHANGED objectVars

\* ... a device is made, ...
Makes(th, c) ==
    /\ Enters(th, c)
    /\ WorksOn(call[th]) = NoObject /\ WorksOn(c) = next_object_id
    /\ next_object_id \in Objects
    /\ next_object_id' = next_object_id + 1
    /\ registry' = registry \cup {next_object_id}
    /\ refs' = [refs EXCEPT ![next_object_id] = 2]
    /\ \A d \in Objects : d # next_object_id => caps'[d] = caps[d]
    /\ UNCHANGED <<bound, peerVars>>

\* ... found, ...
Gets(th, c) ==
    /\ Enters(th, c)
    /\ WorksOn(call[th]) = NoObject /\ WorksOn(c) \in registry
    /\ refs' = [refs EXCEPT ![WorksOn(c)] = @ + 1]
    /\ UNCHANGED <<next_object_id, registry, caps, bound, peerVars>>

\* ... put, ...
Puts(th, c) ==
    /\ Enters(th, c)
    /\ WorksOn(call[th]) \in Objects /\ WorksOn(c) = NoObject
    /\ refs' = [refs EXCEPT ![WorksOn(call[th])] = @ - 1]
    /\ UNCHANGED <<next_object_id, registry, caps, bound, peerVars>>

\* ... unregistered, ...
Forgets(th, c) ==
    /\ Enters(th, c) /\ WorksOn(c) = WorksOn(call[th]) /\ WorksOn(c) \in registry
    /\ registry' = registry \ {WorksOn(c)}
    /\ refs' = [refs EXCEPT ![WorksOn(c)] = @ - 1]
    /\ UNCHANGED <<next_object_id, caps, bound, peerVars>>

\* ... or bound; Unbind is the only step of no handler.
Binds(th, c) ==
    /\ Enters(th, c) /\ WorksOn(c) = WorksOn(call[th])
    /\ WorksOn(c) \in Objects \ bound
    /\ bound' = bound \cup {WorksOn(c)}
    /\ refs' = [refs EXCEPT ![WorksOn(c)] = @ + 1]
    /\ UNCHANGED <<next_object_id, registry, caps, peerVars>>

ObjectKind(th, c) ==
    \/ Keeps(th, c) \/ Makes(th, c) \/ Gets(th, c) \/ Puts(th, c)
    \/ Forgets(th, c) \/ Binds(th, c)

\* A handler that goes to p and keeps its device.
LEMMA GoesKeeps ==
    ASSUME NEW th \in Threads, NEW c \in Call, NEW p, Goes(th, c, p),
           ~At(th, "idle"), p = "idle" => call[th].dev = NoObject
    PROVE  WorksOn(c) = WorksOn(call[th])
BY DEF Goes, WorksOn, At

\* The steps of the handlers on devices and ports are of these kinds.
LEMMA HandlerKind ==
    ASSUME TypeOK, CallsOK, NEW th \in Threads, Step(th)
    PROVE  \E c \in Call : ObjectKind(th, c)
<1>0. /\ call[th] \in Call /\ CallOK(call[th]) /\ NoObject \notin Objects
      /\ NoPort \notin Ports /\ upeer \in [Objects -> Ports \cup {NoPort}]
      /\ dpeer \in [Ports -> Objects \cup {NoObject}]
    BY TopologyAssumption DEF TypeOK, CallsOK, NoObject, Objects
<1> USE DEF At
<1>p. ASSUME UNCHANGED peerVars PROVE \A d : PeersMove(d)
    BY <1>p DEF PeersMove, peerVars
<1>k. ASSUME NEW c \in Call, NEW p, Goes(th, c, p), ~At(th, "idle"),
             p = "idle" => call[th].dev = NoObject, UNCHANGED objectVars,
             PeersMove(WorksOn(call[th]))
      PROVE  Keeps(th, c)
    BY <1>k, GoesKeeps DEF Keeps, Goes
<1>s. ASSUME NEW c \in Call, NEW q, NEW r, NEW p, NEW w, Sets(th, c, q, r, p, w),
             q # "idle", ~At(th, "idle"), UNCHANGED <<objectVars, peerVars>>
      PROVE  Keeps(th, c)
    BY <1>s, <1>p DEF Keeps, Sets, WorksOn
<1>1. CASE PutObject(th)
  <2>1. PICK c \in Call : Enters(th, c) /\ c.pc = "idle"
      BY <1>1, StepGoes
  <2>2. WorksOn(c) = NoObject /\ WorksOn(call[th]) = call[th].dev
        /\ call[th].dev \in Objects
      BY <1>0, <1>1, <2>1 DEF WorksOn, PutObject, CallOK, Holding
  <2> QED
      BY <1>1, <2>1, <2>2 DEF PutObject, Puts, ObjectKind
<1>2. CASE Unregister(th)
  <2>1. PICK c \in Call : Goes(th, c, "put")
      BY <1>2, StepGoes
  <2>2. WorksOn(c) = WorksOn(call[th]) /\ WorksOn(call[th]) = call[th].dev
      BY <1>0, <1>2, <2>1 DEF WorksOn, Unregister, Goes
  <2>3. CASE call[th].dev \in registry
      BY <1>2, <2>1, <2>2, <2>3 DEF Unregister, Forgets, ObjectKind, Goes
  <2>4. CASE call[th].dev \notin registry
    <3>1. UNCHANGED <<objectVars, peerVars>>
        BY <1>2, <2>4 DEF Unregister, objectVars
    <3> QED
        BY <1>2, <1>k, <1>p, <2>1, <3>1 DEF Unregister, ObjectKind
  <2> QED
      BY <2>3, <2>4
<1>3. CASE Bind(th)
  <2>1. PICK c \in Call : Goes(th, c, "put")
      BY <1>3, StepGoes
  <2>2. WorksOn(c) = WorksOn(call[th]) /\ WorksOn(call[th]) = call[th].dev
        /\ call[th].dev \in Objects
      BY <1>0, <1>3, <2>1 DEF WorksOn, Bind, Goes, CallOK, Holding
  <2>3. CASE bound' = bound \cup {call[th].dev} /\ call[th].dev \notin bound
             /\ refs' = [refs EXCEPT ![call[th].dev] = @ + 1]
      BY <1>3, <2>1, <2>2, <2>3 DEF Bind, Binds, ObjectKind, Goes
  <2>4. CASE UNCHANGED <<bound, refs>>
    <3>1. UNCHANGED <<objectVars, peerVars>>
        BY <1>3, <2>4 DEF Bind, objectVars
    <3> QED
        BY <1>3, <1>k, <1>p, <2>1, <3>1 DEF Bind, ObjectKind
  <2> QED
      BY <1>3, <2>3, <2>4 DEF Bind
<1>4. CASE Attach(th)
    BY <1>4, <1>k, <1>s, <1>p, AttachGoes DEF Attach, DataUnchanged, ObjectKind
<1>5. CASE Link(th)
  <2>1. PICK c \in Call : Goes(th, c, "compare")
      BY <1>5, StepGoes
  <2>2. WorksOn(call[th]) = call[th].dev
      BY <1>5 DEF WorksOn, Link
  <2>3. PeersMove(call[th].dev)
      BY <1>0, <1>5 DEF Link, PeersMove
  <2> QED
      BY <1>5, <1>k, <2>1, <2>2, <2>3 DEF Link, ObjectKind
<1>6. CASE Compare(th)
  <2>1. PICK c \in Call, is \in Finds(call[th].port) :
           Goes(th, c, IF is # call[th].was THEN "mark" ELSE call[th].ret)
      BY <1>6, StepGoes
  <2>2. PICK p : p = IF is # call[th].was THEN "mark" ELSE call[th].ret
      OBVIOUS
  <2>3. Goes(th, c, p) /\ (p = "idle" => call[th].dev = NoObject)
      BY <1>0, <1>6, <2>1, <2>2 DEF Compare, CallOK
  <2> QED
      BY <1>6, <1>k, <1>p, <2>3 DEF Compare, DataUnchanged, ObjectKind
<1>7. CASE Mark(th)
  <2>1. PICK c \in Call : Goes(th, c, call[th].ret)
      BY <1>7, StepGoes
  <2>2. call[th].ret = "idle" => call[th].dev = NoObject
      BY <1>0, <1>7 DEF Mark, CallOK
  <2> QED
      BY <1>7, <1>k, <1>p, <2>1, <2>2 DEF Mark, ObjectKind
<1>8. CASE Detach(th)
    BY <1>8, <1>s, DetachGoes DEF Detach, DataUnchanged, ObjectKind
<1>9. CASE Unlink(th)
  <2>1. PICK c \in Call : Goes(th, c, IF call[th].was THEN "mark" ELSE call[th].ret)
      BY <1>9, StepGoes
  <2>2. PICK p : p = IF call[th].was THEN "mark" ELSE call[th].ret
      OBVIOUS
  <2>3. Goes(th, c, p) /\ p # "idle"
      BY <1>0, <1>9, <2>1, <2>2 DEF Unlink, CallOK
  <2>4. \A d : PeersMove(d)
      BY <1>0, <1>9 DEF Unlink, PeersMove
  <2> QED
      BY <1>9, <1>k, <2>3, <2>4 DEF Unlink, ObjectKind
<1>10. CASE Signal(th)
    BY <1>10, <1>s, SignalGoes DEF Signal, DataUnchanged, ObjectKind
<1>11. CASE Drive(th)
  <2>1. PICK c \in Call :
           Goes(th, c, IF call[th].port = NoPort THEN call[th].ret ELSE "compare")
      BY <1>11, StepGoes
  <2>2. PICK p : p = IF call[th].port = NoPort THEN call[th].ret ELSE "compare"
      OBVIOUS
  <2>3. Goes(th, c, p) /\ p # "idle"
      BY <1>0, <1>11, <2>1, <2>2 DEF Drive, CallOK
  <2> QED
      BY <1>11, <1>k, <1>p, <2>3 DEF Drive, ObjectKind
<1>12. CASE Power(th)
    BY <1>12, <1>s, PowerGoes DEF Power, DataUnchanged, ObjectKind
<1>13. CASE Switch(th)
  <2>1. PICK c \in Call : Goes(th, c, "compare")
      BY <1>13, StepGoes
  <2> QED
      BY <1>13, <1>k, <1>p, <2>1 DEF Switch, ObjectKind
<1>14. CASE Destroy(th)
    BY <1>14, <1>k, <1>s, <1>p, DestroyGoes DEF Destroy, DataUnchanged, ObjectKind
<1> QED
    BY <1>1, <1>2, <1>3, <1>4, <1>5, <1>6, <1>7, <1>8, <1>9, <1>10, <1>11, <1>12,
       <1>13, <1>14 DEF Step

\* Every step is of one of these kinds, drops a binding, or has nothing to do
\* with objects.
LEMMA ObjectKinds ==
    ASSUME TypeOK, CallsOK, [Next]_vars
    PROVE  \/ \E th \in Threads, c \in Call : ObjectKind(th, c)
           \/ \E d \in Objects : Unbind(d)
           \/ UNCHANGED <<objectVars, peerVars, call>>
<1> USE DEF At
<1>p. ASSUME UNCHANGED peerVars PROVE \A d : PeersMove(d)
    BY <1>p DEF PeersMove, peerVars
<1>b. ASSUME NEW th \in Threads, NEW c \in Call, NEW S, Begins(th, c, S),
             UNCHANGED <<objectVars, peerVars>>
      PROVE  Keeps(th, c)
    BY <1>b, <1>p DEF Begins, MayBegin, Keeps, WorksOn
<1>1. ASSUME NEW th \in Clients, Ioctl(th)
      PROVE  \E c \in Call : ObjectKind(th, c)
  <2>0. th \in Threads
      BY DEF Threads
  <2>1. ASSUME NEW cs \in Capabilities, Create(th, cs)
        PROVE  \E c \in Call : ObjectKind(th, c)
    <3>1. PICK c \in Call : /\ Enters(th, c) /\ c.pc \in {"put", "force"}
                            /\ c.dev = next_object_id
        BY <2>0, <2>1, CreateGoes
    <3>2. next_object_id \in Objects
        BY <2>0, <2>1, CreateGoes
    <3>3. WorksOn(call[th]) = NoObject /\ WorksOn(c) = next_object_id
        BY <2>1, <3>1 DEF Create, MayBegin, WorksOn
    <3>4. \A d \in Objects : d # next_object_id => caps'[d] = caps[d]
        BY <2>1 DEF Create, TypeOK
    <3> QED
        BY <2>1, <3>1, <3>2, <3>3, <3>4 DEF Create, RegisterObject, Makes, ObjectKind
  <2>2. ASSUME NEW d \in Objects, NEW c \in Call, Looks(th, c, d)
        PROVE  Gets(th, c)
      BY <2>2 DEF Looks, Gets, WorksOn, MayBegin
  <2> QED
      BY <1>1, <2>0, <2>1, <2>2, IoctlGoes DEF ObjectKind
<1>2. ASSUME NEW th \in Threads, NEW p \in Ports, NEW v \in BOOLEAN, BeginPower(th, p, v)
      PROVE  \E c \in Call : ObjectKind(th, c)
    BY <1>2, <1>b, PortGoes DEF BeginPower, DataUnchanged, ObjectKind
<1>3. ASSUME NEW th \in Hubs, NEW p \in Ports, BeginReset(th, p)
      PROVE  \E c \in Call : ObjectKind(th, c)
    BY <1>3, <1>b, PortGoes DEF BeginReset, DataUnchanged, ObjectKind, Threads
<1>4. ASSUME NEW th \in Hubs, HubStep(th)
      PROVE  \E c \in Call : ObjectKind(th, c)
  <2>0. th \in Threads /\ call[th] \in Call /\ CallOK(call[th])
      BY DEF Threads, TypeOK, CallsOK
  <2>1. WorksOn(call[th]) = NoObject /\ UNCHANGED <<objectVars, peerVars>>
      BY <1>4, <2>0 DEF HubStep, ResetPort, Train, WorksOn, CallOK, DataUnchanged
  <2>2. PICK c \in Call : Enters(th, c) /\ WorksOn(c) = NoObject
    <3>1. ASSUME NEW c \in Call, Enters(th, c), c.pc = "idle"
          PROVE  WorksOn(c) = NoObject
        BY <3>1 DEF WorksOn
    <3>2. ASSUME NEW c \in Call,
                 Sets(th, c, "train", call[th].ret, call[th].port, call[th].was),
                 ResetPort(th)
          PROVE  Enters(th, c) /\ WorksOn(c) = NoObject
        BY <2>0, <3>2 DEF Sets, WorksOn, ResetPort, CallOK
    <3> QED
        BY <1>4, <2>0, <3>1, <3>2, HubGoes DEF HubStep
  <2> QED
      BY <1>p, <2>1, <2>2 DEF Keeps, ObjectKind
<1>5. ASSUME NEW th \in Hubs, NEW p \in Ports,
             Feature(th, p) \/ Acknowledge(th, p) \/ ReadStatus(th, p)
      PROVE  UNCHANGED <<objectVars, peerVars, call>>
    BY <1>5 DEF Feature, Acknowledge, ReadStatus
<1>6. CASE UNCHANGED vars
    BY <1>6 DEF vars
<1> QED
    BY <1>1, <1>2, <1>3, <1>4, <1>5, <1>6, HandlerKind DEF Next, HubRequest, Threads

\* The handlers that work on a device change by at most the one that steps.
LEMMA UsersMove ==
    ASSUME TypeOK, NEW th \in Threads, NEW c \in Call, Enters(th, c),
           NEW d \in Objects, IsFiniteSet(Users(d))
    PROVE  /\ IsFiniteSet(Users(d)') /\ Cardinality(Users(d)') \in Nat
           /\ Cardinality(Users(d)) \in Nat
           /\ Cardinality(Users(d)') = Cardinality(Users(d))
                 + (IF WorksOn(c) = d THEN 1 ELSE 0)
                 - (IF WorksOn(call[th]) = d THEN 1 ELSE 0)
<1>0. NoObject # d /\ call \in [Threads -> Call]
      /\ \A x \in Threads : call'[x] = IF x = th THEN c ELSE call[x]
    BY DEF TypeOK, Enters, NoObject, Objects
<1>1. /\ \A x : x \in Users(d) <=> x \in Threads /\ WorksOn(call[x]) = d
      /\ \A x : x \in Users(d)' <=> x \in Threads /\ call'[x].pc # "idle"
                                                  /\ call'[x].dev = d
    BY <1>0 DEF Users, WorksOn
<1>2. \A x : x \in Users(d)' <=>
                IF x = th THEN WorksOn(c) = d ELSE x \in Users(d)
    BY <1>0, <1>1 DEF WorksOn
<1>3. th \in Users(d) <=> WorksOn(call[th]) = d
    BY <1>1
<1>4. PICK U, V : U = Users(d) /\ V = Users(d)'
    OBVIOUS
<1>5. IsFiniteSet(U) /\ Cardinality(U) \in Nat
    BY <1>4, FS_CardinalityType
<1>6. CASE WorksOn(c) = d /\ WorksOn(call[th]) # d
  <2>1. V = U \cup {th} /\ th \notin U
      BY <1>2, <1>3, <1>4, <1>6
  <2>2. IsFiniteSet(V) /\ Cardinality(V) = Cardinality(U) + 1
      BY <1>5, <2>1, FS_AddElement
  <2> QED
      BY <1>4, <1>5, <1>6, <2>2
<1>7. CASE WorksOn(c) # d /\ WorksOn(call[th]) = d
  <2>1. V = U \ {th} /\ th \in U
      BY <1>2, <1>3, <1>4, <1>7
  <2>2. IsFiniteSet(V) /\ Cardinality(V) = Cardinality(U) - 1
      BY <1>5, <2>1, FS_RemoveElement
  <2>3. Cardinality(V) \in Nat
      BY <2>2, FS_CardinalityType
  <2> QED
      BY <1>4, <1>5, <1>7, <2>2, <2>3
<1>8. CASE (WorksOn(c) = d) <=> (WorksOn(call[th]) = d)
  <2>1. V = U
      BY <1>2, <1>3, <1>4, <1>8
  <2> QED
      BY <1>4, <1>5, <1>8, <2>1
<1> QED
    BY <1>6, <1>7, <1>8

\* References are counted exactly by every kind of step; none is dropped twice.
LEMMA RefsStep ==
    ASSUME ObjectInv, [Next]_vars
    PROVE  RefsInv' /\ refs' \in [Objects -> Nat]
<1> DEFINE R(d) == IF d \in registry THEN 1 ELSE 0
           B(d) == IF d \in bound THEN 1 ELSE 0
           N(d) == Cardinality(Users(d))
<1>0. /\ TypeOK /\ CallsOK /\ refs \in [Objects -> Nat] /\ NoObject \notin Objects
      /\ registry \subseteq Objects
      /\ \A d \in Objects : /\ IsFiniteSet(Users(d)) /\ N(d) \in Nat
                            /\ refs[d] = R(d) + B(d) + N(d)
    BY FS_CardinalityType DEF ObjectInv, RefsInv, TypeOK, NoObject, Objects
<1> SUFFICES /\ refs' \in [Objects -> Int]
             /\ \A d \in Objects : /\ IsFiniteSet(Users(d)') /\ N(d)' \in Nat
                                   /\ refs'[d] = R(d)' + B(d)' + N(d)'
    BY DEF RefsInv
<1>1. ASSUME NEW th \in Threads, NEW c \in Call, ObjectKind(th, c)
      PROVE  /\ refs' \in [Objects -> Int]
             /\ \A d \in Objects : /\ IsFiniteSet(Users(d)') /\ N(d)' \in Nat
                                   /\ refs'[d] = R(d)' + B(d)' + N(d)'
  <2>1. Enters(th, c)
      BY <1>1 DEF ObjectKind, Keeps, Makes, Gets, Puts, Forgets, Binds
  <2>2. \A d \in Objects :
           /\ IsFiniteSet(Users(d)') /\ N(d)' \in Nat
           /\ N(d)' = N(d) + (IF WorksOn(c) = d THEN 1 ELSE 0)
                           - (IF WorksOn(call[th]) = d THEN 1 ELSE 0)
      BY <1>0, <2>1, UsersMove
  <2> SUFFICES /\ refs' \in [Objects -> Int]
               /\ \A d \in Objects : refs'[d] = R(d)' + B(d)' + N(d)'
      BY <2>2
  <2> HIDE DEF N
  <2>3. CASE Keeps(th, c)
      BY <1>0, <2>2, <2>3 DEF Keeps, objectVars
  <2>4. CASE Makes(th, c)
    <3>1. next_object_id \notin registry /\ next_object_id \notin bound
          /\ next_object_id \in Int
        BY <2>4 DEF ObjectInv, IdInv, Makes, Objects
    <3>2. N(next_object_id) = 0
      <4>1. \A x \in Threads : WorksOn(call[x]) # next_object_id
          BY <2>4, <3>1 DEF ObjectInv, IdInv, Makes
      <4>2. Users(next_object_id) = {}
          BY <4>1 DEF Users, WorksOn
      <4> QED
          BY <4>2, FS_EmptySet DEF N
    <3> QED
        BY <1>0, <2>2, <2>4, <3>1, <3>2 DEF Makes
  <2>5. CASE Gets(th, c)
      BY <1>0, <2>2, <2>5 DEF Gets
  <2>6. CASE Puts(th, c)
      BY <1>0, <2>2, <2>6 DEF Puts
  <2>7. CASE Forgets(th, c)
      BY <1>0, <2>2, <2>7 DEF Forgets
  <2>8. CASE Binds(th, c)
      BY <1>0, <2>2, <2>8 DEF Binds
  <2> QED
      BY <1>1, <2>3, <2>4, <2>5, <2>6, <2>7, <2>8 DEF ObjectKind
<1>2. ASSUME NEW e \in Objects, Unbind(e)
      PROVE  /\ refs' \in [Objects -> Int]
             /\ \A d \in Objects : /\ IsFiniteSet(Users(d)') /\ N(d)' \in Nat
                                   /\ refs'[d] = R(d)' + B(d)' + N(d)'
  <2>1. \A d \in Objects : Users(d)' = Users(d)
      BY <1>2 DEF Unbind, Users
  <2>2. \A d \in Objects : IsFiniteSet(Users(d)') /\ N(d)' = N(d)
      BY <1>0, <2>1
  <2> HIDE DEF N
  <2> QED
      BY <1>0, <1>2, <2>2 DEF Unbind
<1>3. ASSUME UNCHANGED <<objectVars, peerVars, call>>
      PROVE  /\ refs' \in [Objects -> Int]
             /\ \A d \in Objects : /\ IsFiniteSet(Users(d)') /\ N(d)' \in Nat
                                   /\ refs'[d] = R(d)' + B(d)' + N(d)'
  <2>1. \A d \in Objects : Users(d)' = Users(d)
      BY <1>3 DEF Users
  <2>2. \A d \in Objects : IsFiniteSet(Users(d)') /\ N(d)' = N(d)
      BY <1>0, <2>1
  <2> HIDE DEF N
  <2> QED
      BY <1>0, <1>3, <2>2 DEF objectVars
<1> QED
    BY <1>0, <1>1, <1>2, <1>3, ObjectKinds

\* Only the id that virtusb_object_register draws comes into use.
LEMMA IdStep ==
    ASSUME ObjectInv, [Next]_vars
    PROVE  IdInv' /\ CallsOK' /\ call' \in [Threads -> Call]
<1>0. /\ TypeOK /\ CallsOK /\ IdInv /\ next_object_id \in Int /\ NoObject = 0
      /\ next_object_id >= 1 /\ call \in [Threads -> Call]
      /\ dpeer \in [Ports -> Objects \cup {NoObject}]
      /\ \A th \in Threads : WorksOn(call[th]) \in Objects \cup {NoObject}
      /\ \A d \in Objects : d \in Int
      /\ registry \subseteq Objects /\ bound \subseteq Objects
  <2>1. \A c \in Call : WorksOn(c) \in Objects \cup {NoObject}
      BY DEF WorksOn, Call
  <2> QED
      BY <2>1, TopologyAssumption DEF ObjectInv, TypeOK, NoObject, Objects
<1>1. ASSUME NEW th \in Threads, NEW c \in Call, ObjectKind(th, c)
      PROVE  IdInv' /\ CallsOK' /\ call' \in [Threads -> Call]
  <2>1. Enters(th, c)
      BY <1>1 DEF ObjectKind, Keeps, Makes, Gets, Puts, Forgets, Binds
  <2>2. /\ \A x \in Threads : call'[x] = IF x = th THEN c ELSE call[x]
        /\ call' \in [Threads -> Call] /\ CallOK(c)
      BY <1>0, <2>1 DEF Enters
  <2>3. CallsOK'
      BY <1>0, <2>2 DEF CallsOK, CallOK
  <2>4. WorksOn(call[th]) < next_object_id
      BY <1>0 DEF IdInv
  <2>5. IdInv'
    <3>1. /\ next_object_id' >= next_object_id /\ next_object_id' \in Int
          /\ WorksOn(c) < next_object_id'
        BY <1>0, <1>1, <2>4 DEF ObjectKind, Keeps, Makes, Gets, Puts, Forgets, Binds,
            IdInv, objectVars
    <3>2. \A d \in Objects : d >= next_object_id' =>
             d \notin registry' /\ d \notin bound' /\ caps'[d] = {}
        BY <1>0, <1>1, <2>4, <3>1 DEF ObjectKind, Keeps, Makes, Gets, Puts, Forgets,
            Binds, IdInv, objectVars
    <3>3. PeersMove(WorksOn(call[th]))
        BY <1>1 DEF ObjectKind, Keeps, Makes, Gets, Puts, Forgets, Binds, PeersMove,
            peerVars
    <3>4. \A d \in Objects : d >= next_object_id' => upeer'[d] = NoPort
        BY <1>0, <2>4, <3>1, <3>3 DEF PeersMove, IdInv
    <3>5. \A p \in Ports : dpeer'[p] < next_object_id'
        BY <1>0, <2>4, <3>1, <3>3 DEF PeersMove, IdInv
    <3>6. \A d \in Objects, x \in Threads : d >= next_object_id' =>
             (IF call'[x].pc = "idle" THEN NoObject ELSE call'[x].dev) # d
        BY <1>0, <2>2, <3>1 DEF IdInv, WorksOn
    <3> QED
        BY <3>2, <3>4, <3>5, <3>6 DEF IdInv, WorksOn
  <2> QED
      BY <2>2, <2>3, <2>5
<1>2. ASSUME NEW e \in Objects, Unbind(e)
      PROVE  IdInv' /\ CallsOK' /\ call' \in [Threads -> Call]
    BY <1>0, <1>2 DEF Unbind, IdInv, CallsOK, CallOK, WorksOn, peerVars
<1>3. ASSUME UNCHANGED <<objectVars, peerVars, call>>
      PROVE  IdInv' /\ CallsOK' /\ call' \in [Threads -> Call]
    BY <1>0, <1>3 DEF objectVars, IdInv, CallsOK, CallOK, WorksOn, peerVars
<1> QED
    BY <1>0, <1>1, <1>2, <1>3, ObjectKinds

\* The handlers change peers, lines and the hub's bits within their types.
LEMMA DataStep ==
    ASSUME TypeOK, CallsOK, [Next]_vars
    PROVE  /\ next_object_id' \in 1..(MaxObjects + 1)
           /\ registry' \subseteq Objects /\ bound' \subseteq Objects
           /\ caps' \in [Objects -> Capabilities \cup {{}}]
           /\ signaling' \in [Objects -> BOOLEAN]
           /\ upeer' \in [Objects -> Ports \cup {NoPort}]
           /\ dpeer' \in [Ports -> Objects \cup {NoObject}]
           /\ powered' \subseteq Ports /\ enabled' \subseteq Ports
           /\ speed' \in [Ports -> Speeds]
           /\ c_connected' \subseteq Ports /\ c_reset' \subseteq Ports
           /\ told' \subseteq Ports /\ looking' \subseteq Ports /\ seen' \subseteq Ports
<1> DEFINE Objs == /\ next_object_id \in 1..(MaxObjects + 1)
                   /\ registry \subseteq Objects /\ bound \subseteq Objects
                   /\ caps \in [Objects -> Capabilities \cup {{}}]
           Lines == /\ signaling \in [Objects -> BOOLEAN] /\ powered \subseteq Ports
           Peers == /\ upeer \in [Objects -> Ports \cup {NoPort}]
                    /\ dpeer \in [Ports -> Objects \cup {NoObject}]
           Bits == /\ enabled \subseteq Ports /\ speed \in [Ports -> Speeds]
                   /\ c_connected \subseteq Ports /\ c_reset \subseteq Ports
                   /\ told \subseteq Ports /\ looking \subseteq Ports /\ seen \subseteq Ports
<1> SUFFICES Objs' /\ Lines' /\ Peers' /\ Bits'
    OBVIOUS
<1>0. Objs /\ Lines /\ Peers /\ Bits
    BY DEF TypeOK
<1>1. UNCHANGED objectVars => Objs'
    BY <1>0 DEF objectVars
<1>2. UNCHANGED lineVars => Lines'
    BY <1>0 DEF lineVars
<1>3. UNCHANGED peerVars => Peers'
    BY <1>0 DEF peerVars
<1>4. UNCHANGED <<hubVars, hostVars>> => Bits'
    BY <1>0 DEF hubVars, hostVars
<1>5. ASSUME DataUnchanged PROVE Objs' /\ Lines' /\ Peers' /\ Bits'
    BY <1>1, <1>2, <1>3, <1>4, <1>5 DEF DataUnchanged
<1>6. ASSUME NEW th \in Threads, Step(th) PROVE Objs' /\ Lines' /\ Peers' /\ Bits'
  <2>0. /\ call[th] \in Call /\ CallOK(call[th])
        /\ call[th].dev \in Objects \cup {NoObject} /\ call[th].val \in BOOLEAN
        /\ call[th].port \in Ports \cup {NoPort}
      BY DEF TypeOK, CallsOK, Call
  <2>1. CASE Attach(th) \/ Compare(th) \/ Detach(th) \/ Signal(th) \/ Power(th)
             \/ Destroy(th)
      BY <1>5, <2>1 DEF Attach, Compare, Detach, Signal, Power, Destroy
  <2>2. CASE PutObject(th) \/ Unregister(th) \/ Bind(th)
    <3>1. Objs'
        BY <1>0, <2>0, <2>2 DEF PutObject, Unregister, Bind, At, CallOK, Holding
    <3> HIDE DEF Objs, Lines, Peers, Bits
    <3> QED
        BY <1>2, <1>3, <1>4, <2>2, <3>1 DEF PutObject, Unregister, Bind
  <2>3. CASE Link(th)
    <3>1. Peers'
        BY <1>0, <2>0, <2>3 DEF Link, At, CallOK, Holding
    <3> HIDE DEF Objs, Lines, Peers, Bits
    <3> QED
        BY <1>1, <1>2, <1>4, <2>3, <3>1 DEF Link
  <2>4. CASE Unlink(th)
    <3>1. Peers'
        BY <1>0, <2>0, <2>4 DEF Unlink, At, CallOK, Holding
    <3> HIDE DEF Objs, Lines, Peers, Bits
    <3> QED
        BY <1>1, <1>2, <1>4, <2>4, <3>1 DEF Unlink
  <2>5. CASE Mark(th)
    <3>1. Bits'
        BY <1>0, <2>0, <2>5 DEF Mark, At, CallOK, Holding, MarkConnectionChange,
            Notify, Speeds
    <3> HIDE DEF Objs, Lines, Peers, Bits
    <3> QED
        BY <1>1, <1>2, <1>3, <2>5, <3>1 DEF Mark
  <2>6. CASE Drive(th) \/ Switch(th)
    <3>1. Lines'
        BY <1>0, <2>0, <2>6 DEF Drive, Switch, At, CallOK, Holding
    <3> HIDE DEF Objs, Lines, Peers, Bits
    <3> QED
        BY <1>1, <1>3, <1>4, <2>6, <3>1 DEF Drive, Switch
  <2> QED
      BY <1>6, <2>1, <2>2, <2>3, <2>4, <2>5, <2>6 DEF Step
<1>7. ASSUME NEW th \in Threads, Ioctl(th) PROVE Objs' /\ Lines' /\ Peers' /\ Bits'
  <2>1. ASSUME NEW cs \in Capabilities, Create(th, cs)
        PROVE  Objs' /\ Lines' /\ Peers' /\ Bits'
    <3>1. Objs'
        BY <1>0, <2>1, CreateGoes, TopologyAssumption DEF Create, RegisterObject,
            Objects
    <3> HIDE DEF Objs, Lines, Peers, Bits
    <3> QED
        BY <1>2, <1>3, <1>4, <2>1, <3>1 DEF Create
  <2>2. ASSUME NEW d \in Objects, NEW c \in Call, Looks(th, c, d)
        PROVE  Objs' /\ Lines' /\ Peers' /\ Bits'
    <3>1. Objs'
        BY <1>0, <2>2 DEF Looks
    <3> HIDE DEF Objs, Lines, Peers, Bits
    <3> QED
        BY <1>2, <1>3, <1>4, <2>2, <3>1 DEF Looks
  <2> QED
      BY <1>7, <2>1, <2>2, IoctlGoes
<1>8. ASSUME NEW th \in Hubs, HubStep(th) PROVE Objs' /\ Lines' /\ Peers' /\ Bits'
  <2>0. /\ call[th] \in Call /\ CallOK(call[th]) /\ call[th].speed \in Speeds
      BY DEF TypeOK, CallsOK, Call, Threads
  <2>1. CASE ResetPort(th)
      BY <1>5, <2>1 DEF ResetPort
  <2>2. CASE Train(th)
    <3>1. Bits'
        BY <1>0, <2>0, <2>2 DEF Train, At, CallOK, Notify
    <3> HIDE DEF Objs, Lines, Peers, Bits
    <3> QED
        BY <1>1, <1>2, <1>3, <2>2, <3>1 DEF Train
  <2> QED
      BY <1>8, <2>1, <2>2 DEF HubStep
<1>9. ASSUME NEW th \in Hubs, HubRequest(th) PROVE Objs' /\ Lines' /\ Peers' /\ Bits'
  <2>1. ASSUME NEW p \in Ports, Feature(th, p) \/ Acknowledge(th, p) \/ ReadStatus(th, p)
        PROVE  Objs' /\ Lines' /\ Peers' /\ Bits'
    <3>1. Bits'
        BY <1>0, <2>1 DEF Feature, Acknowledge, ReadStatus, hubVars, hostVars
    <3> HIDE DEF Objs, Lines, Peers, Bits
    <3> QED
        BY <1>1, <1>2, <1>3, <2>1, <3>1 DEF Feature, Acknowledge, ReadStatus
  <2>2. ASSUME NEW p \in Ports, BeginReset(th, p)
        PROVE  Objs' /\ Lines' /\ Peers' /\ Bits'
      BY <1>5, <2>2 DEF BeginReset
  <2> QED
      BY <1>9, <2>1, <2>2 DEF HubRequest
<1>10. ASSUME NEW d \in Objects, Unbind(d) PROVE Objs' /\ Lines' /\ Peers' /\ Bits'
  <2>1. Objs'
      BY <1>0, <1>10 DEF Unbind
  <2> HIDE DEF Objs, Lines, Peers, Bits
  <2> QED
      BY <1>2, <1>3, <1>4, <1>10, <2>1 DEF Unbind
<1>11. ASSUME NEW th \in Threads, NEW p \in Ports, NEW v \in BOOLEAN,
              BeginPower(th, p, v)
       PROVE  Objs' /\ Lines' /\ Peers' /\ Bits'
    BY <1>5, <1>11 DEF BeginPower
<1>12. ASSUME UNCHANGED vars PROVE Objs' /\ Lines' /\ Peers' /\ Bits'
    BY <1>5, <1>12 DEF vars, DataUnchanged
<1> HIDE DEF Objs, Lines, Peers, Bits
<1> QED
    BY <1>6, <1>7, <1>8, <1>9, <1>10, <1>11, <1>12 DEF Next, Threads

\* There are no objects yet.
LEMMA ObjectInit == Init => ObjectInv
<1> SUFFICES ASSUME Init PROVE ObjectInv
    OBVIOUS
<1>0. \A th \in Threads : call[th] = Idle
    BY DEF Init
<1>1. TypeOK
  <2>1. signaling \in [Objects -> BOOLEAN]
      BY Zenon DEF Init
  <2>2. call \in [Threads -> Call]
      BY IdleFacts DEF Init
  <2>3. /\ next_object_id \in 1..(MaxObjects + 1)
        /\ speed \in [Ports -> Speeds]
        /\ dpeer \in [Ports -> Objects \cup {NoObject}]
      BY TopologyAssumption DEF Init, Speeds
  <2>4. /\ registry \subseteq Objects /\ bound \subseteq Objects
        /\ refs \in [Objects -> Nat] /\ caps \in [Objects -> Capabilities \cup {{}}]
        /\ upeer \in [Objects -> Ports \cup {NoPort}]
        /\ powered \subseteq Ports /\ enabled \subseteq Ports
        /\ c_connected \subseteq Ports /\ c_reset \subseteq Ports
        /\ told \subseteq Ports /\ looking \subseteq Ports /\ seen \subseteq Ports
      BY DEF Init
  <2> QED
      BY <2>1, <2>2, <2>3, <2>4 DEF TypeOK
<1>2. CallsOK
    BY <1>0, IdleFacts DEF CallsOK, CallOK, Holding
<1>3. IdInv
    BY <1>0, IdleFacts DEF Init, IdInv, WorksOn, NoObject, Objects
<1>4. RefsInv
  <2>1. \A d : Users(d) = {}
      BY <1>0, IdleFacts DEF Users
  <2> QED
      BY <2>1, FS_EmptySet DEF RefsInv, Init
<1> QED
    BY <1>1, <1>2, <1>3, <1>4 DEF ObjectInv

\* Every step keeps the invariant of the objects.
LEMMA ObjectStep ==
    ASSUME ObjectInv, [Next]_vars
    PROVE  ObjectInv'
<1>1. TypeOK'
    BY RefsStep, IdStep, DataStep DEF ObjectInv, TypeOK
<1> QED
    BY <1>1, RefsStep, IdStep DEF ObjectInv

\* The invariant of the objects, however the handlers meet.
THEOREM ObjectInvariance == Spec => []ObjectInv
<1> QED
    BY ObjectInit, ObjectStep, PTL DEF Spec

\* The variables keep their shape; so no kref falls below zero and the ids end
\* at MaxObjects.
THEOREM TypeCorrect == Spec => []TypeOK
<1>1. ObjectInv => TypeOK
    BY DEF ObjectInv
<1> QED
    BY <1>1, ObjectInvariance, PTL

\* A device's kref counts the registry, its binding and the handlers that work
\* on it, whether or not callers serialize the handlers: no handler, no look-up
\* and no binding uses a freed device through its reference, and none leaks.
THEOREM RefsExact == Spec => []ObjectRefsExact
<1>1. ASSUME ObjectInv PROVE ObjectRefsExact
  <2>1. \A d, S : {d} \cap S = IF d \in S THEN {d} ELSE {}
      OBVIOUS
  <2>2. \A d, S : Cardinality({d} \cap S) = IF d \in S THEN 1 ELSE 0
      BY <2>1, FS_EmptySet, FS_Singleton
  <2> QED
      BY <1>1, <2>2 DEF ObjectInv, RefsInv, ObjectRefsExact
<1> QED
    BY <1>1, ObjectInvariance, PTL

\* virtusb_object_register draws an id once: an id that enters the registry
\* has not named a device before.
THEOREM IdsUnique == Spec => IdsNeverReused
<1>1. ASSUME ObjectInv, [Next]_vars
      PROVE  [\A d \in Objects : d \in registry' \ registry => caps[d] = {}]_vars
  <2>0. TypeOK /\ CallsOK /\ IdInv
      BY <1>1 DEF ObjectInv
  <2>1. ASSUME NEW th \in Threads, NEW c \in Call, ObjectKind(th, c)
        PROVE  \A d \in Objects : d \in registry' \ registry => caps[d] = {}
    <3>1. \A d \in registry' \ registry : d = next_object_id /\ Makes(th, c)
        BY <2>1 DEF ObjectKind, Keeps, Makes, Gets, Puts, Forgets, Binds, objectVars
    <3> QED
        BY <2>0, <3>1 DEF IdInv, Objects
  <2>2. ASSUME registry' = registry
        PROVE  \A d \in Objects : d \in registry' \ registry => caps[d] = {}
      BY <2>2
  <2> QED
      BY <1>1, <2>0, <2>1, <2>2, ObjectKinds DEF Unbind, objectVars
<1> QED
    BY <1>1, ObjectInvariance, PTL DEF Spec, IdsNeverReused

-----------------------------------------------------------------------------
(* Peers and ports, when handlers run one at a time.                       *)

\* An enabled port, and one with a speed, is connected and runs at the fastest
\* speed of its device.
PortSane(p) ==
    /\ p \in enabled => speed[p] # "none"
    /\ speed[p] # "none" => Connected(p) /\ speed[p] = Fastest(caps[dpeer[p]])

\* The hub driver knows whether the port is connected, or was told of a change,
\* or has yet to read the port's status.
PortKnown(p) == (Connected(p) <=> p \in seen) \/ p \in c_connected \cup looking

\* What handler c has read is still so, and what it has changed and not
\* reported is all that the hub does not know.
HandlerOK(c) ==
    /\ c.pc \in {"attach", "link"} => c.dev \in registry
    /\ c.pc = "link" => dpeer[c.port] = NoObject /\ upeer[c.dev] = NoPort /\ ~c.was
    /\ c.pc \in {"unlink", "drive"} =>
          /\ c.port = upeer[c.dev]
          /\ c.was <=> (c.port # NoPort /\ Connected(c.port))
    /\ c.pc = "switch" => (c.was <=> Connected(c.port))
    /\ c.pc = "compare" =>
          /\ ~c.was => speed[c.port] = "none"
          /\ c.port \in enabled => speed[c.port] # "none"
          /\ speed[c.port] # "none" => /\ dpeer[c.port] # NoObject
                                       /\ speed[c.port] = Fastest(caps[dpeer[c.port]])
          /\ (c.was <=> c.port \in seen) \/ c.port \in c_connected \cup looking
    /\ c.pc = "mark" => (Connected(c.port) => /\ speed[c.port] = "none"
                                              /\ c.port \notin enabled)
    /\ c.pc = "train" =>
          Connected(c.port) /\ c.speed = Fastest(caps[dpeer[c.port]])
    /\ c.pc = "unregister" \/ (c.pc = "mark" /\ c.ret = "unregister") =>
          upeer[c.dev] = NoPort

\* All ports are as they should be, but the one c has still to report.
PortsOK(c) ==
    \A p \in Ports :
        \/ c.pc \in {"compare", "mark"} /\ c.port = p
        \/ PortSane(p) /\ PortKnown(p)

PeersOK == PeersReciprocal /\ UnregisteredIsDetached /\ c_connected \subseteq told

\* The state while c is the only handler.
Solo(c) == PeersOK /\ HandlerOK(c) /\ PortsOK(c)

\* Handler c is the only one, or there is none and c is idle.
Runs(c) ==
    \/ c.pc = "idle" /\ \A x \in Threads : At(x, "idle")
    \/ \E th \in Threads : /\ c = call[th] /\ c.pc # "idle"
                           /\ \A x \in Threads \ {th} : At(x, "idle")

SerialInv == \E c \in Call : Runs(c) /\ Solo(c)

\* The handler that runs is the only one.
LEMMA Running ==
    ASSUME TypeOK, SerialInv, NEW th \in Threads, ~At(th, "idle")
    PROVE  Solo(call[th]) /\ \A x \in Threads \ {th} : At(x, "idle")
BY DEF SerialInv, Runs, At

\* A handler begins when none runs.
LEMMA Resting ==
    ASSUME TypeOK, SerialInv, Serialized, NEW th \in Threads, MayBegin(th)
    PROVE  /\ PeersOK /\ \A p \in Ports : PortSane(p) /\ PortKnown(p)
           /\ \A x \in Threads : At(x, "idle")
<1>1. \A x \in Threads : At(x, "idle")
    BY DEF MayBegin
<1>2. PICK c \in Call : Runs(c) /\ Solo(c)
    BY DEF SerialInv
<1>3. c.pc = "idle"
    BY <1>1, <1>2 DEF Runs, At
<1> QED
    BY <1>1, <1>2, <1>3 DEF Solo, PortsOK

\* A handler that runs alone and goes on runs alone.
LEMMA RunsOn ==
    ASSUME TypeOK, NEW th \in Threads, NEW c \in Call, Enters(th, c),
           \A x \in Threads \ {th} : At(x, "idle"), Solo(c)'
    PROVE  SerialInv'
<1>1. \A x \in Threads : call'[x] = IF x = th THEN c ELSE call[x]
    BY DEF TypeOK, Enters
<1>2. Runs(c)'
    BY <1>1 DEF Runs, At
<1> QED
    BY <1>2 DEF SerialInv

\* A device that is attached is registered and so not freed: the handlers find
\* what is so.
LEMMA FindsTrue ==
    ASSUME ObjectInv, PeersOK, NEW p \in Ports
    PROVE  /\ \A is \in Finds(p) : is <=> Connected(p)
           /\ \A s \in DeterminedSpeed(p) :
                 s # "none" => dpeer[p] # NoObject /\ s = Fastest(caps[dpeer[p]])
<1>1. dpeer[p] # NoObject => ~Freed(dpeer[p])
  <2> SUFFICES ASSUME dpeer[p] # NoObject PROVE ~Freed(dpeer[p])
      OBVIOUS
  <2>1. PICK d \in Objects : d = dpeer[p]
      BY DEF ObjectInv, TypeOK
  <2>2. upeer[d] = p /\ p # NoPort
      BY <2>1, TopologyAssumption DEF PeersOK, PeersReciprocal
  <2>3. d \in registry
      BY <2>2 DEF PeersOK, UnregisteredIsDetached
  <2>4. refs[d] >= 1
    <3>1. Cardinality(Users(d)) \in Nat
        BY FS_CardinalityType DEF ObjectInv, RefsInv
    <3> QED
        BY <2>3, <3>1 DEF ObjectInv, RefsInv
  <2> QED
      BY <2>1, <2>4 DEF Freed
<1>2. Finds(p) = {Connected(p)}
    BY <1>1, Zenon DEF Finds
<1>3. \A is \in Finds(p) : is <=> Connected(p)
    BY <1>2, Zenon
<1>4. \A s \in DeterminedSpeed(p) :
         s # "none" => dpeer[p] # NoObject /\ s = Fastest(caps[dpeer[p]])
    BY <1>1 DEF DeterminedSpeed
<1> QED
    BY <1>3, <1>4

\* A step that leaves peers, lines, the hub and the speeds of attached devices
\* alone.
Quiet == /\ UNCHANGED <<peerVars, lineVars, hubVars, hostVars>>
         /\ \A p \in Ports : dpeer[p] # NoObject => caps'[dpeer[p]] = caps[dpeer[p]]

\* Such a step changes nothing that is said of ports.
LEMMA QuietPorts ==
    ASSUME TypeOK, Quiet
    PROVE  /\ PeersReciprocal => PeersReciprocal'
           /\ c_connected \subseteq told => (c_connected \subseteq told)'
           /\ \A p \in Ports : /\ Connected(p)' <=> Connected(p)
                               /\ PortSane(p) => PortSane(p)'
                               /\ PortKnown(p)' <=> PortKnown(p)
<1>1. \A p \in Ports : Connected(p)' <=> Connected(p)
    BY Zenon DEF Quiet, Connected, peerVars, lineVars
<1>2. \A p \in Ports : PortKnown(p)' <=> PortKnown(p)
    BY <1>1 DEF PortKnown, Quiet, hubVars, hostVars
<1>3. \A p \in Ports : Connected(p) => dpeer[p] # NoObject
    BY DEF Connected
<1>4. \A p \in Ports : PortSane(p) => PortSane(p)'
    BY <1>1, <1>3 DEF PortSane, Quiet, hubVars, peerVars
<1> QED
    BY <1>1, <1>2, <1>4 DEF PeersReciprocal, Quiet, peerVars, hubVars, hostVars

\* A handler between a begin and its first change, or past its report, has all
\* ports in order.
LEMMA AllPorts ==
    ASSUME NEW c \in Call, PortsOK(c), c.pc \notin {"compare", "mark"}
    PROVE  \A p \in Ports : PortSane(p) /\ PortKnown(p)
BY DEF PortsOK

\* At these places a handler has read nothing that must remain so.
Free == {"idle", "detach", "signal", "power", "destroy", "force", "bind", "reset",
         "put"}

\* A quiet step to such a place, or to one whose readings are given.
LEMMA QuietSolo ==
    ASSUME TypeOK, Quiet, PeersOK, UnregisteredIsDetached', NEW c \in Call,
           \A p \in Ports : PortSane(p) /\ PortKnown(p),
           c.pc \in Free \/ HandlerOK(c)'
    PROVE  Solo(c)'
<1>1. HandlerOK(c)'
    BY DEF HandlerOK, Free
<1> QED
    BY <1>1, QuietPorts DEF Solo, PeersOK, PortsOK

\* A step that leaves all data alone is quiet.
LEMMA DataQuiet ==
    ASSUME DataUnchanged, UnregisteredIsDetached
    PROVE  /\ Quiet /\ UnregisteredIsDetached'
           /\ UNCHANGED <<registry, caps, upeer, dpeer, speed, enabled>>
BY DEF DataUnchanged, Quiet, UnregisteredIsDetached, objectVars, peerVars, hubVars

\* A handler that runs alone goes on and leaves the state in order.
GoesOn(th) == \E c \in Call : Enters(th, c) /\ Solo(c)'

\* Steps that only read, or that end a handler or its use of an object.
LEMMA ReadersSolo ==
    ASSUME ObjectInv, NEW th \in Threads, Solo(call[th]),
           \/ Attach(th) \/ Detach(th) \/ Signal(th) \/ Power(th) \/ Destroy(th)
           \/ PutObject(th) \/ Bind(th) \/ Unregister(th) \/ ResetPort(th)
    PROVE  GoesOn(th)
<1>0. PICK o \in Call : o = call[th]
    BY DEF ObjectInv, TypeOK
<1>1. /\ TypeOK /\ CallsOK /\ CallOK(o) /\ PeersOK /\ HandlerOK(o) /\ PortsOK(o)
      /\ upeer \in [Objects -> Ports \cup {NoPort}] /\ NoPort \notin Ports
    BY <1>0, TopologyAssumption DEF ObjectInv, CallsOK, Solo, TypeOK
<1>2. \A p \in Ports : PortSane(p) /\ PortKnown(p)
  <2>1. o.pc \notin {"compare", "mark"}
      BY <1>0 DEF Attach, Detach, Signal, Power, Destroy, PutObject, Bind, Unregister,
          ResetPort, At
  <2> QED
      BY <1>1, <2>1, AllPorts
<1>3. \A p \in Ports : \A is \in Finds(p) : is <=> Connected(p)
    BY <1>1, FindsTrue
<1>f. ASSUME NEW c \in Call, Enters(th, c), c.pc \in Free, Quiet,
             UnregisteredIsDetached'
      PROVE  GoesOn(th)
    BY <1>1, <1>2, <1>f, QuietSolo DEF GoesOn
<1>4. CASE Attach(th)
  <2>1. Quiet /\ UnregisteredIsDetached' /\ UNCHANGED <<registry, upeer, dpeer>>
      BY <1>1, <1>4, DataQuiet DEF Attach, PeersOK
  <2>2. PICK c \in Call :
              \/ Goes(th, c, "put")
              \/ /\ Sets(th, c, "link", o.ret, o.port, FALSE)
                 /\ dpeer[o.port] = NoObject /\ upeer[o.dev] = NoPort
      BY <1>0, <1>1, <1>4, AttachGoes
  <2>3. CASE Goes(th, c, "put")
      BY <1>f, <2>1, <2>3 DEF Goes, Free
  <2>4. CASE /\ Sets(th, c, "link", o.ret, o.port, FALSE)
             /\ dpeer[o.port] = NoObject /\ upeer[o.dev] = NoPort
    <3>1. Enters(th, c) /\ c.pc = "link" /\ c.dev = o.dev /\ c.port = o.port /\ ~c.was
        BY <1>0, <2>4 DEF Sets
    <3>2. o.dev \in registry
        BY <1>0, <1>1, <1>4 DEF HandlerOK, Attach, At
    <3>3. HandlerOK(c)'
        BY <2>1, <2>4, <3>1, <3>2 DEF HandlerOK
    <3>4. Solo(c)'
        BY <1>1, <1>2, <2>1, <3>3, QuietSolo
    <3> QED
        BY <3>1, <3>4 DEF GoesOn
  <2> QED
      BY <2>2, <2>3, <2>4
<1>r. ASSUME NEW c \in Call, NEW q \in {"unlink", "drive"}, NEW r,
             NEW was \in BOOLEAN, Sets(th, c, q, r, upeer[o.dev], was),
             upeer[o.dev] = NoPort => was = FALSE,
             upeer[o.dev] # NoPort => was \in Finds(upeer[o.dev]),
             o.dev \in Objects, DataUnchanged
      PROVE  GoesOn(th)
  <2>1. Quiet /\ UnregisteredIsDetached' /\ UNCHANGED <<upeer>>
      BY <1>1, <1>r, DataQuiet DEF PeersOK
  <2>2. PICK p \in Ports \cup {NoPort} : p = upeer[o.dev]
      BY <1>1, <1>r
  <2>3. was <=> (p # NoPort /\ Connected(p))
      BY <1>3, <1>r, <2>2
  <2>4. Enters(th, c) /\ c.pc = q /\ c.dev = o.dev /\ c.port = p /\ c.was = was
      BY <1>0, <1>r, <2>2 DEF Sets
  <2>5. p \in Ports => (Connected(p)' <=> Connected(p))
      BY <1>1, <2>1, QuietPorts
  <2>6. HandlerOK(c)'
      BY <2>1, <2>2, <2>3, <2>4, <2>5 DEF HandlerOK
  <2>7. Solo(c)'
      BY <1>1, <1>2, <2>1, <2>6, QuietSolo
  <2> QED
      BY <2>4, <2>7 DEF GoesOn
<1>5. CASE Detach(th)
  <2>1. o.dev \in Objects /\ DataUnchanged
      BY <1>0, <1>1, <1>5 DEF Detach, At, CallOK, Holding
  <2>2. PICK r : r = IF o.ret = "detach" THEN "unregister" ELSE "put"
      OBVIOUS
  <2>3. PICK c \in Call, was \in BOOLEAN :
              /\ Sets(th, c, "unlink", r, upeer[o.dev], was)
              /\ upeer[o.dev] = NoPort => was = FALSE
              /\ upeer[o.dev] # NoPort => was \in Finds(upeer[o.dev])
      BY <1>0, <1>1, <1>5, <2>2, DetachGoes
  <2> QED
      BY <1>r, <2>1, <2>3
<1>6. CASE Signal(th)
  <2>1. o.dev \in Objects /\ DataUnchanged
      BY <1>0, <1>1, <1>6 DEF Signal, At, CallOK, Holding
  <2> QED
      BY <1>0, <1>1, <1>6, <1>r, <2>1, SignalGoes
<1>7. CASE Power(th)
  <2>1. Quiet /\ UnregisteredIsDetached'
      BY <1>1, <1>7, DataQuiet DEF PeersOK, Power
  <2>2. PICK p \in Ports : p = o.port
      BY <1>0, <1>1, <1>7 DEF Power, At, CallOK
  <2>3. PICK c \in Call, was \in Finds(p) : Sets(th, c, "switch", o.ret, p, was)
      BY <1>0, <1>1, <1>7, <2>2, PowerGoes
  <2>4. Enters(th, c) /\ c.pc = "switch" /\ c.port = p /\ (c.was <=> Connected(p))
      BY <1>3, <2>3 DEF Sets
  <2>5. Connected(p)' <=> Connected(p)
      BY <1>1, <2>1, QuietPorts
  <2>6. HandlerOK(c)'
      BY <2>4, <2>5 DEF HandlerOK
  <2>7. Solo(c)'
      BY <1>1, <1>2, <2>1, <2>6, QuietSolo
  <2> QED
      BY <2>4, <2>7 DEF GoesOn
<1>8. CASE Destroy(th)
  <2>1. Quiet /\ UnregisteredIsDetached' /\ UNCHANGED upeer
      BY <1>1, <1>8, DataQuiet DEF Destroy, PeersOK
  <2>2. PICK c \in Call :
              \/ Goes(th, c, "unregister") /\ upeer[o.dev] = NoPort
              \/ Goes(th, c, "put")
              \/ Sets(th, c, "signal", "detach", o.port, o.was)
      BY <1>0, <1>1, <1>8, DestroyGoes
  <2>3. CASE Goes(th, c, "unregister") /\ upeer[o.dev] = NoPort
    <3>1. Enters(th, c) /\ c.pc = "unregister" /\ c.dev = o.dev
        BY <1>0, <2>3 DEF Goes
    <3>2. HandlerOK(c)'
        BY <2>1, <2>3, <3>1 DEF HandlerOK
    <3>3. Solo(c)'
        BY <1>1, <1>2, <2>1, <3>2, QuietSolo
    <3> QED
        BY <3>1, <3>3 DEF GoesOn
  <2>4. CASE Goes(th, c, "put")
      BY <1>f, <2>1, <2>4 DEF Goes, Free
  <2>5. CASE Sets(th, c, "signal", "detach", o.port, o.was)
      BY <1>f, <2>1, <2>5 DEF Sets, Free
  <2> QED
      BY <2>2, <2>3, <2>4, <2>5
<1>9. CASE PutObject(th) \/ Bind(th) \/ Unregister(th)
  <2>1. Quiet
      BY <1>9 DEF PutObject, Bind, Unregister, Quiet
  <2>2. UnregisteredIsDetached'
    <3>1. CASE PutObject(th) \/ Bind(th)
        BY <1>1, <3>1 DEF PutObject, Bind, PeersOK, UnregisteredIsDetached, peerVars
    <3>2. CASE Unregister(th)
      <4>1. upeer[o.dev] = NoPort
          BY <1>0, <1>1, <3>2 DEF HandlerOK, Unregister, At
      <4> QED
          BY <1>0, <1>1, <3>2, <4>1 DEF Unregister, PeersOK, UnregisteredIsDetached,
              peerVars
    <3> QED
        BY <1>9, <3>1, <3>2
  <2>3. PICK c \in Call : Enters(th, c) /\ c.pc \in {"idle", "put"}
      BY <1>1, <1>9, StepGoes DEF Goes
  <2> QED
      BY <1>f, <2>1, <2>2, <2>3 DEF Free
<1>10. CASE ResetPort(th)
  <2>1. Quiet /\ UnregisteredIsDetached' /\ UNCHANGED <<dpeer, caps>>
      BY <1>1, <1>10, DataQuiet DEF ResetPort, PeersOK
  <2>2. PICK p \in Ports : p = o.port
      BY <1>0, <1>1, <1>10 DEF ResetPort, At, CallOK
  <2>3. PICK c \in Call :
                 \/ Enters(th, c) /\ c.pc = "idle"
                 \/ /\ Sets(th, c, "train", o.ret, p, o.was)
                    /\ \E connected \in Finds(p) : connected
                    /\ c.speed \in DeterminedSpeed(p)
                    /\ c.speed # "none"
      BY <1>0, <1>1, <1>10, <2>2, HubGoes
  <2>4. CASE Enters(th, c) /\ c.pc = "idle"
      BY <1>f, <2>1, <2>4 DEF Free
  <2>5. CASE /\ Sets(th, c, "train", o.ret, p, o.was)
             /\ \E connected \in Finds(p) : connected
             /\ c.speed \in DeterminedSpeed(p)
             /\ c.speed # "none"
    <3>1. Connected(p) /\ c.speed = Fastest(caps[dpeer[p]])
        BY <1>1, <2>5, FindsTrue
    <3>2. Enters(th, c) /\ c.pc = "train" /\ c.port = p
        BY <2>5 DEF Sets
    <3>3. Connected(p)' <=> Connected(p)
        BY <1>1, <2>1, QuietPorts
    <3>4. HandlerOK(c)'
        BY <2>1, <3>1, <3>2, <3>3 DEF HandlerOK
    <3>5. Solo(c)'
        BY <1>1, <1>2, <2>1, <3>4, QuietSolo
    <3> QED
        BY <3>2, <3>5 DEF GoesOn
  <2> QED
      BY <2>3, <2>4, <2>5
<1> QED
    BY <1>4, <1>5, <1>6, <1>7, <1>8, <1>9, <1>10

\* virtusb_port_attach: the port may have become connected.
LEMMA LinkSolo ==
    ASSUME ObjectInv, NEW th \in Threads, Solo(call[th]), Link(th)
    PROVE  GoesOn(th)
<1>0. PICK o \in Call : o = call[th]
    BY DEF ObjectInv, TypeOK
<1>1. /\ TypeOK /\ CallsOK /\ CallOK(o) /\ PeersOK /\ HandlerOK(o) /\ PortsOK(o)
      /\ upeer \in [Objects -> Ports \cup {NoPort}] /\ NoPort \notin Ports
      /\ dpeer \in [Ports -> Objects \cup {NoObject}] /\ NoObject \notin Objects
      /\ o.pc = "link"
    BY <1>0, TopologyAssumption DEF ObjectInv, CallsOK, Solo, TypeOK, NoObject,
        Objects, Link, At
<1>2. PICK p \in Ports : p = o.port
    BY <1>1 DEF CallOK
<1>3. PICK d \in Objects : d = o.dev
    BY <1>1 DEF CallOK, Holding
<1>4. dpeer[p] = NoObject /\ upeer[d] = NoPort /\ ~o.was /\ d \in registry
    BY <1>1, <1>2, <1>3 DEF HandlerOK
<1>5. PICK c \in Call : Goes(th, c, "compare")
    BY <1>1, StepGoes
<1>6. Enters(th, c) /\ c.pc = "compare" /\ c.port = p /\ ~c.was
    BY <1>0, <1>2, <1>4, <1>5 DEF Goes
<1>7. /\ \A q \in Ports : dpeer'[q] = IF q = p THEN d ELSE dpeer[q]
      /\ \A e \in Objects : upeer'[e] = IF e = d THEN p ELSE upeer[e]
      /\ UNCHANGED <<registry, caps, signaling, powered, enabled, speed,
                     c_connected, told, looking, seen>>
    BY <1>0, <1>1, <1>2, <1>3 DEF Link, objectVars, lineVars, hubVars, hostVars
<1>8. \A q \in Ports \ {p} : Connected(q)' <=> Connected(q)
    BY <1>7, Zenon DEF Connected
<1>9. ~Connected(p) /\ PortSane(p) /\ PortKnown(p)
    BY <1>1, <1>4, AllPorts DEF Connected
<1>10. HandlerOK(c)'
    BY <1>6, <1>7, <1>9 DEF HandlerOK, PortSane, PortKnown
<1>11. PortsOK(c)'
  <2>1. \A q \in Ports \ {p} : PortSane(q)' /\ PortKnown(q)'
      BY <1>1, <1>7, <1>8, AllPorts DEF PortSane, PortKnown
  <2> QED
      BY <1>6, <2>1 DEF PortsOK
<1>12. PeersOK'
    BY <1>1, <1>4, <1>7 DEF PeersOK, PeersReciprocal, UnregisteredIsDetached
<1> QED
    BY <1>6, <1>10, <1>11, <1>12 DEF Solo, GoesOn

\* virtusb_port_detach: the port is connected no longer.
LEMMA UnlinkSolo ==
    ASSUME ObjectInv, NEW th \in Threads, Solo(call[th]), Unlink(th)
    PROVE  GoesOn(th)
<1>0. PICK o \in Call : o = call[th]
    BY DEF ObjectInv, TypeOK
<1>1. /\ TypeOK /\ CallsOK /\ CallOK(o) /\ PeersOK /\ HandlerOK(o) /\ PortsOK(o)
      /\ upeer \in [Objects -> Ports \cup {NoPort}] /\ NoPort \notin Ports
      /\ dpeer \in [Ports -> Objects \cup {NoObject}] /\ NoObject \notin Objects
      /\ o.pc = "unlink"
    BY <1>0, TopologyAssumption DEF ObjectInv, CallsOK, Solo, TypeOK, NoObject,
        Objects, Unlink, At
<1>3. PICK d \in Objects : d = o.dev
    BY <1>1 DEF CallOK, Holding
<1>2. PICK p \in Ports \cup {NoPort} : p = upeer[d]
    BY <1>1
<1>4. o.port = p /\ (o.was <=> (p # NoPort /\ Connected(p)))
      /\ (p # NoPort => dpeer[p] = d)
    BY <1>1, <1>2, <1>3 DEF HandlerOK, PeersOK, PeersReciprocal
<1>5. PICK c \in Call : Goes(th, c, IF o.was THEN "mark" ELSE o.ret)
    BY <1>0, <1>1, StepGoes
<1>6. /\ Enters(th, c) /\ c.dev = d /\ c.pc \in {"mark", "put", "unregister"}
      /\ c.pc = "mark" => o.was /\ c.port = p
      /\ c.pc # "mark" => ~o.was
  <2>1. o.ret \in {"put", "unregister"}
      BY <1>1 DEF CallOK
  <2> QED
      BY <1>0, <1>3, <1>4, <1>5, <2>1 DEF Goes
<1>7. /\ \A q \in Ports : dpeer'[q] = IF q = p THEN NoObject ELSE dpeer[q]
      /\ \A e \in Objects : upeer'[e] = IF e = d THEN NoPort ELSE upeer[e]
      /\ UNCHANGED <<registry, caps, signaling, powered, enabled, speed,
                     c_connected, told, looking, seen>>
    BY <1>0, <1>1, <1>2, <1>3, <1>4 DEF Unlink, objectVars, lineVars, hubVars, hostVars
<1>8. \A q \in Ports \ {p} : Connected(q)' <=> Connected(q)
    BY <1>7, Zenon DEF Connected
<1>9. p \in Ports => ~Connected(p)'
    BY <1>7 DEF Connected
<1>10. HandlerOK(c)'
    BY <1>1, <1>4, <1>6, <1>7, <1>9 DEF HandlerOK
<1>11. PortsOK(c)'
  <2>1. \A q \in Ports \ {p} : PortSane(q)' /\ PortKnown(q)'
      BY <1>1, <1>7, <1>8, AllPorts DEF PortSane, PortKnown
  <2>2. ASSUME p \in Ports, ~o.was PROVE PortSane(p)' /\ PortKnown(p)'
    <3>1. ~Connected(p) /\ PortSane(p) /\ PortKnown(p)
        BY <1>1, <1>4, <2>2, AllPorts
    <3> QED
        BY <1>7, <1>9, <2>2, <3>1 DEF PortSane, PortKnown
  <2> QED
      BY <1>4, <1>6, <2>1, <2>2 DEF PortsOK
<1>12. PeersOK'
    BY <1>1, <1>2, <1>4, <1>7 DEF PeersOK, PeersReciprocal, UnregisteredIsDetached
<1> QED
    BY <1>6, <1>10, <1>11, <1>12 DEF Solo, GoesOn

\* virtusb_port_set_connection_signaling and the power switch of a port: the
\* port may have changed its connection, and the handler goes on to compare.
LEMMA LinesSolo ==
    ASSUME ObjectInv, NEW th \in Threads, Solo(call[th]), Drive(th) \/ Switch(th)
    PROVE  GoesOn(th)
<1>0. PICK o \in Call : o = call[th]
    BY DEF ObjectInv, TypeOK
<1>1. /\ TypeOK /\ CallsOK /\ CallOK(o) /\ PeersOK /\ HandlerOK(o) /\ PortsOK(o)
      /\ upeer \in [Objects -> Ports \cup {NoPort}] /\ NoPort \notin Ports
      /\ dpeer \in [Ports -> Objects \cup {NoObject}] /\ NoObject \notin Objects
      /\ o.pc \in {"drive", "switch"} /\ signaling \in [Objects -> BOOLEAN]
    BY <1>0, TopologyAssumption DEF ObjectInv, CallsOK, Solo, TypeOK, NoObject,
        Objects, Drive, Switch, At
<1>2. \A p \in Ports : PortSane(p) /\ PortKnown(p)
    BY <1>1, AllPorts
<1>3. PICK p \in Ports \cup {NoPort} : p = o.port
    BY <1>1 DEF Call
<1>4. o.was <=> (p # NoPort /\ Connected(p))
    BY <1>1, <1>3 DEF HandlerOK, CallOK
<1>5. /\ UNCHANGED <<registry, caps, upeer, dpeer, enabled, speed, c_connected,
                     told, looking, seen>>
    BY DEF Drive, Switch, objectVars, peerVars, hubVars, hostVars
<1>6. \A q \in Ports \ {p} : Connected(q)' <=> Connected(q)
  <2>1. CASE Drive(th)
    <3>1. \A q \in Ports \ {p} : dpeer[q] # o.dev \/ dpeer[q] = NoObject
        BY <1>0, <1>1, <1>3, <2>1 DEF Drive, At, HandlerOK, PeersOK, PeersReciprocal
    <3>2. /\ \A e \in Objects \ {o.dev} : signaling'[e] = signaling[e]
          /\ powered' = powered
        BY <1>0, <1>1, <2>1 DEF Drive
    <3>3. \A q \in Ports \ {p} :
             dpeer[q] # NoObject => signaling'[dpeer[q]] = signaling[dpeer[q]]
        BY <1>1, <3>1, <3>2
    <3> QED
        BY <1>5, <3>2, <3>3, Zenon DEF Connected
  <2>2. CASE Switch(th)
    <3>1. \A q \in Ports \ {p} : q \in powered' <=> q \in powered
        BY <1>0, <1>3, <2>2 DEF Switch
    <3>2. signaling' = signaling
        BY <2>2 DEF Switch
    <3> QED
        BY <1>5, <3>1, <3>2, Zenon DEF Connected
  <2> QED
      BY <2>1, <2>2
<1>7. PICK c \in Call : /\ Enters(th, c)
                        /\ p # NoPort => /\ c.pc = "compare" /\ c.port = p
                                         /\ c.was = o.was
                        /\ p = NoPort => c.pc \in {"put", "detach"}
  <2>1. o.pc = "switch" => p # NoPort
      BY <1>1, <1>3 DEF CallOK
  <2>2. o.pc = "drive" => o.ret \in {"put", "detach"}
      BY <1>1 DEF CallOK
  <2>3. CASE Drive(th)
    <3>1. PICK c \in Call : Goes(th, c, IF o.port = NoPort THEN o.ret ELSE "compare")
        BY <1>0, <1>1, <2>3, StepGoes
    <3> QED
        BY <1>0, <1>3, <2>2, <2>3, <3>1 DEF Goes, Drive, At
  <2>4. CASE Switch(th)
    <3>1. PICK c \in Call : Goes(th, c, "compare")
        BY <1>1, <2>4, StepGoes
    <3> QED
        BY <1>0, <1>3, <2>1, <2>4, <3>1 DEF Goes, Switch, At
  <2> QED
      BY <2>3, <2>4
<1>8. PeersOK'
    BY <1>1, <1>5 DEF PeersOK, PeersReciprocal, UnregisteredIsDetached
<1>9. \A q \in Ports \ {p} : PortSane(q)' /\ PortKnown(q)'
    BY <1>2, <1>5, <1>6 DEF PortSane, PortKnown
<1>10. PortsOK(c)'
    BY <1>1, <1>7, <1>9 DEF PortsOK
<1>11. HandlerOK(c)'
  <2>1. CASE p = NoPort
      BY <1>7, <2>1 DEF HandlerOK
  <2>2. CASE p # NoPort
    <3>1. p \in Ports /\ PortSane(p) /\ PortKnown(p) /\ (o.was <=> Connected(p))
        BY <1>2, <1>4, <2>2
    <3>2. Connected(p) => dpeer[p] # NoObject
        BY DEF Connected
    <3> QED
        BY <1>5, <1>7, <2>2, <3>1, <3>2 DEF HandlerOK, PortSane, PortKnown
  <2> QED
      BY <2>1, <2>2
<1> QED
    BY <1>7, <1>8, <1>10, <1>11 DEF Solo, GoesOn

\* A handler that finds no change has left the port in order; one that finds a
\* change goes on to report it.
LEMMA CompareSolo ==
    ASSUME ObjectInv, NEW th \in Threads, Solo(call[th]), Compare(th)
    PROVE  GoesOn(th)
<1>0. PICK o \in Call : o = call[th]
    BY DEF ObjectInv, TypeOK
<1>1. /\ TypeOK /\ CallsOK /\ CallOK(o) /\ PeersOK /\ HandlerOK(o) /\ PortsOK(o)
      /\ o.pc = "compare" /\ DataUnchanged
    BY <1>0 DEF ObjectInv, CallsOK, Solo, Compare, At
<1>2. PICK p \in Ports : p = o.port
    BY <1>1 DEF CallOK
<1>3. Quiet /\ UnregisteredIsDetached' /\ UNCHANGED <<speed, enabled>>
    BY <1>1, DataQuiet DEF PeersOK
<1>4. PICK c \in Call, is \in Finds(p) :
         Goes(th, c, IF is # o.was THEN "mark" ELSE o.ret)
    BY <1>0, <1>1, <1>2, StepGoes
<1>5. /\ Enters(th, c)
      /\ \/ c.pc = "mark" /\ c.port = p /\ c.ret = o.ret /\ is # o.was
         \/ c.pc = o.ret /\ is = o.was
    BY <1>0, <1>2, <1>4 DEF Goes
<1>6. is <=> Connected(p)
    BY <1>1, FindsTrue
<1>7. is \in BOOLEAN /\ o.was \in BOOLEAN
    BY FindsBoolean DEF Call
<1>8. o.ret \in {"idle", "put", "detach"}
    BY <1>1 DEF CallOK, Call
<1>9. /\ ~o.was => speed[p] = "none"
      /\ p \in enabled => speed[p] # "none"
      /\ speed[p] # "none" => speed[p] = Fastest(caps[dpeer[p]])
      /\ (o.was <=> p \in seen) \/ p \in c_connected \cup looking
    BY <1>1, <1>2 DEF HandlerOK
<1>10. CASE c.pc = "mark" /\ c.port = p /\ c.ret = o.ret /\ is # o.was
  <2>1. Connected(p)' => speed[p] = "none" /\ p \notin enabled
      BY <1>1, <1>3, <1>6, <1>7, <1>9, <1>10, QuietPorts
  <2>2. HandlerOK(c)'
      BY <1>3, <1>8, <1>10, <2>1 DEF HandlerOK
  <2>3. PortsOK(c)'
      BY <1>1, <1>2, <1>3, <1>10, QuietPorts DEF PortsOK
  <2>4. PeersOK'
      BY <1>1, <1>3, QuietPorts DEF PeersOK
  <2> QED
      BY <1>5, <1>10, <2>2, <2>3, <2>4 DEF Solo, GoesOn
<1>11. CASE c.pc = o.ret /\ is = o.was
  <2>1. PortSane(p) /\ PortKnown(p)
      BY <1>6, <1>9, <1>11 DEF PortSane, PortKnown
  <2>2. \A q \in Ports : PortSane(q) /\ PortKnown(q)
      BY <1>1, <1>2, <2>1 DEF PortsOK
  <2>3. Solo(c)'
      BY <1>1, <1>3, <1>8, <1>11, <2>2, QuietSolo DEF Free
  <2> QED
      BY <1>5, <1>8, <1>11, <2>3 DEF GoesOn
<1> QED
    BY <1>5, <1>10, <1>11

\* virtusb_hub_mark_port_connection_change leaves the port in order.
LEMMA MarkSolo ==
    ASSUME ObjectInv, NEW th \in Threads, Solo(call[th]), Mark(th)
    PROVE  GoesOn(th)
<1>0. PICK o \in Call : o = call[th]
    BY DEF ObjectInv, TypeOK
<1>1. /\ TypeOK /\ CallsOK /\ CallOK(o) /\ PeersOK /\ HandlerOK(o) /\ PortsOK(o)
      /\ o.pc = "mark" /\ speed \in [Ports -> Speeds]
    BY <1>0 DEF ObjectInv, CallsOK, Solo, TypeOK, Mark, At
<1>2. PICK p \in Ports : p = o.port
    BY <1>1 DEF CallOK
<1>3. PICK is \in Finds(p) : MarkConnectionChange(p, is)
    BY <1>0, <1>2 DEF Mark
<1>4. is <=> Connected(p)
    BY <1>1, FindsTrue
<1>5. UNCHANGED <<registry, caps, upeer, dpeer, signaling, powered>>
    BY DEF Mark, objectVars, peerVars, lineVars
<1>6. \A q \in Ports : Connected(q)' <=> Connected(q)
    BY <1>5, Zenon DEF Connected
<1>7. PICK c \in Call : /\ Enters(th, c) /\ c.pc = o.ret
                        /\ c.pc # "idle" => c.dev = o.dev
    BY <1>0, <1>1, StepGoes DEF Goes
<1>8. /\ c_connected' = c_connected \cup {p} /\ seen' = seen /\ looking' = looking
      /\ \A q \in Ports \ {p} : /\ q \in enabled' <=> q \in enabled
                                /\ speed'[q] = speed[q]
      /\ ~is => p \notin enabled' /\ speed'[p] = "none"
      /\ is => p \in enabled' <=> p \in enabled
      /\ is => speed'[p] = speed[p]
    BY <1>1, <1>3 DEF MarkConnectionChange
<1>9. (c_connected \subseteq told)'
    BY <1>1, <1>3 DEF MarkConnectionChange, Notify, PeersOK
<1>10. PeersOK'
    BY <1>1, <1>5, <1>9 DEF PeersOK, PeersReciprocal, UnregisteredIsDetached
<1>11. \A q \in Ports : PortSane(q)' /\ PortKnown(q)'
  <2>1. PortSane(p)' /\ PortKnown(p)'
      BY <1>1, <1>2, <1>4, <1>8 DEF PortSane, PortKnown, HandlerOK
  <2>2. \A q \in Ports \ {p} : PortSane(q)' /\ PortKnown(q)'
    <3>1. \A q \in Ports \ {p} : PortSane(q) /\ PortKnown(q)
        BY <1>1, <1>2 DEF PortsOK
    <3> QED
        BY <1>5, <1>6, <1>8, <3>1 DEF PortSane, PortKnown
  <2> QED
      BY <2>1, <2>2
<1>12. HandlerOK(c)'
  <2>1. c.pc \in {"idle", "put", "detach", "unregister"}
      BY <1>7 DEF Call
  <2>2. c.pc = "unregister" => upeer[c.dev] = NoPort
      BY <1>1, <1>7 DEF HandlerOK
  <2> QED
      BY <1>5, <2>1, <2>2 DEF HandlerOK
<1> QED
    BY <1>7, <1>10, <1>11, <1>12 DEF Solo, GoesOn, PortsOK

\* The end of virtusb_hub_reset_port.
LEMMA TrainSolo ==
    ASSUME ObjectInv, NEW th \in Threads, Solo(call[th]), Train(th)
    PROVE  GoesOn(th)
<1>0. PICK o \in Call : o = call[th]
    BY DEF ObjectInv, TypeOK
<1>1. /\ TypeOK /\ CallsOK /\ CallOK(o) /\ PeersOK /\ HandlerOK(o) /\ PortsOK(o)
      /\ o.pc = "train" /\ speed \in [Ports -> Speeds]
    BY <1>0 DEF ObjectInv, CallsOK, Solo, TypeOK, Train, At
<1>2. PICK p \in Ports : p = o.port
    BY <1>1 DEF CallOK
<1>3. UNCHANGED <<registry, caps, upeer, dpeer, signaling, powered, c_connected,
                  looking, seen>>
    BY DEF Train, objectVars, peerVars, lineVars
<1>4. \A q \in Ports : Connected(q)' <=> Connected(q)
    BY <1>3, Zenon DEF Connected
<1>5. PICK c \in Call : Enters(th, c) /\ c.pc = "idle"
    BY <1>1, HubGoes
<1>6. told \subseteq told'
    BY DEF Train, Notify
<1>7. PeersOK'
    BY <1>1, <1>3, <1>6 DEF PeersOK, PeersReciprocal, UnregisteredIsDetached
<1>8. \A q \in Ports : PortSane(q)' /\ PortKnown(q)'
  <2>1. \A q \in Ports : PortSane(q) /\ PortKnown(q)
      BY <1>1, AllPorts
  <2>2. /\ \A q \in Ports \ {p} : /\ q \in enabled' <=> q \in enabled
                                  /\ speed'[q] = speed[q]
        /\ speed'[p] = o.speed
      BY <1>0, <1>1, <1>2 DEF Train
  <2>3. Connected(p) /\ o.speed = Fastest(caps[dpeer[p]])
      BY <1>1, <1>2 DEF HandlerOK
  <2>4. o.speed # "none"
      BY <2>3 DEF Fastest
  <2> QED
      BY <1>3, <1>4, <2>1, <2>2, <2>3, <2>4 DEF PortSane, PortKnown
<1>9. HandlerOK(c)'
    BY <1>5 DEF HandlerOK
<1> QED
    BY <1>5, <1>7, <1>8, <1>9 DEF Solo, GoesOn, PortsOK

\* A request that is over at once leaves no handler behind.
LEMMA RestsOn ==
    ASSUME TypeOK, call' = call, PeersOK',
           \A x \in Threads : At(x, "idle"),
           \A q \in Ports : PortSane(q)' /\ PortKnown(q)'
    PROVE  SerialInv'
<1>1. PICK c \in Call : c = Idle /\ c.pc = "idle"
    BY IdleFacts
<1>2. Runs(c)' /\ Solo(c)'
    BY <1>1 DEF Runs, At, Solo, HandlerOK, PortsOK
<1> QED
    BY <1>2 DEF SerialInv

\* A handler that begins meets a state in order and leaves it so.
LEMMA BeginsSolo ==
    ASSUME ObjectInv, SerialInv, Serialized, NEW th \in Threads
    PROVE  /\ Ioctl(th) => SerialInv'
           /\ \A p \in Ports, v \in BOOLEAN : BeginPower(th, p, v) => SerialInv'
           /\ th \in Hubs => (HubRequest(th) => SerialInv')
<1>0. TypeOK /\ IdInv
    BY DEF ObjectInv
<1>b. ASSUME MayBegin(th), NEW c \in Call, Enters(th, c), Quiet,
             UnregisteredIsDetached',
             c.pc \in Free \/ HandlerOK(c)'
      PROVE  SerialInv'
  <2>1. /\ PeersOK /\ \A p \in Ports : PortSane(p) /\ PortKnown(p)
        /\ \A x \in Threads : At(x, "idle")
      BY <1>0, <1>b, Resting
  <2>2. Solo(c)'
      BY <1>0, <1>b, <2>1, QuietSolo
  <2> QED
      BY <1>0, <1>b, <2>1, <2>2, RunsOn
<1>1. ASSUME NEW cs \in Capabilities, Create(th, cs) PROVE SerialInv'
  <2>1. PICK c \in Call : Enters(th, c) /\ c.pc \in {"put", "force"}
      BY <1>0, <1>1, CreateGoes
  <2>2. Quiet
    <3>1. \A p \in Ports : dpeer[p] # next_object_id
        BY <1>0, TopologyAssumption DEF IdInv, TypeOK, Objects, NoObject
    <3>2. \A p \in Ports : dpeer[p] # NoObject => caps'[dpeer[p]] = caps[dpeer[p]]
        BY <1>0, <1>1, <3>1 DEF Create, TypeOK
    <3> QED
        BY <1>1, <3>2 DEF Create, Quiet
  <2>3. UnregisteredIsDetached'
    <3>1. PeersOK
        BY <1>0, <1>1, Resting DEF Create
    <3> QED
        BY <1>1, <3>1 DEF Create, RegisterObject, PeersOK, UnregisteredIsDetached,
            peerVars
  <2> QED
      BY <1>1, <1>b, <2>1, <2>2, <2>3 DEF Create, Free
<1>2. ASSUME NEW d \in Objects, NEW c \in Call, Looks(th, c, d) PROVE SerialInv'
  <2>1. Quiet
      BY <1>2 DEF Looks, Quiet
  <2>2. UnregisteredIsDetached'
    <3>1. PeersOK
        BY <1>0, <1>2, Resting DEF Looks
    <3> QED
        BY <1>2, <3>1 DEF Looks, PeersOK, UnregisteredIsDetached, peerVars
  <2>3. c.pc \in Free \/ HandlerOK(c)'
      BY <1>2 DEF Looks, Free, HandlerOK
  <2> QED
      BY <1>2, <1>b, <2>1, <2>2, <2>3 DEF Looks
<1>3. ASSUME NEW c \in Call, Begins(th, c, {"power", "reset"}), DataUnchanged
      PROVE  SerialInv'
  <2>1. PeersOK
      BY <1>0, <1>3, Resting DEF Begins
  <2>2. Quiet /\ UnregisteredIsDetached'
      BY <1>3, <2>1, DataQuiet DEF PeersOK
  <2> QED
      BY <1>3, <1>b, <2>2 DEF Begins, Free
<1>4. ASSUME NEW p \in Ports, NEW v \in BOOLEAN, BeginPower(th, p, v)
      PROVE  SerialInv'
  <2>1. PICK c \in Call : Begins(th, c, {"power"})
      BY <1>0, <1>4, PortGoes
  <2> QED
      BY <1>3, <1>4, <2>1 DEF BeginPower, Begins
<1>5. ASSUME NEW p \in Ports, BeginReset(th, p) PROVE SerialInv'
  <2>1. PICK c \in Call : Begins(th, c, {"reset"})
      BY <1>0, <1>5, PortGoes
  <2> QED
      BY <1>3, <1>5, <2>1 DEF BeginReset, Begins
<1>6. ASSUME NEW p \in Ports, Feature(th, p) PROVE SerialInv'
  <2>1. /\ PeersOK /\ \A q \in Ports : PortSane(q) /\ PortKnown(q)
        /\ \A x \in Threads : At(x, "idle")
      BY <1>0, <1>6, Resting DEF Feature
  <2>2. /\ UNCHANGED <<registry, caps, upeer, dpeer, signaling, powered, speed,
                       c_connected, told, looking, seen, call>>
        /\ enabled' \subseteq enabled
      BY <1>6 DEF Feature, objectVars, peerVars, lineVars, hostVars
  <2>3. \A q \in Ports : Connected(q)' <=> Connected(q)
      BY <2>2, Zenon DEF Connected
  <2>4. \A q \in Ports : PortSane(q)' /\ PortKnown(q)'
      BY <2>1, <2>2, <2>3 DEF PortSane, PortKnown
  <2>5. PeersOK'
      BY <2>1, <2>2 DEF PeersOK, PeersReciprocal, UnregisteredIsDetached
  <2> QED
      BY <1>0, <2>1, <2>2, <2>4, <2>5, RestsOn
<1>7. ASSUME NEW p \in Ports, Acknowledge(th, p) PROVE SerialInv'
  <2>1. /\ PeersOK /\ \A q \in Ports : PortSane(q) /\ PortKnown(q)
        /\ \A x \in Threads : At(x, "idle")
      BY <1>0, <1>7, Resting DEF Acknowledge
  <2>2. /\ UNCHANGED <<registry, caps, upeer, dpeer, signaling, powered, speed,
                       enabled, seen, call>>
        /\ c_connected' = c_connected \ {p} /\ told' = told \ {p}
        /\ looking' = looking \cup {p}
      BY <1>7 DEF Acknowledge, objectVars, peerVars, lineVars
  <2>3. \A q \in Ports : Connected(q)' <=> Connected(q)
      BY <2>2, Zenon DEF Connected
  <2>4. \A q \in Ports : PortSane(q)' /\ PortKnown(q)'
      BY <2>1, <2>2, <2>3 DEF PortSane, PortKnown
  <2>5. PeersOK'
      BY <2>1, <2>2 DEF PeersOK, PeersReciprocal, UnregisteredIsDetached
  <2> QED
      BY <1>0, <2>1, <2>2, <2>4, <2>5, RestsOn
<1>8. ASSUME NEW p \in Ports, ReadStatus(th, p) PROVE SerialInv'
  <2>1. /\ PeersOK /\ \A q \in Ports : PortSane(q) /\ PortKnown(q)
        /\ \A x \in Threads : At(x, "idle")
      BY <1>0, <1>8, Resting DEF ReadStatus
  <2>2. /\ UNCHANGED <<registry, caps, upeer, dpeer, signaling, powered, speed,
                       enabled, c_connected, told, call>>
        /\ looking' = looking \ {p}
      BY <1>8 DEF ReadStatus, objectVars, peerVars, lineVars, hubVars
  <2>3. \A q \in Ports : Connected(q)' <=> Connected(q)
      BY <2>2, Zenon DEF Connected
  <2>4. PICK is \in Finds(p) : seen' = IF is THEN seen \cup {p} ELSE seen \ {p}
      BY <1>8 DEF ReadStatus
  <2>5. is <=> Connected(p)
      BY <2>1, FindsTrue
  <2>6. \A q \in Ports : PortSane(q)' /\ PortKnown(q)'
      BY <2>1, <2>2, <2>3, <2>4, <2>5 DEF PortSane, PortKnown
  <2>7. PeersOK'
      BY <2>1, <2>2 DEF PeersOK, PeersReciprocal, UnregisteredIsDetached
  <2> QED
      BY <1>0, <2>1, <2>2, <2>6, <2>7, RestsOn
<1> QED
    BY <1>0, <1>1, <1>2, <1>4, <1>5, <1>6, <1>7, <1>8, IoctlGoes DEF HubRequest

\* Nothing is attached when the host controller comes up.
LEMMA SerialInit == Init => SerialInv
<1> SUFFICES ASSUME Init PROVE SerialInv
    OBVIOUS
<1>1. PICK c \in Call : c = Idle /\ c.pc = "idle"
    BY IdleFacts
<1>2. Runs(c)
    BY <1>1 DEF Init, Runs, At
<1>3. PeersOK
    BY DEF Init, PeersOK, PeersReciprocal, UnregisteredIsDetached
<1>4. \A p \in Ports : ~Connected(p)
    BY DEF Init, Connected
<1>5. \A p \in Ports : PortSane(p) /\ PortKnown(p)
    BY <1>4 DEF Init, PortSane, PortKnown
<1> QED
    BY <1>1, <1>2, <1>3, <1>5 DEF SerialInv, Solo, HandlerOK, PortsOK

\* Handlers that run one at a time keep the state in order.
LEMMA SerialStep ==
    ASSUME Serialized, ObjectInv, SerialInv, [Next]_vars
    PROVE  SerialInv'
<1>0. TypeOK /\ CallsOK
    BY DEF ObjectInv
<1>1. ASSUME NEW th \in Threads, ~At(th, "idle"), Solo(call[th]) => GoesOn(th)
      PROVE  SerialInv'
  <2>1. Solo(call[th]) /\ \A x \in Threads \ {th} : At(x, "idle")
      BY <1>0, <1>1, Running
  <2>2. PICK c \in Call : Enters(th, c) /\ Solo(c)'
      BY <1>1, <2>1 DEF GoesOn
  <2> QED
      BY <1>0, <2>1, <2>2, RunsOn
<1>2. ASSUME NEW th \in Threads, Step(th) PROVE SerialInv'
  <2>1. ~At(th, "idle")
      BY <1>2 DEF Step, PutObject, Unregister, Attach, Link, Compare, Mark, Detach,
          Unlink, Signal, Drive, Power, Switch, Destroy, Bind, At
  <2>2. Solo(call[th]) => GoesOn(th)
      BY <1>2, ReadersSolo, LinkSolo, UnlinkSolo, LinesSolo, CompareSolo, MarkSolo
      DEF Step
  <2> QED
      BY <1>1, <2>1, <2>2
<1>3. ASSUME NEW th \in Hubs, HubStep(th) PROVE SerialInv'
  <2>1. ~At(th, "idle") /\ th \in Threads
      BY <1>3 DEF HubStep, ResetPort, Train, At, Threads
  <2>2. Solo(call[th]) => GoesOn(th)
      BY <1>3, <2>1, ReadersSolo, TrainSolo DEF HubStep
  <2> QED
      BY <1>1, <2>1, <2>2
<1>4. ASSUME UNCHANGED <<registry, caps, peerVars, lineVars, hubVars, hostVars, call>>
      PROVE  SerialInv'
  <2>1. PICK c \in Call : Runs(c) /\ Solo(c)
      BY DEF SerialInv
  <2>2. Runs(c)'
      BY <1>4, <2>1 DEF Runs, At
  <2>3. Solo(c)'
      BY <1>4, <2>1 DEF Solo, PeersOK, PeersReciprocal, UnregisteredIsDetached,
          HandlerOK, PortsOK, PortSane, PortKnown, Connected, peerVars, lineVars,
          hubVars, hostVars
  <2> QED
      BY <2>2, <2>3 DEF SerialInv
<1>5. ASSUME NEW d \in Objects, Unbind(d) PROVE SerialInv'
    BY <1>4, <1>5 DEF Unbind
<1>6. CASE UNCHANGED vars
    BY <1>4, <1>6 DEF vars, objectVars
<1> QED
    BY <1>2, <1>3, <1>5, <1>6, BeginsSolo DEF Next, Threads

\* The invariant of peers and ports, if callers serialize the handlers as
\* virtusb_device.h and virtusb_port.h ask.
THEOREM SerialInvariance ==
    ASSUME Serialized
    PROVE  Spec => [](ObjectInv /\ SerialInv)
<1> QED
    BY ObjectInit, ObjectStep, SerialInit, SerialStep, PTL DEF Spec

\* A device and a port are each other's peers or not peers at all.
THEOREM PeersAgree ==
    ASSUME Serialized
    PROVE  Spec => []PeersReciprocal
<1>1. SerialInv => PeersReciprocal
    BY DEF SerialInv, Solo, PeersOK
<1> QED
    BY <1>1, SerialInvariance, PTL

\* virtusb_device_destroy leaves no peer to a device it unregisters.
THEOREM DestroyedIsDetached ==
    ASSUME Serialized
    PROVE  Spec => []UnregisteredIsDetached
<1>1. SerialInv => UnregisteredIsDetached
    BY DEF SerialInv, Solo, PeersOK
<1> QED
    BY <1>1, SerialInvariance, PTL

\* A port is enabled, and has a speed, only while it is connected, apart from
\* the moment in which a handler has still to report a change.
THEOREM EnabledPortsConnected ==
    ASSUME Serialized
    PROVE  Spec => []EnabledIsConnected
<1>1. ASSUME SerialInv PROVE EnabledIsConnected
  <2>1. PICK c \in Call : Runs(c) /\ Solo(c)
      BY <1>1 DEF SerialInv
  <2>2. \A p \in Ports : Reporting(p) \/ PortSane(p)
      BY <2>1 DEF Solo, PortsOK, Runs, Reporting
  <2> QED
      BY <2>2 DEF EnabledIsConnected, PortSane
<1> QED
    BY <1>1, SerialInvariance, PTL

\* The hub driver misses no change of a connection, whatever handlers run
\* between its notification, its acknowledgement and its read of the status.
THEOREM ChangesReachHubDriver ==
    ASSUME Serialized
    PROVE  Spec => []NoChangeMissed
<1>1. ASSUME SerialInv PROVE NoChangeMissed
  <2>1. PICK c \in Call : Runs(c) /\ Solo(c)
      BY <1>1 DEF SerialInv
  <2>2. \A p \in Ports : Reporting(p) \/ PortKnown(p)
      BY <2>1 DEF Solo, PortsOK, Runs, Reporting
  <2>3. c_connected \subseteq told
      BY <2>1 DEF Solo, PeersOK
  <2> QED
      BY <2>2, <2>3 DEF NoChangeMissed, PortKnown
<1> QED
    BY <1>1, SerialInvariance, PTL
=============================================================================
