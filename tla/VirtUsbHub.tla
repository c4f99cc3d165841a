----------------------------- MODULE VirtUsbHub -----------------------------
(***************************************************************************)
(* The root hub as the code keeps it: words with one bit per port, speeds  *)
(* packed into words (kernel/src/virtusb_hub.c), the hub requests of the   *)
(* Linux hub driver (virtusb_hcd.c), and what the host and, through        *)
(* GET_PORT_STATUS, libvirtusb and virtusbctl report of the ports.         *)
(*                                                                         *)
(* A word is the set of its bits that are one: BIT(n) is {n}, | is union,  *)
(* & is intersection and & ~ is difference.                                *)
(*                                                                         *)
(* No lock protects the words.  usb_change.connected is updated both by    *)
(* the ioctls and by the hub driver: its load and its store are two steps, *)
(* the updates of the other words one.  With Serialized = TRUE handlers    *)
(* run one at a time.                                                      *)
(***************************************************************************)
EXTENDS Integers, FiniteSets

CONSTANTS
    Threads,        \* threads of user space and of the hub driver
    PortCount,      \* hub->port_count
    MaxPorts,       \* VIRTUSB_MAX_HUB_PORTS
    WordBits,       \* VIRTUSB_PACKED_WORD_BITS
    ByteBits,       \* bits of a char
    Capabilities,   \* the speeds devices are created with
    Sockets,        \* bound: the ports that devices are attached to
    Serialized      \* whether handlers run one at a time

ASSUME HubAssumption ==
    /\ WordBits \in Nat /\ WordBits > 1 /\ WordBits % 2 = 0
    /\ MaxPorts = WordBits - 1
    /\ PortCount \in 1..MaxPorts
    /\ ByteBits \in Nat \ {0}
    /\ Serialized \in BOOLEAN
    /\ Sockets \subseteq 1..PortCount
    /\ Capabilities \subseteq ((SUBSET {"low", "full", "high"}) \ {{}})

Ports == 1..PortCount
Word == SUBSET (0..(WordBits - 1))

\* The port numbers that requests name: the ports in use and the first number
\* beyond either end.
Indices == Sockets \cup {0, PortCount + 1}

VARIABLES
    caps,       \* the speeds of the device that signals on each port, or {}
    powered,    \* ports with VBUS
    usb,        \* hub->usb: enabled, suspended, reset
    speed,      \* hub->usb.speed: the packed speeds
    usb_change, \* hub->usb_change
    told,       \* positions the hub driver was told of and has not looked at
    call        \* the handler each thread is in

vars == <<caps, powered, usb, speed, usb_change, told, call>>

-----------------------------------------------------------------------------
(* Packed values: VIRTUSB_PORT_SPEED_BITS bits per position.               *)

SpeedBits == 2
PerWord == WordBits \div SpeedBits
WordCount == (MaxPorts + 1 + PerWord - 1) \div PerWord

\* Slip: the shift counts from the first word.
ShiftUnwrapped(pos) == pos * SpeedBits

\* virtusb_hub_packed_word_index and virtusb_hub_packed_shift.
WordIndex(pos) == pos \div PerWord
Shift(pos) == (pos % PerWord) * SpeedBits

\* enum virtusb_port_speed, in binary.
Encode(s) == CASE s = "none" -> {} [] s = "low"  -> {0}
               [] s = "full" -> {1} [] s = "high" -> {0, 1}

Mask(pos) == {Shift(pos), Shift(pos) + 1}

\* virtusb_hub_set_port_speed, on words w.
SetSpeed(w, pos, s) ==
    [w EXCEPT ![WordIndex(pos)] =
        (@ \ Mask(pos)) \cup ({Shift(pos) + b : b \in Encode(s)} \cap Mask(pos))]

\* virtusb_hub_get_port_speed of a valid port.
GetSpeed(w, pos) ==
    {b - Shift(pos) : b \in w[WordIndex(pos)]} \cap (0..(SpeedBits - 1))

-----------------------------------------------------------------------------
(* Ports.                                                                  *)

\* virtusb_hub_port_is_valid.
Valid(n) == n > 0 /\ n <= PortCount

\* virtusb_hub_port_is_connected.
Connected(p) == p \in powered /\ caps[p] # {}

\* virtusb_hub_determine_port_speed: the ports of the hub have every speed.
DeterminedSpeed(p) ==
    IF "high" \in caps[p] THEN "high"
    ELSE IF "full" \in caps[p] THEN "full"
    ELSE IF "low" \in caps[p] THEN "low" ELSE "none"

\* virtusb_hcd_port_change_mask: of bit 0 only over-current counts.
ChangeMask(c) ==
    ((c.connected \cup c.enabled \cup c.suspended \cup c.reset \cup c.over_current)
        \ {0}) \cup (c.over_current \cap {0})

\* Slip: a byte too few, when the ports fill the last one.
TooFewBytes == (PortCount + ByteBits - 1) \div ByteBits

\* The bytes of virtusb_hcd_hub_status_data: bit 0 is the hub's.
ByteCount == (PortCount + ByteBits) \div ByteBits

StatusBytes(c) ==
    [i \in 0..(ByteCount - 1) |->
        {b \in 0..(ByteBits - 1) : b + i * ByteBits \in ChangeMask(c)}]

\* virtusb_hub_notify_status_changed: usb_hcd_poll_rh_status hands the hub
\* driver the bytes.
Notify ==
    told' = told \cup {n \in 0..MaxPorts :
                \E i \in DOMAIN StatusBytes(usb_change') :
                    n - i * ByteBits \in StatusBytes(usb_change')[i]}

-----------------------------------------------------------------------------
(* Threads.                                                                *)

\* A thread between the load and the store of usb_change.connected, with the
\* value to be stored and the port that is marked or acknowledged.
Call == [pc : {"idle", "mark", "ack"}, port : Indices, word : Word]
Idle == [pc |-> "idle", port |-> 0, word |-> {}]

At(th, p) == call[th].pc = p
Enter(th, c) == call' = [call EXCEPT ![th] = c]

MayBegin(th) ==
    /\ At(th, "idle")
    /\ Serialized => \A x \in Threads : At(x, "idle")

Init ==
    /\ caps = [p \in Ports |-> {}] /\ powered = {}
    /\ usb = [enabled |-> {}, suspended |-> {}, reset |-> {}]
    /\ speed = [i \in 0..(WordCount - 1) |-> {}]
    /\ usb_change = [connected |-> {}, enabled |-> {}, suspended |-> {},
                     reset |-> {}, over_current |-> {}]
    /\ told = {}
    /\ call = [th \in Threads |-> Idle]

-----------------------------------------------------------------------------
(* Changes of the line, by the ioctls or by PORT_POWER.                    *)

\* What virtusb_hub_mark_port_connection_change does to a port that is no
\* longer connected.
Disconnect(p) ==
    /\ usb' = [enabled |-> usb.enabled \ {p}, suspended |-> usb.suspended \ {p},
               reset |-> usb.reset \ {p}]
    /\ speed' = SetSpeed(speed, p, "none")

\* virtusb_hub_mark_port_connection_change, after caps or powered changed, up
\* to the load of usb_change.connected; a change that is pending already is
\* not marked again.
MarkIfChanged(th, p) ==
    /\ IF Connected(p) /\ ~Connected(p)' THEN Disconnect(p)
       ELSE UNCHANGED <<usb, speed>>
    /\ IF Connected(p) # Connected(p)' /\ p \notin usb_change.connected
       THEN Enter(th, [pc |-> "mark", port |-> p,
                       word |-> usb_change.connected \cup {p}])
       ELSE UNCHANGED call
    /\ UNCHANGED <<usb_change, told>>

\* A device is attached while it signals, signals while it is attached, stops
\* signaling, or is detached.
Signal(th, p, cs) ==
    /\ MayBegin(th)
    /\ caps[p] = {} \/ cs = {}
    /\ caps' = [caps EXCEPT ![p] = cs]
    /\ UNCHANGED powered
    /\ MarkIfChanged(th, p)

\* virtusb_hub_set_port_power; ports are switched individually.
SetPortPower(th, n, v) ==
    /\ MayBegin(th)
    /\ Valid(n)
    /\ powered' = IF v THEN powered \cup {n} ELSE powered \ {n}
    /\ UNCHANGED caps
    /\ MarkIfChanged(th, n)

\* The store, and the notification of a change.
StoreMark(th) ==
    /\ At(th, "mark")
    /\ usb_change' = [usb_change EXCEPT !.connected = call[th].word]
    /\ Notify
    /\ Enter(th, Idle)
    /\ UNCHANGED <<caps, powered, usb, speed>>

-----------------------------------------------------------------------------
(* virtusb_hcd_hub_control.                                                *)

\* Slip: the port number is not checked.
HubRequestUnchecked(th, n) == MayBegin(th)

\* Requests for a port that is not valid fail with -EPIPE.
HubRequest(th, n) == MayBegin(th) /\ Valid(n)

LineUnchanged == UNCHANGED <<caps, powered>>

\* SetPortFeature(PORT_RESET): virtusb_hub_reset_port.
ResetPort(th, n) ==
    /\ HubRequest(th, n)
    /\ Connected(n) /\ DeterminedSpeed(n) # "none"
    /\ usb' = [usb EXCEPT !.enabled = @ \cup {n}, !.suspended = @ \ {n}]
    /\ speed' = SetSpeed(speed, n, DeterminedSpeed(n))
    /\ usb_change' = [usb_change EXCEPT !.reset = @ \cup {n}]
    /\ IF n \in usb_change.reset THEN UNCHANGED told ELSE Notify
    /\ UNCHANGED call
    /\ LineUnchanged

\* SetPortFeature(PORT_SUSPEND), ClearPortFeature(PORT_SUSPEND) and
\* ClearPortFeature(PORT_ENABLE).
PortState(th, n) ==
    /\ HubRequest(th, n)
    /\ usb' \in {[usb EXCEPT !.suspended = @ \cup {n}],
                 [usb EXCEPT !.suspended = @ \ {n}],
                 [usb EXCEPT !.enabled = @ \ {n}]}
    /\ UNCHANGED <<speed, usb_change, told, call>>
    /\ LineUnchanged

\* ClearPortFeature of the changes that only the hub driver's requests set, and
\* of those nothing sets.
ClearChange(th, n) ==
    /\ HubRequest(th, n)
    /\ usb_change' \in {[usb_change EXCEPT ![f] = @ \ {n}] :
                           f \in {"enabled", "suspended", "over_current", "reset"}}
    /\ UNCHANGED <<usb, speed, told, call>>
    /\ LineUnchanged

\* ClearHubFeature(C_HUB_OVER_CURRENT).
ClearHubChange(th) ==
    /\ MayBegin(th)
    /\ usb_change' = [usb_change EXCEPT !.over_current = @ \ {0}]
    /\ UNCHANGED <<usb, speed, told, call>>
    /\ LineUnchanged

\* ClearPortFeature(C_PORT_CONNECTION) up to its load.
ClearConnection(th, n) ==
    /\ HubRequest(th, n)
    /\ Enter(th, [pc |-> "ack", port |-> n,
                  word |-> usb_change.connected \ {n}])
    /\ UNCHANGED <<usb, speed, usb_change, told>>
    /\ LineUnchanged

StoreAck(th) ==
    /\ At(th, "ack")
    /\ usb_change' = [usb_change EXCEPT !.connected = call[th].word]
    /\ Enter(th, Idle)
    /\ UNCHANGED <<usb, speed, told>>
    /\ LineUnchanged

\* The hub driver (external) turns to a port it was told of.
LookAt(p) ==
    /\ p \in told
    /\ told' = told \ {p}
    /\ UNCHANGED <<usb, speed, usb_change, call>>
    /\ LineUnchanged

Next ==
    \/ \E th \in Threads :
          \/ \E p \in Sockets, cs \in Capabilities \cup {{}} : Signal(th, p, cs)
          \/ \E n \in Indices :
                \/ \E v \in BOOLEAN : SetPortPower(th, n, v)
                \/ ResetPort(th, n) \/ PortState(th, n) \/ ClearChange(th, n)
                \/ ClearConnection(th, n)
          \/ ClearHubChange(th) \/ StoreMark(th) \/ StoreAck(th)
    \/ \E p \in Ports : LookAt(p)

Spec == Init /\ [][Next]_vars

-----------------------------------------------------------------------------
(* What is reported of a port.                                             *)

Bits(b, cond) == IF cond THEN {b} ELSE {}

\* virtusb_hcd_build_port_status: wPortStatus.  Nothing sets the condition of
\* over-current (bit 3).
PortStatus(p) ==
    UNION {Bits(0, Connected(p)), Bits(1, p \in usb.enabled),
           Bits(2, p \in usb.suspended), Bits(4, p \in usb.reset),
           Bits(8, p \in powered), Bits(9, GetSpeed(speed, p) = Encode("low")),
           Bits(10, GetSpeed(speed, p) = Encode("high"))}

\* virtusb_hcd_build_port_change: wPortChange.
PortChange(p) ==
    UNION {Bits(0, p \in usb_change.connected), Bits(1, p \in usb_change.enabled),
           Bits(2, p \in usb_change.suspended),
           Bits(3, p \in usb_change.over_current), Bits(4, p \in usb_change.reset)}

\* virtusb_control_build_port_state: of the hub itself (position 0) it reads the
\* words' bit 0 and no line, power or speed.
PortStateUapi(n) ==
    [status |-> UNION {Bits(0, n > 0 /\ Connected(n)), Bits(1, n \in usb.enabled),
                       Bits(2, n \in usb.suspended), Bits(4, n \in usb.reset),
                       Bits(8, n > 0 /\ n \in powered)},
     change |-> UNION {Bits(0, n \in usb_change.connected),
                       Bits(1, n \in usb_change.enabled),
                       Bits(2, n \in usb_change.suspended),
                       Bits(3, n \in usb_change.over_current),
                       Bits(4, n \in usb_change.reset)},
     speed |-> IF n = 0 THEN {} ELSE GetSpeed(speed, n)]

\* Slip: the status of the hub stands before those of the ports.
QueryShifted(n) ==
    [state |-> PortStateUapi(n),
     ports |-> IF n = 0 THEN [i \in 0..(PortCount - 1) |-> PortStateUapi(i)]
               ELSE <<>>]

\* virtusb_control_get_port_status: port 0 also gets every port's state.
GetPortStatus(n) ==
    [state |-> PortStateUapi(n),
     ports |-> IF n = 0 THEN [i \in 0..(PortCount - 1) |-> PortStateUapi(i + 1)]
               ELSE <<>>]

\* virtusb_speed_from_uapi and virtusbctl_speed_name.
SpeedName(v) ==
    CASE v = {0} -> "low" [] v = {1} -> "full" [] v = {0, 1} -> "high"
      [] OTHER -> "none"

StatusNames == <<"connected", "enabled", "suspended", "over-current", "reset">>

\* virtusbctl_print_status_flags and virtusbctl_print_change_flags.
StatusFlags(w) ==
    {StatusNames[b + 1] : b \in w \cap (0..4)}
        \cup (IF 8 \in w THEN {"power"} ELSE {})
ChangeFlags(w) == {StatusNames[b + 1] : b \in w \cap (0..4)}

\* virtusb_state_from_uapi and virtusbctl_print_state.
Printed(s) ==
    [status |-> StatusFlags(s.status), change |-> ChangeFlags(s.change),
     speed |-> SpeedName(s.speed)]

\* virtusb_get_port_status and virtusbctl_status without a port: the lines
\* "port 1" to "port N".
PrintedPorts == [p \in Ports |-> Printed(GetPortStatus(0).ports[p - 1])]

-----------------------------------------------------------------------------
(* Correctness.                                                            *)

\* The shape of every variable.
TypeOK ==
    /\ caps \in [Ports -> Capabilities \cup {{}}]
    /\ powered \subseteq Ports
    /\ usb \in [enabled : Word, suspended : Word, reset : Word]
    /\ speed \in [0..(WordCount - 1) -> Word]
    /\ usb_change \in [connected : Word, enabled : Word, suspended : Word,
                       reset : Word, over_current : Word]
    /\ told \subseteq 0..MaxPorts
    /\ call \in [Threads -> Call]

\* Requests for port 0 and for ports beyond the last change no word: no bit is
\* set but those of the hub's ports, at either end of the words.
OnlyPortBits ==
    /\ usb.enabled \cup usb.suspended \cup usb.reset \subseteq Ports
    /\ ChangeMask(usb_change) \subseteq Ports
    /\ \A n \in 0..MaxPorts : n \notin Ports => GetSpeed(speed, n) = {}

\* What is shown of a port is true of its line: virtusbctl and the host agree on
\* every flag, a port shown enabled is connected and has the fastest speed of
\* the device that signals on it, and a port without a device has no speed
\* (virtusb_hcd_build_port_status, virtusb_control_get_port_status, virtusbctl).
StatusShown ==
    \A p \in Ports :
        LET shown == PrintedPorts[p]
            wire == PortStatus(p)
        IN  /\ shown = Printed(GetPortStatus(p).state)
            /\ shown.status = StatusFlags(wire)
            /\ shown.change = ChangeFlags(PortChange(p))
            /\ shown.speed = "low" <=> 9 \in wire
            /\ shown.speed = "high" <=> 10 \in wire
            /\ "enabled" \in shown.status =>
                  /\ {"connected", "power"} \subseteq shown.status
                  /\ shown.speed = DeterminedSpeed(p)
            /\ "connected" \notin shown.status => shown.speed = "none"

\* The words of changes in which a port's bit is set.
PendingChanges(p) ==
    {f \in {"connected", "enabled", "suspended", "reset", "over_current"} :
        p \in usb_change[f]}

\* The abstract hub, read from the words.
Contract ==
    INSTANCE HubContract WITH
        line <- [p \in Ports |-> [powered |-> p \in powered, caps |-> caps[p]]],
        usb <- [p \in Ports |->
                  [enabled |-> p \in usb.enabled,
                   suspended |-> p \in usb.suspended,
                   speed |-> SpeedName(GetSpeed(speed, p)),
                   changes |-> PendingChanges(p)]],
        told <- told

\* The words behave as one record per port: a request for a port, its packed
\* speed included, never disturbs another port; a disconnected port is
\* disabled; a change stays pending until it is acknowledged, and the host is
\* told of every change (virtusb_hub.c, the requests of virtusb_hcd.c).
ImplementsContract == Contract!Spec

\* A pending connection change of a port disappears only by the
\* ClearPortFeature(C_PORT_CONNECTION) that names this port
\* (virtusb_hcd_clear_port_feature, virtusb_hub_mark_port_connection_change).
PendingUntilAcknowledged ==
    [][\A p \in usb_change.connected \ usb_change.connected' :
          \E th \in Threads : At(th, "ack") /\ call[th].port = p /\ At(th, "idle")']_vars

=============================================================================
