----------------------------- MODULE HubContract -----------------------------
(***************************************************************************)
(* What the root hub promises about its ports, one record per port: no     *)
(* words, no packing, no handlers.  A step concerns one port and leaves    *)
(* every other port alone.                                                 *)
(***************************************************************************)
CONSTANTS
    Ports,          \* the downstream ports
    Capabilities    \* the sets of speeds a device may have

VARIABLES
    line,   \* each port: VBUS, and the speeds of the device that signals on it
    usb,    \* each port: what the host sees of it
    told    \* ports whose changes the host was told of and has not looked at

vars == <<line, usb, told>>

Changes == {"connected", "enabled", "suspended", "reset", "over_current"}

\* No device signals on a port where `caps' is empty.
Line == [powered : BOOLEAN, caps : Capabilities \cup {{}}]

Usb == [enabled : BOOLEAN, suspended : BOOLEAN,
        speed : {"none", "low", "full", "high"}, changes : SUBSET Changes]

Connected(l) == l.powered /\ l.caps # {}

Fastest(cs) ==
    IF "high" \in cs THEN "high" ELSE IF "full" \in cs THEN "full" ELSE "low"

Init ==
    /\ line = [p \in Ports |-> [powered |-> FALSE, caps |-> {}]]
    /\ usb = [p \in Ports |-> [enabled |-> FALSE, suspended |-> FALSE,
                               speed |-> "none", changes |-> {}]]
    /\ told = {}

\* A device appears or goes, or VBUS is switched: a port that is disconnected
\* by it is neither enabled nor suspended and has no speed.
LineChanges(p, l) ==
    /\ line' = [line EXCEPT ![p] = l]
    /\ usb' = IF Connected(line[p]) /\ ~Connected(l)
              THEN [usb EXCEPT ![p].enabled = FALSE, ![p].suspended = FALSE,
                               ![p].speed = "none"]
              ELSE usb
    /\ UNCHANGED told

\* The host is told of every port with a change.
TellAll == told' = told \cup {p \in Ports : usb'[p].changes # {}}

\* The change of the connection becomes pending.
ConnectionChange(p) ==
    /\ usb' = [usb EXCEPT ![p].changes = @ \cup {"connected"}]
    /\ TellAll
    /\ UNCHANGED line

\* A reset enables a connected port at the fastest speed of its device.
Reset(p) ==
    /\ Connected(line[p])
    /\ usb' = [usb EXCEPT ![p] = [enabled |-> TRUE, suspended |-> FALSE,
                                  speed |-> Fastest(line[p].caps),
                                  changes |-> @.changes \cup {"reset"}]]
    /\ TellAll \/ (UNCHANGED told /\ "reset" \in usb[p].changes)
    /\ UNCHANGED line

Disable(p) ==
    /\ usb' = [usb EXCEPT ![p].enabled = FALSE]
    /\ UNCHANGED <<line, told>>

Suspend(p, b) ==
    /\ usb' = [usb EXCEPT ![p].suspended = b]
    /\ UNCHANGED <<line, told>>

\* A change stays pending until the host acknowledges this change of this port.
Acknowledge(p, c) ==
    /\ usb' = [usb EXCEPT ![p].changes = @ \ {c}]
    /\ UNCHANGED <<line, told>>

Look(p) == told' = told \ {p} /\ UNCHANGED <<line, usb>>

Next ==
    \E p \in Ports :
        \/ \E l \in Line : LineChanges(p, l)
        \/ ConnectionChange(p) \/ Reset(p) \/ Disable(p) \/ Look(p)
        \/ \E b \in BOOLEAN : Suspend(p, b)
        \/ \E c \in Changes : Acknowledge(p, c)

Spec == Init /\ [][Next]_vars
=============================================================================
