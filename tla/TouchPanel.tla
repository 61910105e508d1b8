----------------------------- MODULE TouchPanel -----------------------------
(***************************************************************************)
(* The gesture bits of the touch panel.  The touch HAL (aidl/touch) turns  *)
(* single gestures on and off, the power service (power/power-mode.cpp)    *)
(* double tap to wake: two processes that read one kernel node, change one *)
(* bit and write the node back, with nothing to keep them apart.  Each     *)
(* serves one request at a time.  The node's text, written in decimal and  *)
(* shown by the driver in hexadecimal, is the set of its one bits.         *)
(***************************************************************************)
EXTENDS Integers

CONSTANTS Gestures,    \* gestures the framework turns on and off
          MaxRequests  \* bound: requests made in all

Touch == "touch"
Power == "power"
Clients == {Touch, Power}
Switches == {"glove mode", "high touch polling rate"}

kGestureStartKey == 246
\* kGestureUnknown .. kGestureS: the driver's numbers, and those that have a name.
kGestureNames == 0 .. 18
kSupportedGestures == kGestureNames \cap ((2 .. 13) \cup {16, 18})
DOUBLE_TAP_GESTURE == 1

ASSUME ConstantsAssumption ==
    /\ Gestures \subseteq kSupportedGestures
    /\ MaxRequests \in Nat

\* The driver numbers what it can recognise: the double tap and the gestures.
Bits == Gestures \cup {DOUBLE_TAP_GESTURE}

VARIABLES
    useOplusTouch,  \* USE_OPLUSTOUCH: the HAL asks IOplusTouch, not /proc
    indep,          \* the one bits of double_tap_enable_indep
    enable,         \* double_tap_enable
    switches,       \* which of glove mode and polling rate are on
    pc, bit, on,    \* per client: where it is; what it was asked to turn on or off
    contents,       \* per client: what it will write
    requests,
    asked,          \* history: bits last acknowledged as on
    askedSwitches,  \* history: switches last acknowledged as on
    stale,          \* history: bits written since the client read the node
    lost            \* history: bits acknowledged but not in force

node    == <<indep, enable>>
client  == <<pc, bit, on, contents, requests>>
history == <<asked, stale, lost>>
switch  == <<switches, askedSwitches>>
vars == <<useOplusTouch, node, switch, client, history>>

TypeOK ==
    /\ useOplusTouch \in BOOLEAN /\ enable \in BOOLEAN
    /\ indep \in SUBSET Bits /\ asked \in SUBSET Bits /\ lost \in SUBSET Bits
    /\ switches \in SUBSET Switches /\ askedSwitches \in SUBSET Switches
    /\ pc \in [Clients -> {"idle", "read", "enable", "write"}]
    /\ bit \in [Clients -> Bits] /\ on \in [Clients -> BOOLEAN]
    /\ contents \in [Clients -> SUBSET Bits] /\ stale \in [Clients -> SUBSET Bits]
    /\ requests \in 0 .. MaxRequests

Init ==
    /\ useOplusTouch \in BOOLEAN
    /\ indep = {} /\ enable = FALSE /\ switches = {}
    /\ pc = [c \in Clients |-> "idle"] /\ bit = [c \in Clients |-> DOUBLE_TAP_GESTURE]
    /\ on = [c \in Clients |-> FALSE] /\ contents = [c \in Clients |-> {}]
    /\ requests = 0
    /\ asked = {} /\ askedSwitches = {} /\ lost = {}
    /\ stale = [c \in Clients |-> {}]

-----------------------------------------------------------------------------
ViaOplusTouch(c) == c = Power \/ useOplusTouch
Goto(c, label) == pc' = [pc EXCEPT ![c] = label]
With(set, x, present) == IF present THEN set \cup {x} ELSE set \ {x}

Request(c, b, want) ==
    /\ pc[c] = "idle" /\ requests < MaxRequests
    /\ Goto(c, "read")
    /\ bit' = [bit EXCEPT ![c] = b] /\ on' = [on EXCEPT ![c] = want]
    /\ requests' = requests + 1
    /\ UNCHANGED <<node, switch, contents, history>>

SetGestureEnabled(want) == \E g \in Gestures : Request(Touch, g, want)
SetDeviceSpecificMode(want) == Request(Power, DOUBLE_TAP_GESTURE, want)

\* The keycode that getSupportedGestures gave the gesture.
Keycode(id) == kGestureStartKey + id
\* Seeded fault: the bits are counted from the first gesture's keycode.
BitFromFirst(keycode) == keycode - Keycode(1)
Bit(keycode) == keycode - kGestureStartKey
BitOf(c) == IF c = Power THEN DOUBLE_TAP_GESTURE ELSE Bit(Keycode(bit[c]))

\* contents |= bit, or contents &= ~bit.
Changed(old, b, want) == With(old, b, want)

\* The node is read and the bit changed in a local variable.
Read(c) ==
    /\ pc[c] = "read"
    /\ contents' = [contents EXCEPT ![c] = Changed(indep, BitOf(c), on[c])]
    /\ stale' = [stale EXCEPT ![c] = {}]
    /\ Goto(c, IF ViaOplusTouch(c) THEN "enable" ELSE "write")
    /\ UNCHANGED <<node, switch, bit, on, requests, asked, lost>>

\* Nothing was read: /proc reports it, while with IOplusTouch the empty string
\* makes stoi throw, which ends the process.  The request is not acknowledged.
ReadFails(c) ==
    /\ pc[c] = "read"
    /\ Goto(c, "idle")
    /\ UNCHANGED <<node, switch, bit, on, contents, requests, history>>

\* IOplusTouch only: "1" to double_tap_enable, whether it succeeds or not.
WriteEnable(c) ==
    /\ pc[c] = "enable"
    /\ Goto(c, "write")
    /\ enable' \in {enable, TRUE}
    /\ UNCHANGED <<indep, switch, bit, on, contents, requests, history>>

\* The bits the other client wrote since this one read the node are overwritten.
WriteIndep(c) ==
    /\ pc[c] = "write"
    /\ Goto(c, "idle")
    /\ indep' = contents[c]
    /\ asked' = With(asked, bit[c], on[c])
    /\ lost' = (lost \ {bit[c]}) \cup (stale[c] \ {bit[c]})
    /\ stale' = [d \in Clients |-> IF d = c THEN {} ELSE stale[d] \cup {bit[c]}]
    /\ UNCHANGED <<enable, switch, bit, on, contents, requests>>

\* Only /proc failures are reported; IOplusTouch's are acknowledged.
Acknowledged(c) == ViaOplusTouch(c)

WriteIndepFails(c) ==
    /\ pc[c] = "write"
    /\ Goto(c, "idle")
    /\ IF Acknowledged(c)
         THEN /\ asked' = With(asked, bit[c], on[c])
              /\ lost' = IF ViaOplusTouch(c) THEN lost \cup {bit[c]} ELSE lost
         ELSE UNCHANGED <<asked, lost>>
    /\ UNCHANGED <<node, switch, bit, on, contents, requests, stale>>

\* A switch on the HAL's only thread.
SetEnabled(s, want) ==
    /\ pc[Touch] = "idle" /\ requests < MaxRequests
    /\ requests' = requests + 1
    /\ \/ /\ switches' = With(switches, s, want)
          /\ askedSwitches' = With(askedSwitches, s, want)
       \/ /\ askedSwitches' = IF Acknowledged(Touch) THEN With(askedSwitches, s, want)
                                                     ELSE askedSwitches
          /\ UNCHANGED switches
    /\ UNCHANGED <<node, pc, bit, on, contents, history>>

SetGloveMode(want) == SetEnabled("glove mode", want)
SetHighTouchPollingRate(want) == SetEnabled("high touch polling rate", want)

Next ==
    /\ \/ \E want \in BOOLEAN :
            \/ SetGestureEnabled(want) \/ SetDeviceSpecificMode(want)
            \/ SetGloveMode(want) \/ SetHighTouchPollingRate(want)
       \/ \E c \in Clients :
            Read(c) \/ ReadFails(c) \/ WriteEnable(c) \/ WriteIndep(c) \/ WriteIndepFails(c)
    /\ UNCHANGED useOplusTouch

Spec == Init /\ [][Next]_vars

-----------------------------------------------------------------------------
\* However the two processes interleave, a gesture is on exactly when its last
\* acknowledged request said so, unless that request was undone by the other
\* process, which had read the node before it and wrote it after, or IOplusTouch
\* failed.  Over /proc the switches are always as last acknowledged.
AcknowledgedInForce ==
    /\ \A b \in Bits \ lost : b \in indep <=> b \in asked
    /\ useOplusTouch \/ switches = askedSwitches
=============================================================================
