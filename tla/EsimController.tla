--------------------------- MODULE EsimController ---------------------------
(***************************************************************************)
(* Switching the second SIM slot between a plastic SIM and the eSIM        *)
(* (packages/eSimSwitcher: EsimController.kt and the preference switch of  *)
(* EsimSettingsFragment.kt).  The slot has to be without power while its   *)
(* GPIO is switched.  With an SN220 NFC chip the switch happens on an IO   *)
(* thread, in a listener that runs once the secure element service is      *)
(* connected; the main thread goes on meanwhile.  Connections are reported *)
(* through the main thread, so not before toggleEsimState has returned.    *)
(***************************************************************************)
EXTENDS Naturals

CONSTANTS MaxTaps,   \* bound: times the switch is flipped
          MaxOpens   \* bound: times the settings page is opened again

ASSUME ConstantsAssumption ==
    MaxTaps \in Nat /\ MaxOpens \in Nat

VARIABLES
    hasSN220Chipset,  \* read once from a system property
    gpio, uimPower,   \* the HAL: slot routing and power, 0 or 1
    checked,          \* the preference switch, 0 or 1
    mpc,              \* the main thread: idle, or inside toggleEsimState
    phase, state,     \* each SEService listener: where it is; the gpio it will set
    taps, opens,
    lost,             \* history: listeners that gave up
    overlapped        \* history: the user did not wait for a listener

hal  == <<gpio, uimPower>>
vars == <<hasSN220Chipset, hal, checked, mpc, phase, state, taps, opens, lost, overlapped>>

Requests == 1 .. MaxTaps
Pending  == {r \in Requests : phase[r] \notin {"unused", "closed"}}

TypeOK ==
    /\ hasSN220Chipset \in BOOLEAN
    /\ gpio \in {0, 1} /\ uimPower \in {0, 1} /\ checked \in {0, 1}
    /\ mpc \in {"idle", "cut", "bind", "gpio", "power"}
    /\ phase \in [Requests -> {"unused", "connecting", "open", "gpio", "power", "closed"}]
    /\ state \in [Requests -> {0, 1}]
    /\ taps \in 0 .. MaxTaps /\ opens \in 0 .. MaxOpens
    /\ lost \in SUBSET Requests /\ overlapped \in BOOLEAN

Init ==
    /\ hasSN220Chipset \in BOOLEAN
    /\ gpio \in {0, 1} /\ checked = gpio /\ uimPower = 1
    /\ mpc = "idle"
    /\ phase = [r \in Requests |-> "unused"]
    /\ state = [r \in Requests |-> 0]
    /\ taps = 0 /\ opens = 0 /\ lost = {} /\ overlapped = FALSE

-----------------------------------------------------------------------------
\* Where toggleEsimState goes: nothing to do if the GPIO already has the value.
FirstStep(want) == IF gpio = want THEN "idle" ELSE "cut"

\* if (gpioState == 0) 1 else 0.
Flipped(g) == 1 - g

\* onPreferenceChange: the switch is flipped (when enabling, the dialog was
\* confirmed) and toggleEsimState reads the GPIO.  The switch then shows the
\* value wanted, whatever comes of it.
Tap ==
    /\ mpc = "idle" /\ taps < MaxTaps
    /\ checked' = 1 - checked
    /\ mpc' = FirstStep(checked')
    /\ taps' = taps + 1
    /\ state' = [state EXCEPT ![taps'] = Flipped(gpio)]
    /\ overlapped' = (overlapped \/ Pending # {})
    /\ UNCHANGED <<hal, phase, opens, lost>>

\* onCreatePreferences: a new page reads the switch's value from the GPIO.
Reopen ==
    /\ mpc = "idle" /\ opens < MaxOpens
    /\ checked' = gpio
    /\ opens' = opens + 1
    /\ overlapped' = (overlapped \/ Pending # {})
    /\ UNCHANGED <<hal, mpc, phase, state, taps, lost>>

\* setUimPower(0)
CutPower ==
    /\ mpc = "cut"
    /\ uimPower' = 0
    /\ mpc' = IF hasSN220Chipset THEN "bind" ELSE "gpio"
    /\ UNCHANGED <<gpio, checked, phase, state, taps, opens, lost, overlapped>>

\* Without an SN220: setEsimGpio, then setUimPower(1), on the main thread.
SwitchNow ==
    /\ \/ mpc = "gpio" /\ gpio' = state[taps] /\ mpc' = "power" /\ UNCHANGED uimPower
       \/ mpc = "power" /\ uimPower' = 1 /\ mpc' = "idle" /\ UNCHANGED gpio
    /\ UNCHANGED <<checked, phase, state, taps, opens, lost, overlapped>>

\* specialSetEsimGpio: the SEService constructor binds the service, or throws.
BindService ==
    /\ mpc = "bind"
    /\ mpc' = "idle"
    /\ \/ phase' = [phase EXCEPT ![taps] = "connecting"] /\ UNCHANGED lost
       \/ phase' = [phase EXCEPT ![taps] = "closed"] /\ lost' = lost \cup {taps}
    /\ UNCHANGED <<hal, checked, state, taps, opens, overlapped>>

\* Seeded fault: the listener restores the power before it sets the GPIO.
PowerThenGpio == [open |-> "power", power |-> "gpio", gpio |-> "closed"]
\* Seeded faults: the listener forgets one of its two jobs.
GpioOnly == [open |-> "gpio", gpio |-> "closed", power |-> "closed"]
PowerOnly == [open |-> "power", power |-> "closed", gpio |-> "closed"]
\* What the listener does next: setEsimGpio, then setUimPower(1), then close.
ListenerOrder == [open |-> "gpio", gpio |-> "power", power |-> "closed"]

Reach(r, p) == phase' = [phase EXCEPT ![r] = p]

\* onServiceConnected on the main thread hands onConnected to an IO thread.
Connected(r) ==
    /\ mpc = "idle" /\ phase[r] = "connecting"
    /\ Reach(r, "open")
    /\ UNCHANGED <<hal, checked, mpc, state, taps, opens, lost, overlapped>>

\* The session and its channel are opened; no reader is no error.
OpenSession(r) ==
    /\ phase[r] = "open"
    /\ Reach(r, ListenerOrder.open)
    /\ UNCHANGED <<hal, checked, mpc, state, taps, opens, lost, overlapped>>

SetEsimGpio(r) ==
    /\ phase[r] = "gpio"
    /\ gpio' = state[r]
    /\ Reach(r, ListenerOrder.gpio)
    /\ UNCHANGED <<uimPower, checked, mpc, state, taps, opens, lost, overlapped>>

SetUimPower(r) ==
    /\ phase[r] = "power"
    /\ uimPower' = 1
    /\ Reach(r, ListenerOrder.power)
    /\ UNCHANGED <<gpio, checked, mpc, state, taps, opens, lost, overlapped>>

\* Any of these calls may throw: the handler logs, and only shuts down.
ListenerFails(r) ==
    /\ phase[r] \in {"open", "gpio", "power"}
    /\ Reach(r, "closed")
    /\ lost' = lost \cup {r}
    /\ UNCHANGED <<hal, checked, mpc, state, taps, opens, overlapped>>

Listener(r) == OpenSession(r) \/ SetEsimGpio(r) \/ SetUimPower(r)
Main == CutPower \/ SwitchNow \/ BindService

Next ==
    /\ \/ Tap \/ Reopen \/ Main
       \/ \E r \in Requests : Connected(r) \/ Listener(r) \/ ListenerFails(r)
    /\ UNCHANGED hasSN220Chipset

\* The main thread runs, the service connects, and the IO threads run; failures
\* and users are under no obligation.
Fairness ==
    /\ WF_vars(Main /\ UNCHANGED hasSN220Chipset)
    /\ \A r \in Requests :
          /\ SF_vars(Connected(r) /\ UNCHANGED hasSN220Chipset)
          /\ WF_vars(Listener(r) /\ UNCHANGED hasSN220Chipset)

Spec == Init /\ [][Next]_vars /\ Fairness

-----------------------------------------------------------------------------
\* The slot is without power only while a toggle or one of its listeners is at
\* work, or because one of them gave up: overlapping toggles, whose power cuts
\* and restorations interleave, never leave it off by themselves.
PowerOffIsOwned == uimPower = 0 => mpc # "idle" \/ Pending # {} \/ lost # {}

\* If the user waits for one switch before asking for the next, the GPIO is
\* switched only while the slot has no power.
SwitchedUnpowered == [][gpio' # gpio => uimPower = 0 \/ overlapped]_vars

\* When nothing is under way, nothing was lost and nobody was in a hurry, the
\* switch on the page shows where the slot is routed.
SwitchShowsSlot ==
    mpc = "idle" /\ Pending = {} /\ lost = {} /\ ~overlapped => checked = gpio

\* Unless a listener gave up, power comes back.
PowerRestored == uimPower = 0 ~> (uimPower = 1 \/ lost # {})

\* "setUimPower(1) done via SEService.OnConnectedListener": whenever the power
\* was cut it comes back.
PowerComesBack == uimPower = 0 ~> uimPower = 1
=============================================================================
