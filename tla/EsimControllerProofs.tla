------------------------ MODULE EsimControllerProofs ------------------------
(***************************************************************************)
(* Safety of EsimController for any number of toggles: who answers for a   *)
(* slot without power, and, for a user who waits for one switch before     *)
(* asking for the next, that the slot is routed while it has no power and  *)
(* ends where the switch on the page says.                                 *)
(***************************************************************************)
EXTENDS EsimController, TLAPS

USE ConstantsAssumption

\* What is at work belongs to a toggle that was made.
WorkIsRequested ==
    /\ mpc # "idle" => taps \in Requests
    /\ \A r \in Requests : phase[r] \in {"unused"} \/ r <= taps

\* With one switch at a time, the work under way is that of the last toggle,
\* heads for the value shown, and cuts the power before it touches the GPIO.
Orderly ==
    /\ \A r \in Pending : r = taps /\ mpc = "idle"
    /\ mpc \in {"cut", "bind", "gpio"} => state[taps] = checked
    /\ mpc \in {"bind", "gpio"} => uimPower = 0
    /\ mpc = "power" => gpio = checked
    /\ \A r \in Requests :
         /\ phase[r] \in {"connecting", "open", "gpio"} =>
              state[r] = checked /\ uimPower = 0
         /\ phase[r] = "power" => gpio = checked
    /\ mpc = "idle" /\ Pending = {} /\ lost = {} => checked = gpio

Inv == TypeOK /\ WorkIsRequested /\ PowerOffIsOwned /\ (overlapped \/ Orderly)

-----------------------------------------------------------------------------
LEMMA RequestsAreNumbers == \A r \in Requests : r \in Nat /\ r > 0 /\ r <= MaxTaps
  BY DEF Requests

\* Which listeners are pending after one of them moved.
LEMMA PendingAfter ==
  ASSUME TypeOK, NEW r \in Requests, NEW p, phase' = [phase EXCEPT ![r] = p]
  PROVE  /\ \A q \in Requests : phase'[q] = IF q = r THEN p ELSE phase[q]
         /\ p \in {"unused", "closed"} => Pending' = Pending \ {r}
         /\ p \notin {"unused", "closed"} => Pending' = Pending \cup {r}
<1>1. \A q \in Requests : phase'[q] = IF q = r THEN p ELSE phase[q]
  BY DEF TypeOK
<1>2. Requests' = Requests
  BY DEF Requests
<1> QED BY <1>1, <1>2 DEF Pending

LEMMA InitInv == Init => Inv
<1> SUFFICES ASSUME Init PROVE Inv
  OBVIOUS
<1>1. TypeOK
  <2>1. hasSN220Chipset \in BOOLEAN /\ overlapped \in BOOLEAN
    BY Zenon DEF Init
  <2>2. /\ gpio \in {0, 1} /\ uimPower \in {0, 1} /\ checked \in {0, 1}
        /\ mpc \in {"idle", "cut", "bind", "gpio", "power"}
        /\ phase \in [Requests -> {"unused", "connecting", "open", "gpio", "power", "closed"}]
        /\ state \in [Requests -> {0, 1}]
        /\ taps \in 0 .. MaxTaps /\ opens \in 0 .. MaxOpens
        /\ lost \in SUBSET Requests
    BY DEF Init
  <2> QED BY <2>1, <2>2, Zenon DEF TypeOK
<1>2. Pending = {} /\ \A r \in Requests : phase[r] = "unused"
  BY DEF Init, Pending
<1>3. WorkIsRequested /\ PowerOffIsOwned /\ Orderly
  BY <1>2 DEF Init, WorkIsRequested, PowerOffIsOwned, Orderly
<1> QED BY <1>1, <1>3 DEF Inv

LEMMA TapKeepsInv == ASSUME Inv, Tap, UNCHANGED hasSN220Chipset PROVE Inv'
<1> USE RequestsAreNumbers DEF Inv
<1>1. /\ mpc = "idle" /\ taps < MaxTaps /\ checked' = 1 - checked /\ taps' = taps + 1
      /\ mpc' = IF gpio = checked' THEN "idle" ELSE "cut"
      /\ state' = [state EXCEPT ![taps'] = 1 - gpio]
      /\ UNCHANGED <<hal, phase, opens, lost>>
  BY DEF Tap, FirstStep, Flipped
<1>2. /\ overlapped' = (overlapped \/ Pending # {})
      /\ overlapped' \in BOOLEAN
  BY Zenon DEF Tap
<1>3. taps' \in Requests /\ taps \in Nat /\ gpio \in {0, 1} /\ checked \in {0, 1}
  BY <1>1 DEF TypeOK, Requests
<1>4. state' \in [Requests -> {0, 1}] /\ state'[taps'] = 1 - gpio
  BY <1>1, <1>3 DEF TypeOK
<1>5. TypeOK'
  <2>1. checked' \in {0, 1} /\ mpc' \in {"idle", "cut", "bind", "gpio", "power"}
    BY <1>1, <1>3
  <2>2. taps' \in 0 .. MaxTaps
    BY <1>1, <1>3
  <2> QED BY <1>1, <1>2, <1>4, <2>1, <2>2, Zenon DEF TypeOK, hal, Requests
<1>6. Pending' = Pending
  BY <1>1 DEF Pending, Requests
<1>7. WorkIsRequested'
  BY <1>1, <1>3 DEF WorkIsRequested, Requests
<1>8. PowerOffIsOwned'
  BY <1>1, <1>6 DEF PowerOffIsOwned, hal
<1>9. overlapped' \/ Orderly'
  <2> SUFFICES ASSUME ~overlapped' PROVE Orderly'
    OBVIOUS
  <2>1. Orderly /\ Pending = {}
    BY <1>2
  <2>2. \A r \in Requests : phase'[r] \in {"unused", "closed"}
    BY <1>1, <2>1 DEF Pending
  <2>3. gpio = checked' \/ 1 - gpio = checked'
    BY <1>1, <1>3
  <2> QED BY <1>1, <1>3, <1>4, <1>6, <2>1, <2>2, <2>3 DEF Orderly, hal
<1> QED BY <1>5, <1>7, <1>8, <1>9

LEMMA ReopenKeepsInv == ASSUME Inv, Reopen, UNCHANGED hasSN220Chipset PROVE Inv'
<1> USE DEF Inv
<1>1. /\ mpc = "idle" /\ checked' = gpio /\ opens < MaxOpens /\ opens' = opens + 1
      /\ UNCHANGED <<hal, mpc, phase, state, taps, lost>>
  BY DEF Reopen
<1>2. /\ overlapped' = (overlapped \/ Pending # {})
      /\ overlapped' \in BOOLEAN
  BY Zenon DEF Reopen
<1>3. Pending' = Pending
  BY <1>1 DEF Pending, Requests
<1>4. TypeOK'
  <2>1. opens' \in 0 .. MaxOpens /\ checked' \in {0, 1}
    BY <1>1 DEF TypeOK
  <2> QED BY <1>1, <1>2, <2>1, Zenon DEF TypeOK, hal, Requests
<1>5. WorkIsRequested' /\ PowerOffIsOwned'
  BY <1>1, <1>3 DEF WorkIsRequested, PowerOffIsOwned, hal, Requests
<1>6. overlapped' \/ Orderly'
  <2> SUFFICES ASSUME ~overlapped' PROVE Orderly'
    OBVIOUS
  <2>1. Pending = {}
    BY <1>2
  <2>2. \A r \in Requests : phase'[r] \in {"unused", "closed"}
    BY <1>1, <2>1 DEF Pending
  <2> QED BY <1>1, <1>3, <2>1, <2>2 DEF Orderly, hal
<1> QED BY <1>4, <1>5, <1>6

LEMMA CutPowerKeepsInv == ASSUME Inv, CutPower, UNCHANGED hasSN220Chipset PROVE Inv'
<1> USE DEF Inv
<1>1. /\ mpc = "cut" /\ uimPower' = 0 /\ mpc' \in {"bind", "gpio"}
      /\ UNCHANGED <<gpio, checked, phase, state, taps, opens, lost, overlapped>>
  BY DEF CutPower
<1>2. Pending' = Pending
  BY <1>1 DEF Pending, Requests
<1>3. TypeOK'
  <2>1. uimPower' \in {0, 1} /\ mpc' \in {"idle", "cut", "bind", "gpio", "power"}
    BY <1>1
  <2> QED BY <1>1, <2>1, Zenon DEF TypeOK, Requests
<1>4. WorkIsRequested' /\ PowerOffIsOwned'
  BY <1>1, <1>2 DEF WorkIsRequested, PowerOffIsOwned, Requests
<1>5. Orderly => Orderly'
  <2> SUFFICES ASSUME Orderly PROVE Orderly'
    OBVIOUS
  <2>1. Pending = {}
    BY <1>1 DEF Orderly
  <2>2. \A r \in Requests : phase'[r] \in {"unused", "closed"}
    BY <1>1, <2>1 DEF Pending
  <2> QED BY <1>1, <1>2, <2>1, <2>2 DEF Orderly
<1> QED BY <1>1, <1>3, <1>4, <1>5

LEMMA SwitchNowKeepsInv == ASSUME Inv, SwitchNow, UNCHANGED hasSN220Chipset PROVE Inv'
<1> USE DEF Inv
<1>1. /\ UNCHANGED <<checked, phase, state, taps, opens, lost, overlapped>>
      /\ \/ mpc = "gpio" /\ gpio' = state[taps] /\ mpc' = "power" /\ UNCHANGED uimPower
         \/ mpc = "power" /\ uimPower' = 1 /\ mpc' = "idle" /\ UNCHANGED gpio
  BY DEF SwitchNow
<1>2. Pending' = Pending
  BY <1>1 DEF Pending, Requests
<1>3. taps \in Requests
  BY <1>1 DEF WorkIsRequested
<1>4. TypeOK'
  <2>1. /\ gpio' \in {0, 1} /\ uimPower' \in {0, 1}
        /\ mpc' \in {"idle", "cut", "bind", "gpio", "power"}
    BY <1>1, <1>3 DEF TypeOK
  <2> QED BY <1>1, <2>1, Zenon DEF TypeOK, Requests
<1>5. WorkIsRequested' /\ PowerOffIsOwned'
  BY <1>1, <1>2 DEF WorkIsRequested, PowerOffIsOwned, Requests
<1>6. Orderly => Orderly'
  <2> SUFFICES ASSUME Orderly PROVE Orderly'
    OBVIOUS
  <2>1. Pending = {}
    BY <1>1 DEF Orderly
  <2>2. \A r \in Requests : phase'[r] \in {"unused", "closed"}
    BY <1>1, <2>1 DEF Pending
  <2> QED BY <1>1, <1>2, <2>1, <2>2 DEF Orderly
<1> QED BY <1>1, <1>4, <1>5, <1>6

LEMMA BindServiceKeepsInv == ASSUME Inv, BindService, UNCHANGED hasSN220Chipset PROVE Inv'
<1> USE DEF Inv
<1>1. /\ mpc = "bind" /\ mpc' = "idle"
      /\ UNCHANGED <<hal, checked, state, taps, opens, overlapped>>
      /\ \/ phase' = [phase EXCEPT ![taps] = "connecting"] /\ lost' = lost
         \/ phase' = [phase EXCEPT ![taps] = "closed"] /\ lost' = lost \cup {taps}
  BY DEF BindService
<1>2. taps \in Requests
  BY <1>1 DEF WorkIsRequested
<1>3. TypeOK'
  <2>1. phase' \in [Requests -> {"unused", "connecting", "open", "gpio", "power", "closed"}]
    BY <1>1, <1>2 DEF TypeOK
  <2>2. lost' \in SUBSET Requests /\ mpc' \in {"idle", "cut", "bind", "gpio", "power"}
    BY <1>1, <1>2 DEF TypeOK
  <2> QED BY <1>1, <2>1, <2>2, Zenon DEF TypeOK, Requests, hal
<1>4. CASE phase' = [phase EXCEPT ![taps] = "connecting"] /\ lost' = lost
  <2>1. /\ \A q \in Requests : phase'[q] = IF q = taps THEN "connecting" ELSE phase[q]
        /\ Pending' = Pending \cup {taps}
    <3>1. "connecting" \notin {"unused", "closed"}
      OBVIOUS
    <3> QED BY <1>2, <1>4, <3>1, PendingAfter, Zenon
  <2>2. WorkIsRequested' /\ PowerOffIsOwned'
    BY <1>1, <1>2, <2>1, RequestsAreNumbers
       DEF WorkIsRequested, PowerOffIsOwned, Requests, hal
  <2>3. Orderly => Orderly'
    <3> SUFFICES ASSUME Orderly PROVE Orderly'
      OBVIOUS
    <3>1. Pending = {} /\ state[taps] = checked /\ uimPower = 0
      BY <1>1 DEF Orderly
    <3>2. \A r \in Requests : phase[r] \in {"unused", "closed"}
      BY <3>1 DEF Pending
    <3> QED BY <1>1, <1>2, <2>1, <3>1, <3>2 DEF Orderly, hal, Requests
  <2> QED BY <1>1, <1>3, <2>2, <2>3
<1>5. CASE phase' = [phase EXCEPT ![taps] = "closed"] /\ lost' = lost \cup {taps}
  <2>1. /\ \A q \in Requests : phase'[q] = IF q = taps THEN "closed" ELSE phase[q]
        /\ Pending' = Pending \ {taps}
    BY <1>2, <1>5, PendingAfter
  <2>2. WorkIsRequested' /\ PowerOffIsOwned'
    BY <1>1, <1>2, <1>5, <2>1, RequestsAreNumbers
       DEF WorkIsRequested, PowerOffIsOwned, Requests, hal
  <2>3. Orderly => Orderly'
    <3> SUFFICES ASSUME Orderly PROVE Orderly'
      OBVIOUS
    <3>1. Pending = {}
      BY <1>1 DEF Orderly
    <3>2. \A r \in Requests : phase[r] \in {"unused", "closed"}
      BY <3>1 DEF Pending
    <3> QED BY <1>1, <1>2, <1>5, <2>1, <3>1, <3>2 DEF Orderly, hal, Requests
  <2> QED BY <1>1, <1>3, <2>2, <2>3
<1> QED BY <1>1, <1>4, <1>5

\* A listener that moves on and is not done yet.
LEMMA ListenerGoesOn ==
  ASSUME Inv, NEW r \in Pending, NEW p \in {"open", "gpio", "power"},
         phase' = [phase EXCEPT ![r] = p],
         UNCHANGED <<hasSN220Chipset, uimPower, checked, mpc, state, taps, opens, lost,
                     overlapped>>,
         \/ UNCHANGED gpio /\ p # "power" /\ phase[r] \in {"connecting", "open"}
         \/ gpio' = state[r] /\ p = "power" /\ phase[r] = "gpio"
  PROVE  Inv'
<1> USE DEF Inv
<1>1. r \in Requests
  BY DEF Pending
<1>2. /\ \A q \in Requests : phase'[q] = IF q = r THEN p ELSE phase[q]
      /\ Pending' = Pending
  <2>1. p \notin {"unused", "closed"}
    OBVIOUS
  <2>2. /\ \A q \in Requests : phase'[q] = IF q = r THEN p ELSE phase[q]
        /\ Pending' = Pending \cup {r}
    BY <1>1, <2>1, PendingAfter, Zenon
  <2> QED BY <2>2
<1>3. TypeOK'
  <2>1. phase' \in [Requests -> {"unused", "connecting", "open", "gpio", "power", "closed"}]
    BY <1>1 DEF TypeOK
  <2>2. gpio' \in {0, 1}
    BY <1>1 DEF TypeOK
  <2> QED BY <2>1, <2>2, Zenon DEF TypeOK, Requests
<1>4. WorkIsRequested' /\ PowerOffIsOwned'
  BY <1>1, <1>2 DEF WorkIsRequested, PowerOffIsOwned, Requests, Pending
<1>5. Orderly => Orderly'
  <2> SUFFICES ASSUME Orderly PROVE Orderly'
    OBVIOUS
  <2>1. r = taps /\ mpc = "idle" /\ Pending # {}
    BY DEF Orderly
  <2>2. \A q \in Requests : q # r => phase[q] \in {"unused", "closed"}
    BY <2>1 DEF Orderly, Pending
  <2>3. phase[r] # "power" => state[r] = checked /\ uimPower = 0
    BY <1>1 DEF Orderly
  <2> QED BY <1>1, <1>2, <2>1, <2>2, <2>3 DEF Orderly, Requests
<1> QED BY <1>3, <1>4, <1>5

\* A listener that is done, or gives up.
LEMMA ListenerEnds ==
  ASSUME Inv, NEW r \in Pending, phase' = [phase EXCEPT ![r] = "closed"],
         UNCHANGED <<hasSN220Chipset, gpio, checked, mpc, state, taps, opens, overlapped>>,
         \/ uimPower' = 1 /\ lost' = lost /\ phase[r] = "power"
         \/ uimPower' = uimPower /\ lost' = lost \cup {r}
  PROVE  Inv'
<1> USE DEF Inv
<1>1. r \in Requests
  BY DEF Pending
<1>2. /\ \A q \in Requests : phase'[q] = IF q = r THEN "closed" ELSE phase[q]
      /\ Pending' = Pending \ {r}
  BY <1>1, PendingAfter
<1>3. TypeOK'
  <2>1. phase' \in [Requests -> {"unused", "connecting", "open", "gpio", "power", "closed"}]
    BY <1>1 DEF TypeOK
  <2>2. uimPower' \in {0, 1}
    BY DEF TypeOK
  <2>3. lost' \in SUBSET Requests
    BY <1>1 DEF TypeOK
  <2> QED BY <2>1, <2>2, <2>3, Zenon DEF TypeOK, Requests
<1>4. WorkIsRequested' /\ PowerOffIsOwned'
  BY <1>1, <1>2 DEF WorkIsRequested, PowerOffIsOwned, Requests, Pending
<1>5. Orderly => Orderly'
  <2> SUFFICES ASSUME Orderly PROVE Orderly'
    OBVIOUS
  <2>1. r = taps /\ mpc = "idle"
    BY DEF Orderly
  <2>2. \A q \in Requests : q # r => phase[q] \in {"unused", "closed"}
    BY <2>1 DEF Orderly, Pending
  <2>3. lost' = {} => gpio = checked
    BY <1>1 DEF Orderly
  <2> QED BY <1>1, <1>2, <2>1, <2>2, <2>3 DEF Orderly, Requests
<1> QED BY <1>3, <1>4, <1>5

LEMMA ListenerKeepsInv ==
  ASSUME Inv, NEW r \in Requests, Connected(r) \/ Listener(r) \/ ListenerFails(r),
         UNCHANGED hasSN220Chipset
  PROVE  Inv'
<1>1. phase[r] \notin {"unused", "closed"} => r \in Pending
  BY DEF Pending
<1>2. CASE Connected(r)
  BY <1>1, <1>2, ListenerGoesOn DEF Connected, Reach, hal
<1>3. CASE OpenSession(r)
  BY <1>1, <1>3, ListenerGoesOn DEF OpenSession, Reach, ListenerOrder, hal
<1>4. CASE SetEsimGpio(r)
  BY <1>1, <1>4, ListenerGoesOn DEF SetEsimGpio, Reach, ListenerOrder
<1>5. CASE SetUimPower(r)
  BY <1>1, <1>5, ListenerEnds DEF SetUimPower, Reach, ListenerOrder
<1>6. CASE ListenerFails(r)
  BY <1>1, <1>6, ListenerEnds DEF ListenerFails, Reach, hal
<1> QED BY <1>2, <1>3, <1>4, <1>5, <1>6 DEF Listener

LEMMA NextInv == ASSUME Inv, [Next]_vars PROVE Inv'
<1>1. CASE Next
  <2>1. UNCHANGED hasSN220Chipset
    BY <1>1 DEF Next
  <2> QED BY <1>1, <2>1, TapKeepsInv, ReopenKeepsInv, CutPowerKeepsInv, SwitchNowKeepsInv,
             BindServiceKeepsInv, ListenerKeepsInv DEF Next, Main
<1>2. CASE UNCHANGED vars
  BY <1>2 DEF vars, hal, Inv, TypeOK, WorkIsRequested, PowerOffIsOwned, Orderly, Pending,
       Requests
<1> QED BY <1>1, <1>2

-----------------------------------------------------------------------------
\* For every number of toggles: a slot without power has a toggle or a listener
\* at work on it, or one that gave up.
THEOREM PowerOffIsAlwaysOwned == Spec => [](TypeOK /\ PowerOffIsOwned)
<1>1. Inv => TypeOK /\ PowerOffIsOwned
  BY DEF Inv
<1> QED BY <1>1, InitInv, NextInv, PTL DEF Spec

\* For every number of toggles: once nothing is under way, nothing failed and
\* nothing overlapped, the switch on the page shows where the slot is routed.
THEOREM SwitchAlwaysShowsSlot == Spec => []SwitchShowsSlot
<1>1. Inv => SwitchShowsSlot
  BY Zenon DEF Inv, Orderly, SwitchShowsSlot
<1> QED BY <1>1, InitInv, NextInv, PTL DEF Spec

\* For every number of toggles: toggles that do not overlap route the slot only
\* while it has no power.
THEOREM RoutedWithoutPower == Spec => SwitchedUnpowered
<1>1. ASSUME Inv, [Next]_vars PROVE [gpio' # gpio => uimPower = 0 \/ overlapped]_vars
  <2> SUFFICES ASSUME gpio' # gpio, ~overlapped PROVE uimPower = 0
    OBVIOUS
  <2>1. Orderly
    BY <1>1 DEF Inv
  <2>2. mpc = "gpio" \/ \E r \in Requests : phase[r] = "gpio"
    BY <1>1 DEF Next, vars, hal, Tap, Reopen, Main, CutPower, SwitchNow, BindService,
         Connected, Listener, OpenSession, SetEsimGpio, SetUimPower, ListenerFails
  <2> QED BY <2>1, <2>2 DEF Orderly
<1> QED BY <1>1, InitInv, NextInv, PTL DEF Spec, SwitchedUnpowered
=============================================================================
