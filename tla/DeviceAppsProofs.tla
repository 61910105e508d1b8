------------------------- MODULE DeviceAppsProofs -------------------------
(***************************************************************************)
(* Safety of the apps that run as sticky services: of PenService for any   *)
(* number of choices, pens, charger events and process deaths; of Doze for *)
(* any number of taps, screen changes and process deaths.                  *)
(***************************************************************************)
EXTENDS PenService, Doze, SequenceTheorems, TLAPS

-----------------------------------------------------------------------------
(* PenService *)

USE ConstantsAssumption

\* Whoever is past his look at the devices knows the pen, or will be told.
SeesPen ==
    phase # "dead" /\ pc # "devices" /\ ~deviceChanged /\ ~missed => isPenConnected = pen

\* Whoever is past his look at the setting knows it, or will be told; at rest
\* there was nothing to write.
SeesRate ==
    phase # "dead" /\ ~settingChanged =>
      /\ pc \in {"idle", "write"} => peakRefreshRate = rate
      /\ pc = "idle" => ~Lowers /\ ~Raises

\* A lowered rate is remembered to be raised again, or the process was killed.
LoweredIsRemembered == lowered => rate = penSupportedRefreshRate /\ (wasPenConnected \/ forgot)

\* The last event under way is the charger's state; only the service gets any.
LastEventTrue ==
    /\ uevents = <<>> => (notified => attached \/ unseen)
    /\ uevents # <<>> => (uevents[Len(uevents)] = attached)
    /\ phase # "running" => uevents = <<>>

Inv == TypeOK /\ SeesPen /\ SeesRate /\ LoweredIsRemembered /\ UserChoiceKept /\ LastEventTrue

-----------------------------------------------------------------------------
LEMMA RatesDiffer ==
  /\ Unlimited \in Rates /\ penSupportedRefreshRate \in Rates
  /\ Unlimited # penSupportedRefreshRate
  /\ Unlimited # "other" /\ penSupportedRefreshRate # "other"
  BY DEF Unlimited, penSupportedRefreshRate, Rates

\* The type invariant in two parts: what is true or false, and the rest.
Flags ==
    /\ pen \in BOOLEAN /\ isPenConnected \in BOOLEAN /\ wasPenConnected \in BOOLEAN
    /\ settingChanged \in BOOLEAN /\ deviceChanged \in BOOLEAN
    /\ attached \in BOOLEAN /\ bonded \in BOOLEAN /\ notified \in BOOLEAN
    /\ scanning \in BOOLEAN
    /\ lowered \in BOOLEAN /\ overwritten \in BOOLEAN /\ missed \in BOOLEAN
    /\ forgot \in BOOLEAN /\ unseen \in BOOLEAN

Values ==
    /\ rate \in Rates /\ choice \in Rates /\ peakRefreshRate \in Rates
    /\ phase \in {"dead", "creating", "running"}
    /\ pc \in {"idle", "devices", "setting", "write"}
    /\ uevents \in Seq(BOOLEAN)
    /\ budget \in [user : 0 .. MaxUser, pen : 0 .. MaxPen, attach : 0 .. MaxAttach,
                   kill : 0 .. MaxKills]

LEMMA TypeParts == TypeOK <=> Flags /\ Values
  BY Zenon DEF TypeOK, Flags, Values

LEMMA SpendKeepsBudget ==
  ASSUME Values, NEW what \in {"user", "pen", "attach", "kill"}, Spend(what)
  PROVE  budget' \in [user : 0 .. MaxUser, pen : 0 .. MaxPen, attach : 0 .. MaxAttach,
                      kill : 0 .. MaxKills]
  BY DEF Spend, Values

LEMMA InitInv == Init => Inv
<1> SUFFICES ASSUME Init PROVE Inv
  OBVIOUS
<1>1. TypeOK
  <2>1. rate \in Rates /\ choice \in Rates /\ peakRefreshRate \in Rates
    BY DEF Init
  <2>2. uevents \in Seq(BOOLEAN)
    BY DEF Init
  <2>3. budget \in [user : 0 .. MaxUser, pen : 0 .. MaxPen, attach : 0 .. MaxAttach,
                    kill : 0 .. MaxKills]
    BY DEF Init
  <2> QED BY <2>1, <2>2, <2>3, Zenon DEF Init, TypeOK
<1>2. SeesPen /\ SeesRate /\ LoweredIsRemembered /\ UserChoiceKept /\ LastEventTrue
  BY Zenon DEF Init, SeesPen, SeesRate, LoweredIsRemembered, UserChoiceKept, LastEventTrue
<1> QED BY <1>1, <1>2 DEF Inv

\* What it means that a group of variables is left alone.
LEMMA GroupsUnchanged ==
  /\ UNCHANGED locals =>
       UNCHANGED <<isPenConnected, peakRefreshRate, wasPenConnected>>
  /\ UNCHANGED posted => UNCHANGED <<settingChanged, deviceChanged>>
  /\ UNCHANGED charger => UNCHANGED <<attached, bonded, notified, uevents, scanning>>
  /\ UNCHANGED history =>
       UNCHANGED <<choice, lowered, overwritten, missed, forgot, unseen>>
  /\ UNCHANGED vars =>
       UNCHANGED <<rate, pen, phase, pc, locals, posted, charger, budget, history>>
  BY DEF locals, posted, charger, history, vars

LEMMA FlagsKept == ASSUME Flags, Values, [Next]_vars PROVE Flags'
<1> USE GroupsUnchanged DEF Flags
<1>1. CASE Create
  BY <1>1 DEF Create
<1>2. CASE Listen
  BY <1>2 DEF Listen
<1>3. CASE OnChange
  <2>1. settingChanged' \in BOOLEAN /\ deviceChanged' \in BOOLEAN
    BY <1>3, Zenon DEF OnChange
  <2> QED BY <1>3, <2>1 DEF OnChange
<1>4. CASE ReadDevices
  BY <1>4 DEF ReadDevices
<1>5. CASE ReadSetting
  BY <1>5 DEF ReadSetting
<1>6. CASE Write
  <2>1. /\ settingChanged' \in BOOLEAN /\ wasPenConnected' \in BOOLEAN
        /\ lowered' \in BOOLEAN /\ overwritten' \in BOOLEAN
    BY <1>6, Zenon DEF Write, Lowers
  <2> QED BY <1>6, <2>1 DEF Write
<1>7. CASE OnUEvent
  <2>1. Head(uevents) \in BOOLEAN
    BY <1>7 DEF OnUEvent, Values
  <2>2. notified' \in BOOLEAN
    BY <1>7, <2>1, Zenon DEF OnUEvent, NotifiedAfter
  <2> QED BY <1>7, <2>2 DEF OnUEvent
<1>8. CASE OnStartCommand
  <2>1. notified' \in BOOLEAN /\ scanning' \in BOOLEAN
    BY <1>8, Zenon DEF OnStartCommand
  <2> QED BY <1>8, <2>1 DEF OnStartCommand
<1>9. CASE OnScanResult
  <2>1. scanning' \in BOOLEAN /\ bonded' \in BOOLEAN
    BY <1>9, Zenon DEF OnScanResult
  <2> QED BY <1>9, <2>1 DEF OnScanResult
<1>10. ASSUME NEW r \in Rates, Choose(r) PROVE Flags'
  <2>1. /\ settingChanged' \in BOOLEAN /\ lowered' \in BOOLEAN
        /\ overwritten' \in BOOLEAN
    BY <1>10, Zenon DEF Choose, Observed
  <2> QED BY <1>10, <2>1 DEF Choose
<1>11. CASE PenChanges
  <2>1. pen' \in BOOLEAN /\ deviceChanged' \in BOOLEAN /\ missed' \in BOOLEAN
    BY <1>11, Zenon DEF PenChanges
  <2> QED BY <1>11, <2>1 DEF PenChanges
<1>12. CASE Attach
  BY <1>12 DEF Attach
<1>13. CASE Killed
  BY <1>13 DEF Killed
<1>14. CASE UNCHANGED vars
  BY <1>14 DEF Flags
<1> QED BY <1>1, <1>2, <1>3, <1>4, <1>5, <1>6, <1>7, <1>8, <1>9, <1>10, <1>11, <1>12, <1>13,
           <1>14, Zenon DEF Next, Service

LEMMA ValuesKept == ASSUME Flags, Values, [Next]_vars PROVE Values'
<1> USE DEF Values
<1>1. CASE Create
  BY <1>1 DEF Create, locals, charger, history
<1>2. CASE Listen
  BY <1>2 DEF Listen, locals, charger, history
<1>3. CASE OnChange
  BY <1>3 DEF OnChange, locals, charger, history
<1>4. CASE ReadDevices
  BY <1>4 DEF ReadDevices, charger
<1>5. CASE ReadSetting
  BY <1>5 DEF ReadSetting, charger, history
<1>6. CASE Write
  <2>1. rate' \in Rates
    BY <1>6, RatesDiffer, Zenon DEF Write
  <2> QED BY <1>6, <2>1 DEF Write, charger
<1>7. CASE OnUEvent
  BY <1>7 DEF OnUEvent, locals, history
<1>8. CASE OnStartCommand
  BY <1>8 DEF OnStartCommand, locals, history
<1>9. CASE OnScanResult
  BY <1>9 DEF OnScanResult, locals, history
<1>10. ASSUME NEW r \in Rates, Choose(r) PROVE Values'
  BY <1>10, SpendKeepsBudget DEF Choose, locals, charger
<1>11. CASE PenChanges
  BY <1>11, SpendKeepsBudget DEF PenChanges, locals, charger
<1>12. CASE Attach
  <2>1. attached' \in BOOLEAN
    BY <1>12, Zenon DEF Attach
  <2>2. uevents' \in Seq(BOOLEAN)
    <3>1. Append(uevents, attached') \in Seq(BOOLEAN)
      BY <2>1
    <3> QED BY <1>12, <3>1, Zenon DEF Attach
  <2> QED BY <1>12, <2>2, SpendKeepsBudget DEF Attach, locals
<1>13. CASE Killed
  BY <1>13, SpendKeepsBudget DEF Killed
<1>14. CASE UNCHANGED vars
  BY <1>14 DEF vars, locals, charger, history
<1> QED BY <1>1, <1>2, <1>3, <1>4, <1>5, <1>6, <1>7, <1>8, <1>9, <1>10, <1>11, <1>12, <1>13,
           <1>14, Zenon DEF Next, Service

-----------------------------------------------------------------------------
LEMMA SeesPenKept == ASSUME Values, SeesPen, [Next]_vars PROVE SeesPen'
<1> USE DEF SeesPen
<1>1. CASE Create
  BY <1>1 DEF Create
<1>2. CASE Listen
  BY <1>2, GroupsUnchanged DEF Listen
<1>3. CASE OnChange
  BY <1>3 DEF OnChange
<1>4. CASE ReadDevices
  BY <1>4 DEF ReadDevices
<1>5. CASE ReadSetting
  BY <1>5, GroupsUnchanged DEF ReadSetting
<1>6. CASE Write
  BY <1>6 DEF Write
<1>7. CASE OnUEvent \/ OnStartCommand \/ OnScanResult
  <2>1. UNCHANGED <<phase, pc, pen, isPenConnected, deviceChanged, missed>>
    BY <1>7, GroupsUnchanged DEF OnUEvent, OnStartCommand, OnScanResult
  <2> QED BY <2>1, Zenon
<1>8. ASSUME NEW r \in Rates, Choose(r) PROVE SeesPen'
  BY <1>8, GroupsUnchanged DEF Choose
<1>9. CASE PenChanges
  <2>1. /\ UNCHANGED <<phase, pc>>
        /\ deviceChanged' = (deviceChanged \/ phase = "running")
        /\ missed' = (missed \/ (phase = "creating" /\ pc # "devices"))
    BY <1>9, Zenon DEF PenChanges
  <2>2. phase \in {"dead", "creating", "running"}
    BY DEF Values
  <2> QED BY <2>1, <2>2, Zenon
<1>10. CASE Attach
  BY <1>10, GroupsUnchanged DEF Attach
<1>11. CASE Killed
  BY <1>11 DEF Killed
<1>12. CASE UNCHANGED vars
  BY <1>12, GroupsUnchanged
<1> QED BY <1>1, <1>2, <1>3, <1>4, <1>5, <1>6, <1>7, <1>8, <1>9, <1>10, <1>11, <1>12, Zenon
       DEF Next, Service

LEMMA SeesRateKept == ASSUME Values, SeesRate, [Next]_vars PROVE SeesRate'
<1> USE DEF SeesRate, Lowers, Raises
<1>1. CASE Create
  BY <1>1 DEF Create
<1>2. CASE Listen
  BY <1>2, GroupsUnchanged DEF Listen
<1>3. CASE OnChange
  BY <1>3 DEF OnChange
<1>4. CASE ReadDevices
  BY <1>4 DEF ReadDevices
<1>5. CASE ReadSetting
  BY <1>5 DEF ReadSetting
<1>6. CASE Write
  BY <1>6, RatesDiffer, Zenon DEF Write
<1>7. CASE OnUEvent \/ OnStartCommand \/ OnScanResult
  <2>1. UNCHANGED <<phase, pc, rate, isPenConnected, peakRefreshRate, wasPenConnected,
                    settingChanged>>
    BY <1>7, GroupsUnchanged DEF OnUEvent, OnStartCommand, OnScanResult
  <2> QED BY <2>1, Zenon
<1>8. ASSUME NEW r \in Rates, Choose(r) PROVE SeesRate'
  BY <1>8 DEF Choose, Observed
<1>9. CASE PenChanges
  BY <1>9, GroupsUnchanged DEF PenChanges
<1>10. CASE Attach
  BY <1>10, GroupsUnchanged DEF Attach
<1>11. CASE Killed
  BY <1>11 DEF Killed
<1>12. CASE UNCHANGED vars
  BY <1>12, GroupsUnchanged
<1> QED BY <1>1, <1>2, <1>3, <1>4, <1>5, <1>6, <1>7, <1>8, <1>9, <1>10, <1>11, <1>12, Zenon
       DEF Next, Service

LEMMA LoweredKept == ASSUME LoweredIsRemembered, [Next]_vars PROVE LoweredIsRemembered'
<1> USE DEF LoweredIsRemembered
<1>1. CASE Create \/ Listen \/ OnChange \/ OnUEvent \/ OnStartCommand \/ OnScanResult
  <2>1. UNCHANGED <<lowered, rate, wasPenConnected, forgot>>
    BY <1>1, GroupsUnchanged
       DEF Create, Listen, OnChange, OnUEvent, OnStartCommand, OnScanResult
  <2> QED BY <2>1, Zenon
<1>2. CASE ReadDevices
  BY <1>2 DEF ReadDevices
<1>3. CASE ReadSetting
  <2>1. UNCHANGED <<lowered, rate, forgot>>
    BY <1>3, GroupsUnchanged DEF ReadSetting
  <2>2. wasPenConnected' = (wasPenConnected \/ isPenConnected)
    BY <1>3, Zenon DEF ReadSetting
  <2> QED BY <2>1, <2>2, Zenon
<1>4. CASE Write
  <2>1. CASE Lowers \/ Raises
    <3>2. /\ rate' = IF Lowers THEN penSupportedRefreshRate ELSE Unlimited
          /\ wasPenConnected' = Lowers /\ lowered' = Lowers
      BY <1>4, <2>1, Zenon DEF Write
    <3>1. lowered' => rate' = penSupportedRefreshRate /\ wasPenConnected'
      BY <3>2, Zenon
    <3> QED BY <3>1, Zenon
  <2>2. CASE ~(Lowers \/ Raises)
    <3>1. UNCHANGED <<lowered, rate, wasPenConnected, forgot>>
      BY <1>4, <2>2, Zenon DEF Write
    <3> QED BY <3>1, Zenon
  <2> QED BY <2>1, <2>2
<1>5. ASSUME NEW r \in Rates, Choose(r) PROVE LoweredIsRemembered'
  BY <1>5 DEF Choose
<1>6. CASE PenChanges \/ Attach
  <2>1. UNCHANGED <<lowered, rate, wasPenConnected, forgot>>
    BY <1>6, GroupsUnchanged DEF PenChanges, Attach
  <2> QED BY <2>1, Zenon
<1>7. CASE Killed
  BY <1>7, Zenon DEF Killed
<1>8. CASE UNCHANGED vars
  <2>1. UNCHANGED <<lowered, rate, wasPenConnected, forgot>>
    BY <1>8, GroupsUnchanged
  <2> QED BY <2>1, Zenon
<1> QED BY <1>1, <1>2, <1>3, <1>4, <1>5, <1>6, <1>7, <1>8, Zenon DEF Next, Service

LEMMA ChoiceKept == ASSUME UserChoiceKept, [Next]_vars PROVE UserChoiceKept'
<1> USE DEF UserChoiceKept
<1>1. CASE Create \/ Listen \/ OnChange \/ OnUEvent \/ OnStartCommand \/ OnScanResult
  <2>1. UNCHANGED <<choice, rate, overwritten>>
    BY <1>1, GroupsUnchanged
       DEF Create, Listen, OnChange, OnUEvent, OnStartCommand, OnScanResult
  <2> QED BY <2>1, Zenon
<1>2. CASE ReadDevices \/ ReadSetting
  BY <1>2, GroupsUnchanged DEF ReadDevices, ReadSetting
<1>3. CASE Write
  BY <1>3, RatesDiffer, Zenon DEF Write, Lowers, Raises
<1>4. ASSUME NEW r \in Rates, Choose(r) PROVE UserChoiceKept'
  BY <1>4 DEF Choose
<1>5. CASE PenChanges \/ Attach \/ Killed
  BY <1>5, GroupsUnchanged DEF PenChanges, Attach, Killed
<1>6. CASE UNCHANGED vars
  BY <1>6, GroupsUnchanged
<1> QED BY <1>1, <1>2, <1>3, <1>4, <1>5, <1>6, Zenon DEF Next, Service

LEMMA LastEventKept == ASSUME Flags, Values, LastEventTrue, [Next]_vars PROVE LastEventTrue'
<1> USE DEF LastEventTrue
<1>1. CASE Create \/ Listen \/ OnChange
  BY <1>1, GroupsUnchanged DEF Create, Listen, OnChange
<1>2. CASE ReadDevices \/ ReadSetting \/ Write
  BY <1>2, GroupsUnchanged DEF ReadDevices, ReadSetting, Write
<1>3. CASE OnUEvent
  <2>1. /\ uevents # <<>> /\ uevents' = Tail(uevents)
        /\ notified' = NotifiedAfter(Head(uevents))
        /\ UNCHANGED <<attached, unseen>>
    BY <1>3, GroupsUnchanged DEF OnUEvent
  <2>4. phase' = "running"
    BY <1>3 DEF OnUEvent
  <2>2. CASE Len(uevents) = 1
    <3>1. Head(uevents) = attached /\ uevents' = <<>>
      BY <2>1, <2>2 DEF Values
    <3> QED BY <2>1, <2>4, <3>1, Zenon DEF NotifiedAfter
  <2>3. CASE Len(uevents) # 1
    <3>1. uevents \in Seq(BOOLEAN) /\ Len(uevents) \in Nat \ {0}
      BY <2>1, EmptySeq DEF Values
    <3>2. /\ Len(Tail(uevents)) = Len(uevents) - 1
          /\ \A k \in 1 .. Len(Tail(uevents)) : Tail(uevents)[k] = uevents[k + 1]
      BY <2>1, <3>1, HeadTailProperties
    <3>5. Len(Tail(uevents)) \in 1 .. Len(Tail(uevents))
      BY <2>3, <3>1, <3>2
    <3>6. Tail(uevents) # <<>>
      <4>1. Len(<<>>) = 0
        BY EmptySeq
      <4>2. ~(Len(<<>>) \in 1 .. Len(<<>>))
        BY <4>1
      <4> QED BY <3>5, <4>2, Zenon
    <3>7. Len(Tail(uevents)) + 1 = Len(uevents)
      BY <3>1, <3>2
    <3>3. /\ Tail(uevents)[Len(Tail(uevents))] = uevents[Len(uevents)]
          /\ Tail(uevents) # <<>>
      BY <3>2, <3>5, <3>6, <3>7, Zenon
    <3>4. uevents[Len(uevents)] = attached
      BY <2>1
    <3> QED BY <2>1, <2>4, <3>3, <3>4, Zenon
  <2> QED BY <2>2, <2>3
<1>4. CASE OnStartCommand
  BY <1>4, GroupsUnchanged DEF OnStartCommand
<1>5. CASE OnScanResult
  BY <1>5, GroupsUnchanged DEF OnScanResult
<1>6. ASSUME NEW r \in Rates, Choose(r) PROVE LastEventTrue'
  BY <1>6, GroupsUnchanged DEF Choose
<1>7. CASE PenChanges
  BY <1>7, GroupsUnchanged DEF PenChanges
<1>8. CASE Attach
  <2>1. CASE phase = "running"
    <3>1. uevents' = Append(uevents, attached')
      BY <1>8, <2>1 DEF Attach
    <3>2. uevents' # <<>> /\ uevents'[Len(uevents')] = attached'
      BY <3>1 DEF Values
    <3>3. phase' = "running"
      BY <1>8, <2>1 DEF Attach
    <3> QED BY <3>2, <3>3, Zenon
  <2>2. CASE phase # "running"
    <3>1. uevents' = uevents /\ unseen'
      BY <1>8, <2>2, Zenon DEF Attach
    <3>2. UNCHANGED notified
      BY <1>8, GroupsUnchanged DEF Attach
    <3>3. uevents = <<>>
      BY <2>2
    <3> QED BY <3>1, <3>2, <3>3, Zenon
  <2> QED BY <2>1, <2>2
<1>9. CASE Killed
  <2>1. /\ uevents' = <<>> /\ unseen' = (unseen \/ uevents # <<>>)
        /\ UNCHANGED <<attached, notified>>
    BY <1>9, Zenon DEF Killed
  <2> QED BY <2>1, Zenon
<1>10. CASE UNCHANGED vars
  BY <1>10, GroupsUnchanged
<1> QED BY <1>1, <1>2, <1>3, <1>4, <1>5, <1>6, <1>7, <1>8, <1>9, <1>10, Zenon DEF Next, Service

LEMMA NextInv == ASSUME Inv, [Next]_vars PROVE Inv'
<1>1. TypeOK'
  <2>1. TypeOK' <=> Flags' /\ Values'
    BY Zenon DEF TypeOK, Flags, Values
  <2> QED BY <2>1, TypeParts, FlagsKept, ValuesKept DEF Inv
<1> QED BY <1>1, TypeParts, SeesPenKept, SeesRateKept, LoweredKept, ChoiceKept, LastEventKept
       DEF Inv

-----------------------------------------------------------------------------
\* For all bounds: a connected pen the service was told of does not run with
\* the unlimited rate once the service is at rest, and once the pen has gone the
\* rate is no longer the one the service chose, unless it was killed in between.
THEOREM RateFollowsPen == Spec => [](TypeOK /\ RateMatchesPen)
<1>1. ASSUME Inv PROVE RateMatchesPen
  <2>1. SeesPen /\ SeesRate /\ LoweredIsRemembered
    BY <1>1 DEF Inv
  <2>2. LimitInForce
    BY <2>1, Zenon DEF LimitInForce, Settled, SeesPen, SeesRate, Lowers
  <2>3. RestoredAfterUse
    <3> SUFFICES ASSUME Settled, ~pen, lowered, ~forgot, ~missed PROVE FALSE
      BY Zenon DEF RestoredAfterUse
    <3>1. isPenConnected = pen /\ peakRefreshRate = rate /\ ~Raises
      BY <2>1, Zenon DEF Settled, SeesPen, SeesRate
    <3>2. ~isPenConnected
      BY <3>1, Zenon
    <3>3. wasPenConnected /\ rate = penSupportedRefreshRate
      BY <2>1, Zenon DEF LoweredIsRemembered
    <3> QED BY <3>1, <3>2, <3>3, Zenon DEF Raises
  <2> QED BY <2>2, <2>3 DEF RateMatchesPen
<1>2. Inv => TypeOK
  BY DEF Inv
<1> QED BY <1>1, <1>2, InitInv, NextInv, PTL DEF Spec

\* For all bounds: the service overwrites a user's own rate only if it was
\* chosen between the service's read of the setting and its write.
THEOREM UserChoiceIsKept == Spec => []UserChoiceKept
<1>1. Inv => UserChoiceKept
  BY DEF Inv
<1> QED BY <1>1, InitInv, NextInv, PTL DEF Spec

\* For all bounds: with no event under way the notification is for a pen that
\* is on the charger, unless the last change of that went unseen.
THEOREM NotificationIsTrue == Spec => []NotificationTrue
<1>1. Inv => NotificationTrue
  BY Zenon DEF Inv, LastEventTrue, NotificationTrue
<1> QED BY <1>1, InitInv, NextInv, PTL DEF Spec

-----------------------------------------------------------------------------
(* Doze *)

Executors == Sensors \X (1 .. created)

DozeTyped ==
    /\ screenOn \in BOOLEAN /\ prefs \in [Prefs -> BOOLEAN] /\ running \in BOOLEAN
    /\ queue \in Seq(Messages)
    /\ checks \in Nat
    /\ created \in Nat /\ alive \in 0 .. created
    /\ exec \in [Executors -> Seq(Tasks)]
    /\ registered \subseteq Executors
    /\ dark \in BOOLEAN /\ hasty \in BOOLEAN
    /\ \A k \in 1 .. Len(queue) : queue[k].to \in 0 .. created

\* What the activity manager has sent takes the service from existing now to
\* running in the end, one creation or destruction after the other.
Turns(q, exists, k) ==
    IF q[k].to = 0 THEN exists[k] = ~exists[k - 1] /\ exists[k] = (q[k].what = "create")
                   ELSE exists[k] = exists[k - 1]

Leads(q, from, to) ==
    \E exists \in [0 .. Len(q) -> BOOLEAN] :
        /\ exists[0] = from /\ exists[Len(q)] = to
        /\ \A k \in 1 .. Len(q) : Turns(q, exists, k)

LifeInv ==
    /\ Leads(queue, alive # 0, running)
    /\ checks = 0 => running = Wanted(prefs)

\* Will the sensor have a listener once its executor has run all its tasks?
Ends(si) == IF exec[si] # <<>> THEN exec[si][Len(exec[si])] = "register" ELSE si \in registered

\* Destroyed instances end without listeners.
DeadInv == \A si \in Executors : si[2] # alive => ~Ends(si)

Broadcasts(k) == k \in 1 .. Len(queue) /\ queue[k].to = alive
LastBroadcast(k) == Broadcasts(k) /\ \A j \in 1 .. Len(queue) : Broadcasts(j) => j <= k

\* The current instance's listeners end as the screen is, once the last
\* broadcast has been received: then that tells how the screen is.
ScreenInv ==
    alive # 0 =>
        /\ \A k \in 1 .. Len(queue) : LastBroadcast(k) => queue[k].what = IF screenOn THEN "screenOn" ELSE "screenOff"
        /\ dark => /\ ~screenOn
                   /\ \A k : ~Broadcasts(k)
                   /\ \A s \in Sensors : ~Ends(<<s, alive>>)
        /\ ~hasty => \A s \in Sensors : ~prefs[s] => ~Ends(<<s, alive>>)
        /\ ~hasty /\ ~dark /\ (\A k : ~Broadcasts(k)) =>
              \A s \in Sensors : prefs[s] => (Ends(<<s, alive>>) <=> ~screenOn)

DozeInv == DozeTyped /\ LifeInv /\ DeadInv /\ ScreenInv

-----------------------------------------------------------------------------
LEMMA MessageParts ==
  ASSUME NEW m \in Messages
  PROVE  /\ m.what \in {"create", "destroy", "screenOn", "screenOff"}
         /\ m.to \in Nat
         /\ m.to = 0 <=> m.what \in {"create", "destroy"}
BY DEF Messages

LEMMA MessagesMade ==
  /\ \A b \in BOOLEAN : [what |-> IF b THEN "create" ELSE "destroy", to |-> 0] \in Messages
  /\ \A b \in BOOLEAN, i \in Nat \ {0} :
        [what |-> IF b THEN "screenOn" ELSE "screenOff", to |-> i] \in Messages
BY DEF Messages

LEMMA QueueAppend ==
  ASSUME NEW q \in Seq(Messages), NEW m \in Messages
  PROVE  /\ Append(q, m) \in Seq(Messages)
         /\ Len(q) \in Nat /\ Len(Append(q, m)) = Len(q) + 1
         /\ \A k \in 1 .. Len(q) : Append(q, m)[k] = q[k]
         /\ Append(q, m)[Len(q) + 1] = m
BY AppendProperties, LenProperties

LEMMA QueueTail ==
  ASSUME NEW q \in Seq(Messages), q # <<>>
  PROVE  /\ Head(q) \in Messages /\ Head(q) = q[1] /\ Tail(q) \in Seq(Messages)
         /\ Len(q) \in Nat \ {0} /\ Len(Tail(q)) = Len(q) - 1
         /\ \A k \in 1 .. Len(q) - 1 : Tail(q)[k] = q[k + 1]
BY HeadTailProperties, EmptySeq

LEMMA LeadsAppend ==
  ASSUME NEW q \in Seq(Messages), NEW m \in Messages, NEW from \in BOOLEAN, NEW to \in BOOLEAN,
         NEW then \in BOOLEAN, Leads(q, from, to),
         IF m.to = 0 THEN then = ~to /\ then = (m.what = "create") ELSE then = to
  PROVE  Leads(Append(q, m), from, then)
<1> DEFINE n == Len(q) + 1
<1>1. /\ Len(q) \in Nat /\ Len(Append(q, m)) = n
      /\ \A k \in 1 .. Len(q) : Append(q, m)[k] = q[k]
      /\ Append(q, m)[n] = m
  BY QueueAppend
<1>2. PICK exists \in [0 .. Len(q) -> BOOLEAN] :
        /\ exists[0] = from /\ exists[Len(q)] = to
        /\ \A k \in 1 .. Len(q) : Turns(q, exists, k)
  BY DEF Leads
<1> DEFINE more == [k \in 0 .. n |-> IF k = n THEN then ELSE exists[k]]
<1>3. more \in [0 .. n -> BOOLEAN] /\ more[0] = from /\ more[n] = then
  BY <1>1, <1>2
<1>4. \A k \in 1 .. n : Turns(Append(q, m), more, k)
  <2> TAKE k \in 1 .. n
  <2>1. CASE k = n
    <3>1. more[k] = then /\ more[k - 1] = to /\ Append(q, m)[k] = m
      BY <1>1, <1>2, <2>1
    <3> QED BY <3>1 DEF Turns
  <2>2. CASE k # n
    <3>1. k \in 1 .. Len(q)
      BY <1>1, <2>2
    <3>2. more[k] = exists[k] /\ more[k - 1] = exists[k - 1] /\ Append(q, m)[k] = q[k]
      BY <1>1, <3>1
    <3> QED BY <1>2, <3>1, <3>2 DEF Turns
  <2> QED BY <2>1, <2>2
<1> HIDE DEF more
<1> QED BY <1>1, <1>3, <1>4 DEF Leads

LEMMA LeadsTail ==
  ASSUME NEW q \in Seq(Messages), q # <<>>, NEW from \in BOOLEAN, NEW to \in BOOLEAN,
         Leads(q, from, to)
  PROVE  IF Head(q).to = 0
           THEN (Head(q).what = "create") = ~from /\ Leads(Tail(q), ~from, to)
           ELSE Leads(Tail(q), from, to)
<1>1. /\ Len(q) \in Nat \ {0} /\ Head(q) = q[1] /\ Len(Tail(q)) = Len(q) - 1
      /\ \A k \in 1 .. Len(q) - 1 : Tail(q)[k] = q[k + 1]
  BY QueueTail
<1>2. PICK exists \in [0 .. Len(q) -> BOOLEAN] :
        /\ exists[0] = from /\ exists[Len(q)] = to
        /\ \A k \in 1 .. Len(q) : Turns(q, exists, k)
  BY DEF Leads
<1> DEFINE less == [k \in 0 .. Len(q) - 1 |-> exists[k + 1]]
<1>3. less \in [0 .. Len(q) - 1 -> BOOLEAN] /\ less[0] = exists[1] /\ less[Len(q) - 1] = to
  BY <1>1, <1>2
<1>4. \A k \in 1 .. Len(q) - 1 : Turns(Tail(q), less, k)
  <2> TAKE k \in 1 .. Len(q) - 1
  <2>1. k + 1 \in 1 .. Len(q) /\ (k + 1) - 1 = k
    BY <1>1
  <2>2. less[k] = exists[k + 1] /\ less[k - 1] = exists[k] /\ Tail(q)[k] = q[k + 1]
    BY <1>1
  <2> QED BY <1>2, <2>1, <2>2 DEF Turns
<1>5. Leads(Tail(q), exists[1], to)
  <2> HIDE DEF less
  <2> QED BY <1>1, <1>3, <1>4 DEF Leads
<1>6. 1 \in 1 .. Len(q) /\ 1 - 1 = 0
  BY <1>1
<1> QED BY <1>1, <1>2, <1>5, <1>6 DEF Turns

LEMMA LeadsNowhere ==
  ASSUME NEW from \in BOOLEAN, NEW to \in BOOLEAN, Leads(<<>>, from, to)
  PROVE  from = to
BY EmptySeq DEF Leads

LEMMA WantedType == ASSUME NEW p \in [Prefs -> BOOLEAN] PROVE Wanted(p) \in BOOLEAN
BY DEF Wanted, Prefs

-----------------------------------------------------------------------------
\* A step after which the queue holds the broadcasts that it held before, where
\* they were, and everything else that ScreenInv speaks of is as it was.
SameBroadcasts ==
    \A k : /\ (k \in 1 .. Len(queue') /\ queue'[k].to # 0) <=> (k \in 1 .. Len(queue) /\ queue[k].to # 0)
           /\ k \in 1 .. Len(queue) => queue'[k] = queue[k]

LEMMA ScreenKept ==
  ASSUME ScreenInv, SameBroadcasts, UNCHANGED <<alive, screenOn, prefs, dark, hasty>>,
         \A s \in Sensors : alive # 0 => Ends(<<s, alive>>)' = Ends(<<s, alive>>)
  PROVE  ScreenInv'
<1> SUFFICES ASSUME alive # 0 PROVE ScreenInv'
  BY DEF ScreenInv
<1>1. \A k : Broadcasts(k)' <=> Broadcasts(k)
  BY DEF Broadcasts, SameBroadcasts
<1>2. \A k : Broadcasts(k) => queue'[k] = queue[k]
  BY DEF Broadcasts, SameBroadcasts
<1>3. \A k : LastBroadcast(k)' => LastBroadcast(k)
  BY <1>1 DEF LastBroadcast, Broadcasts
<1>4. \A k \in 1 .. Len(queue') : LastBroadcast(k)' =>
        queue'[k].what = IF screenOn THEN "screenOn" ELSE "screenOff"
  BY <1>2, <1>3 DEF ScreenInv, LastBroadcast, Broadcasts
<1> QED BY <1>1, <1>4 DEF ScreenInv

\* checkDozeService leads to what the preferences ask for.
LEMMA CheckLeads ==
  ASSUME DozeTyped, LifeInv, NEW p \in [Prefs -> BOOLEAN], checkDozeService(p)
  PROVE  /\ running' = Wanted(p) /\ queue' \in Seq(Messages)
         /\ Leads(queue', alive # 0, running')
         /\ \A k \in 1 .. Len(queue') : queue'[k].to \in 0 .. created
         /\ SameBroadcasts
<1>1. Wanted(p) \in BOOLEAN /\ running' = Wanted(p)
  BY WantedType DEF checkDozeService
<1>2. queue \in Seq(Messages) /\ running \in BOOLEAN /\ created \in Nat
      /\ (\A k \in 1 .. Len(queue) : queue[k].to \in 0 .. created)
      /\ Leads(queue, alive # 0, running)
  BY DEF DozeTyped, LifeInv
<1>3. CASE running = Wanted(p)
  BY <1>1, <1>2, <1>3 DEF checkDozeService, SameBroadcasts
<1>4. CASE running # Wanted(p)
  <2> DEFINE m == [what |-> IF Wanted(p) THEN "create" ELSE "destroy", to |-> 0]
  <2>1. m \in Messages /\ m.to = 0 /\ (m.what = "create") = Wanted(p)
    BY <1>1, MessagesMade
  <2>2. queue' = Append(queue, m)
    BY <1>4 DEF checkDozeService
  <2> HIDE DEF m
  <2>3. /\ queue' \in Seq(Messages) /\ Len(queue) \in Nat /\ Len(queue') = Len(queue) + 1
        /\ \A k \in 1 .. Len(queue) : queue'[k] = queue[k]
        /\ queue'[Len(queue) + 1] = m
    BY <1>2, <2>1, <2>2, QueueAppend
  <2>4. Leads(queue', alive # 0, Wanted(p))
    BY <1>1, <1>2, <1>4, <2>1, <2>2, LeadsAppend
  <2>5. \A k : k \in 1 .. Len(queue') <=> k \in 1 .. Len(queue) \/ k = Len(queue) + 1
    BY <2>3
  <2>6. SameBroadcasts
    BY <2>1, <2>3, <2>5 DEF SameBroadcasts
  <2>7. \A k \in 1 .. Len(queue') : queue'[k].to \in 0 .. created
    BY <1>2, <2>1, <2>3, <2>5
  <2> QED BY <1>1, <2>3, <2>4, <2>6, <2>7
<1> QED BY <1>3, <1>4

\* A task submitted decides what its executor ends with.
LEMMA SubmitEnds ==
  ASSUME DozeTyped, NEW sensors, NEW task \in Tasks, Submit(sensors, task)
  PROVE  /\ exec' \in [Executors -> Seq(Tasks)] /\ UNCHANGED registered
         /\ \A si \in Executors :
               Ends(si)' = IF si[1] \in sensors /\ si[2] = alive THEN task = "register" ELSE Ends(si)
<1>1. exec \in [Executors -> Seq(Tasks)]
      /\ exec' = [si \in Executors |-> IF si[1] \in sensors /\ si[2] = alive
                                       THEN Append(exec[si], task) ELSE exec[si]]
      /\ UNCHANGED registered
  BY DEF DozeTyped, Submit
<1>2. \A si \in Executors : /\ Append(exec[si], task) \in Seq(Tasks)
                            /\ Append(exec[si], task) # <<>>
                            /\ Append(exec[si], task)[Len(Append(exec[si], task))] = task
  <2> TAKE si \in Executors
  <2> DEFINE e == exec[si]
  <2>1. e \in Seq(Tasks)
    BY <1>1
  <2> HIDE DEF e
  <2>2. /\ Append(e, task) \in Seq(Tasks) /\ Append(e, task) # <<>>
        /\ Append(e, task)[Len(Append(e, task))] = task
    BY <2>1, AppendProperties, LenProperties
  <2> QED BY <2>2 DEF e
<1>3. exec' \in [Executors -> Seq(Tasks)]
  BY <1>1, <1>2
<1>4. ASSUME NEW si \in Executors
      PROVE  Ends(si)' = IF si[1] \in sensors /\ si[2] = alive THEN task = "register" ELSE Ends(si)
  <2>1. CASE si[1] \in sensors /\ si[2] = alive
    BY <1>1, <1>2, <2>1 DEF Ends
  <2>2. CASE ~(si[1] \in sensors /\ si[2] = alive)
    BY <1>1, <2>2 DEF Ends
  <2> QED BY <2>1, <2>2
<1> QED BY <1>1, <1>3, <1>4

\* Running a task does not change what the executors end with.
LEMMA RunEnds ==
  ASSUME DozeTyped, NEW si \in Executors, RunTask(si)
  PROVE  /\ exec' \in [Executors -> Seq(Tasks)] /\ registered' \subseteq Executors
         /\ \A sj \in Executors : Ends(sj)' = Ends(sj)
<1> DEFINE e == exec[si]
<1>1. /\ e \in Seq(Tasks) /\ e # <<>> /\ exec' = [exec EXCEPT ![si] = Tail(e)]
      /\ registered' = IF Head(e) = "register" THEN registered \cup {si} ELSE registered \ {si}
      /\ exec \in [Executors -> Seq(Tasks)] /\ registered \subseteq Executors
  BY DEF DozeTyped, RunTask
<1> HIDE DEF e
<1>2. /\ Tail(e) \in Seq(Tasks) /\ Len(e) \in Nat \ {0} /\ Len(Tail(e)) = Len(e) - 1
      /\ \A k \in 1 .. Len(Tail(e)) : Tail(e)[k] = e[k + 1]
      /\ Head(e) = e[1]
  BY <1>1, HeadTailProperties, EmptySeq
<1>3. IF Tail(e) # <<>> THEN Tail(e)[Len(Tail(e))] = e[Len(e)] ELSE Len(e) = 1
  <2>1. CASE Tail(e) # <<>>
    <3>1. Len(Tail(e)) \in Nat \ {0}
      BY <1>2, <2>1, EmptySeq
    <3> QED BY <1>2, <2>1, <3>1
  <2>2. CASE Tail(e) = <<>>
    <3>1. Len(Tail(e)) = 0
      BY <2>2, EmptySeq
    <3>2. Len(e) \in Nat /\ Len(e) - 1 = 0
      BY <1>2, <3>1, Zenon
    <3>3. Len(e) = 1
      BY <3>2
    <3> QED BY <2>2, <3>3
  <2> QED BY <2>1, <2>2
<1>4. Ends(si)' = Ends(si)
  <2>1. exec'[si] = Tail(e) /\ (si \in registered') = (Head(e) = "register")
    BY <1>1
  <2>2. Ends(si) = (e[Len(e)] = "register")
    BY <1>1 DEF Ends, e
  <2> QED BY <1>2, <1>3, <2>1, <2>2 DEF Ends
<1>5. ASSUME NEW sj \in Executors, sj # si PROVE Ends(sj)' = Ends(sj)
  BY <1>1, <1>5 DEF Ends
<1>6. exec' \in [Executors -> Seq(Tasks)] /\ registered' \subseteq Executors
  BY <1>1, <1>2
<1> QED BY <1>4, <1>5, <1>6

-----------------------------------------------------------------------------
LEMMA DozeInitInv == DozeInit => DozeInv
<1> SUFFICES ASSUME DozeInit PROVE DozeInv
  OBVIOUS
<1>1. queue = <<>> /\ Len(queue) = 0 /\ alive = 0 /\ created = 0 /\ checks = 1 /\ running = FALSE
  BY EmptySeq DEF DozeInit
<1>2. Executors = {} /\ exec \in [Executors -> Seq(Tasks)]
  BY <1>1 DEF DozeInit, Executors
<1>3. DozeTyped
  <2>1. <<>> \in Seq(Messages) /\ 1 .. Len(queue) = {}
    BY <1>1, EmptySeq
  <2>2. /\ queue \in Seq(Messages) /\ checks \in Nat
        /\ created \in Nat /\ alive \in 0 .. created
        /\ \A k \in 1 .. Len(queue) : queue[k].to \in 0 .. created
    BY <1>1, <2>1
  <2>3. /\ screenOn \in BOOLEAN /\ prefs \in [Prefs -> BOOLEAN] /\ running \in BOOLEAN
        /\ registered \subseteq Executors /\ dark \in BOOLEAN /\ hasty \in BOOLEAN
    BY DEF DozeInit
  <2> QED BY <1>2, <2>2, <2>3 DEF DozeTyped
<1>4. LifeInv
  <2> DEFINE e == [k \in 0 .. 0 |-> FALSE]
  <2>1. e \in [0 .. Len(queue) -> BOOLEAN] /\ e[0] = FALSE /\ e[Len(queue)] = FALSE
    BY <1>1
  <2>2. \A k \in 1 .. Len(queue) : Turns(queue, e, k)
    BY <1>1
  <2> HIDE DEF e
  <2>3. Leads(queue, FALSE, FALSE)
    BY <2>1, <2>2 DEF Leads
  <2>4. (alive # 0) = FALSE /\ running = FALSE /\ checks # 0
    BY <1>1
  <2> QED BY <2>3, <2>4 DEF LifeInv
<1> QED BY <1>1, <1>2, <1>3, <1>4 DEF DozeInv, DeadInv, ScreenInv

\* The page: a check, and a tap, which posts one more.
LEMMA CheckInv == ASSUME DozeInv, RunPostedCheck PROVE DozeInv'
<1>1. /\ checkDozeService(prefs) /\ checks \in Nat /\ checks' = checks - 1 /\ checks > 0
      /\ UNCHANGED <<screenOn, prefs, alive, created, exec, registered, dark, hasty>>
  BY DEF RunPostedCheck, DozeInv, DozeTyped, service
<1>2. prefs \in [Prefs -> BOOLEAN]
  BY DEF DozeInv, DozeTyped
<1>3. /\ running' = Wanted(prefs) /\ queue' \in Seq(Messages)
      /\ Leads(queue', alive # 0, running')
      /\ \A k \in 1 .. Len(queue') : queue'[k].to \in 0 .. created
      /\ SameBroadcasts
  BY <1>1, <1>2, CheckLeads DEF DozeInv
<1>4. Executors' = Executors /\ \A si : Ends(si)' = Ends(si)
  BY <1>1 DEF Executors, Ends
<1>5. DozeTyped'
  BY <1>1, <1>2, <1>3, <1>4, WantedType DEF DozeInv, DozeTyped
<1>6. LifeInv'
  BY <1>1, <1>3 DEF LifeInv
<1>7. DeadInv'
  BY <1>1, <1>4 DEF DozeInv, DeadInv
<1>8. ScreenInv'
  BY <1>1, <1>3, <1>4, ScreenKept DEF DozeInv
<1> QED BY <1>5, <1>6, <1>7, <1>8 DEF DozeInv

\* With no broadcast on its way the listeners are off while the page is there,
\* so that a changed preference finds them off.
LEMMA TapInv ==
  ASSUME DozeInv, Tap, PostCheck, prefs' \in [Prefs -> BOOLEAN],
         UNCHANGED am \/ \E p \in [Prefs -> BOOLEAN] : checkDozeService(p)
  PROVE  DozeInv'
<1>1. /\ screenOn = TRUE /\ checks' = checks + 1 /\ checks \in Nat
      /\ hasty' = (hasty \/ \E k \in 1 .. Len(queue) : queue[k].to # 0)
      /\ UNCHANGED <<screenOn, alive, created, exec, registered, dark>>
      /\ created \in Nat /\ alive \in 0 .. created
  BY DEF Tap, PostCheck, service, DozeInv, DozeTyped
<1>2. /\ running' \in BOOLEAN /\ queue' \in Seq(Messages)
      /\ Leads(queue', alive # 0, running')
      /\ \A k \in 1 .. Len(queue') : queue'[k].to \in 0 .. created
      /\ SameBroadcasts
  <2>1. CASE UNCHANGED am
    BY <2>1 DEF am, DozeInv, DozeTyped, LifeInv, SameBroadcasts
  <2>2. CASE \E p \in [Prefs -> BOOLEAN] : checkDozeService(p)
    BY <2>2, CheckLeads, WantedType DEF DozeInv
  <2> QED BY <2>1, <2>2
<1>3. Executors' = Executors /\ \A si : Ends(si)' = Ends(si)
  BY <1>1 DEF Executors, Ends
<1>4. DozeTyped'
  BY <1>1, <1>2, <1>3 DEF DozeInv, DozeTyped
<1>5. LifeInv'
  BY <1>1, <1>2 DEF LifeInv
<1>6. DeadInv'
  BY <1>1, <1>3 DEF DozeInv, DeadInv
<1>7. ScreenInv'
  <2> SUFFICES ASSUME alive # 0 PROVE ScreenInv'
    BY <1>1 DEF ScreenInv
  <2>1. \A k : Broadcasts(k)' <=> Broadcasts(k)
    BY <1>1, <1>2 DEF Broadcasts, SameBroadcasts
  <2>2. \A k : Broadcasts(k) => queue'[k] = queue[k]
    BY <1>2 DEF Broadcasts, SameBroadcasts
  <2>3. \A k : LastBroadcast(k)' => LastBroadcast(k)
    BY <2>1 DEF LastBroadcast, Broadcasts
  <2>4. \A k \in 1 .. Len(queue') : LastBroadcast(k)' =>
          queue'[k].what = IF screenOn THEN "screenOn" ELSE "screenOff"
    BY <2>2, <2>3 DEF DozeInv, ScreenInv, LastBroadcast, Broadcasts
  <2>5. ~dark
    BY <1>1 DEF DozeInv, ScreenInv
  <2>6. ~hasty' => ~hasty /\ \A k : ~Broadcasts(k)
    BY <1>1 DEF Broadcasts
  <2>7. ~hasty' => \A s \in Sensors : ~Ends(<<s, alive>>)
    BY <1>1, <2>5, <2>6 DEF DozeInv, ScreenInv
  <2> QED BY <1>1, <1>3, <2>4, <2>5, <2>7 DEF ScreenInv
<1> QED BY <1>4, <1>5, <1>6, <1>7 DEF DozeInv

-----------------------------------------------------------------------------
\* What taking a message from the queue does to the rest of it.
LEMMA Received ==
  ASSUME DozeTyped, LifeInv, NEW message, Receive(message)
  PROVE  /\ queue # <<>> /\ queue[1] = Head(queue) /\ Head(queue).what = message
         /\ Head(queue) \in Messages /\ Head(queue).to \in 0 .. created
         /\ queue' \in Seq(Messages) /\ Len(queue) \in Nat \ {0} /\ Len(queue') = Len(queue) - 1
         /\ \A k \in 1 .. Len(queue') : k + 1 \in 1 .. Len(queue) /\ queue'[k] = queue[k + 1]
         /\ \A k \in 1 .. Len(queue) : k = 1 \/ k - 1 \in 1 .. Len(queue')
         /\ \A k \in 1 .. Len(queue') : queue'[k].to \in 0 .. created
         /\ IF Head(queue).to = 0
              THEN (message = "create") = (alive = 0) /\ Leads(queue', alive = 0, running)
              ELSE Leads(queue', alive # 0, running)
         /\ UNCHANGED <<screenOn, prefs, running, checks, hasty>>
<1>1. /\ queue \in Seq(Messages) /\ queue # <<>> /\ queue' = Tail(queue)
      /\ Head(queue).what = message /\ Leads(queue, alive # 0, running)
      /\ running \in BOOLEAN /\ \A k \in 1 .. Len(queue) : queue[k].to \in 0 .. created
      /\ UNCHANGED <<screenOn, prefs, running, checks, hasty>>
  BY DEF DozeTyped, LifeInv, Receive
<1>2. /\ queue[1] = Head(queue) /\ Head(queue) \in Messages
      /\ queue' \in Seq(Messages) /\ Len(queue) \in Nat \ {0} /\ Len(queue') = Len(queue) - 1
      /\ \A k \in 1 .. Len(queue) - 1 : queue'[k] = queue[k + 1]
  BY <1>1, QueueTail
<1>3. /\ 1 \in 1 .. Len(queue)
      /\ \A k \in 1 .. Len(queue') : k + 1 \in 1 .. Len(queue)
      /\ \A k \in 1 .. Len(queue) : k = 1 \/ k - 1 \in 1 .. Len(queue')
  BY <1>2
<1>4. (~(alive # 0)) = (alive = 0)
  OBVIOUS
<1>5. IF Head(queue).to = 0
        THEN (message = "create") = (alive = 0) /\ Leads(queue', alive = 0, running)
        ELSE Leads(queue', alive # 0, running)
  BY <1>1, <1>4, LeadsTail
<1> QED BY <1>1, <1>2, <1>3, <1>5

LEMMA CreateInv == ASSUME DozeInv, onCreate PROVE DozeInv'
<1>1. /\ Head(queue) \in Messages /\ Head(queue).what = "create"
      /\ queue' \in Seq(Messages)
      /\ \A k \in 1 .. Len(queue') : queue'[k].to \in 0 .. created
      /\ IF Head(queue).to = 0
           THEN ("create" = "create") = (alive = 0) /\ Leads(queue', alive = 0, running)
           ELSE Leads(queue', alive # 0, running)
      /\ UNCHANGED <<screenOn, prefs, running, checks, hasty>>
  BY Received DEF DozeInv, onCreate
<1>2. Head(queue).to = 0 /\ alive = 0 /\ Leads(queue', TRUE, running)
  <2>1. Head(queue).to = 0
    BY <1>1, MessageParts
  <2> QED BY <1>1, <2>1
<1>3. /\ created \in Nat /\ created' = created + 1 /\ alive' = created + 1 /\ dark' = ~screenOn
      /\ exec \in [Executors -> Seq(Tasks)]
      /\ exec' = [si \in Executors' |-> IF si[2] = created + 1 THEN <<>> ELSE exec[si]]
      /\ registered \subseteq Executors /\ UNCHANGED registered
  BY DEF DozeInv, DozeTyped, onCreate, Executors
<1>4. /\ Executors \subseteq Executors'
      /\ \A si \in Executors' : si[2] # created + 1 => si \in Executors
      /\ \A si \in Executors : si[2] # created + 1
  BY <1>3 DEF Executors
<1>5. exec' \in [Executors' -> Seq(Tasks)]
  BY <1>3, <1>4, EmptySeq
<1>6. \A si \in Executors : Ends(si)' = Ends(si)
  BY <1>3, <1>4 DEF Ends
<1>7. \A si \in Executors' : si[2] = created + 1 => ~Ends(si)'
  BY <1>3, <1>4 DEF Ends
<1>8. DozeTyped'
  <2>1. alive' \in 0 .. created' /\ created' \in Nat /\ 0 .. created \subseteq 0 .. created'
    BY <1>3
  <2>2. registered' \subseteq Executors' /\ dark' \in BOOLEAN
    BY <1>3, <1>4
  <2> QED BY <1>1, <1>5, <2>1, <2>2 DEF DozeInv, DozeTyped
<1>9. LifeInv'
  BY <1>1, <1>2, <1>3 DEF DozeInv, LifeInv
<1>10. DeadInv'
  BY <1>2, <1>3, <1>4, <1>6 DEF DozeInv, DeadInv, Executors
<1>11. ScreenInv'
  <2>1. \A s \in Sensors : <<s, alive'>> \in Executors'
    BY <1>3 DEF Executors
  <2>2. \A s \in Sensors : ~Ends(<<s, alive>>)'
    BY <1>3, <1>7, <2>1
  <2>3. \A k : ~Broadcasts(k)'
    BY <1>1, <1>3 DEF Broadcasts
  <2>4. screenOn' \in BOOLEAN /\ dark' = ~screenOn'
    BY <1>1, <1>3 DEF DozeInv, DozeTyped
  <2> QED BY <2>2, <2>3, <2>4 DEF ScreenInv, LastBroadcast
<1> QED BY <1>8, <1>9, <1>10, <1>11 DEF DozeInv

LEMMA DestroyInv == ASSUME DozeInv, onDestroy PROVE DozeInv'
<1>1. /\ Head(queue) \in Messages /\ Head(queue).what = "destroy"
      /\ queue' \in Seq(Messages)
      /\ \A k \in 1 .. Len(queue') : queue'[k].to \in 0 .. created
      /\ IF Head(queue).to = 0
           THEN ("destroy" = "create") = (alive = 0) /\ Leads(queue', alive = 0, running)
           ELSE Leads(queue', alive # 0, running)
      /\ UNCHANGED <<screenOn, prefs, running, checks, hasty>>
  BY Received DEF DozeInv, onDestroy
<1>2. alive # 0 /\ Leads(queue', FALSE, running)
  <2>1. Head(queue).to = 0
    BY <1>1, MessageParts
  <2> QED BY <1>1, <2>1
<1>3. /\ Submit(Sensors, "unregister") /\ alive' = 0 /\ UNCHANGED <<created, dark>>
      /\ created \in Nat /\ Executors' = Executors
  BY DEF onDestroy, DisableAll, DozeInv, DozeTyped, Executors
<1>4. /\ exec' \in [Executors -> Seq(Tasks)] /\ UNCHANGED registered
      /\ \A si \in Executors :
            Ends(si)' = IF si[1] \in Sensors /\ si[2] = alive THEN FALSE ELSE Ends(si)
  <2>1. "unregister" \in Tasks /\ ("unregister" = "register") = FALSE
    BY DEF Tasks
  <2> QED BY <1>3, <2>1, SubmitEnds DEF DozeInv
<1>5. DozeTyped'
  BY <1>1, <1>3, <1>4 DEF DozeInv, DozeTyped
<1>6. LifeInv'
  BY <1>1, <1>2, <1>3 DEF DozeInv, LifeInv
<1>7. DeadInv'
  <2>1. \A si \in Executors : si[1] \in Sensors
    BY DEF Executors
  <2> QED BY <1>3, <1>4, <2>1 DEF DozeInv, DeadInv
<1>8. ScreenInv'
  BY <1>3 DEF ScreenInv
<1> QED BY <1>5, <1>6, <1>7, <1>8 DEF DozeInv

LEMMA DisplayInv ==
  ASSUME DozeInv, NEW message \in {"screenOn", "screenOff"}, NEW task \in Tasks,
         task = "register" <=> message = "screenOff", onDisplay(message, task)
  PROVE  DozeInv'
<1>1. /\ queue[1] = Head(queue) /\ Head(queue).what = message
      /\ Head(queue) \in Messages /\ Head(queue).to \in 0 .. created
      /\ queue' \in Seq(Messages) /\ Len(queue) \in Nat \ {0} /\ Len(queue') = Len(queue) - 1
      /\ \A k \in 1 .. Len(queue') : k + 1 \in 1 .. Len(queue) /\ queue'[k] = queue[k + 1]
      /\ \A k \in 1 .. Len(queue) : k = 1 \/ k - 1 \in 1 .. Len(queue')
      /\ \A k \in 1 .. Len(queue') : queue'[k].to \in 0 .. created
      /\ IF Head(queue).to = 0
           THEN (message = "create") = (alive = 0) /\ Leads(queue', alive = 0, running)
           ELSE Leads(queue', alive # 0, running)
      /\ UNCHANGED <<screenOn, prefs, running, checks, hasty>>
  <2>1. Receive(message)
    BY DEF onDisplay
  <2> QED BY <2>1, Received DEF DozeInv
<1>2. Head(queue).to # 0 /\ Leads(queue', alive # 0, running)
  <2>1. Head(queue).to # 0
    BY <1>1, MessageParts
  <2> QED BY <1>1, <2>1
<1>3. /\ UNCHANGED <<alive, created, dark>> /\ Executors' = Executors
      /\ IF Head(queue).to = alive THEN Submit(Enabled, task) ELSE UNCHANGED <<exec, registered>>
  BY DEF onDisplay, Executors
<1>4. /\ exec' \in [Executors -> Seq(Tasks)] /\ UNCHANGED registered
      /\ \A si \in Executors :
           Ends(si)' <=> IF Head(queue).to = alive /\ si[1] \in Enabled /\ si[2] = alive
                           THEN task = "register" ELSE Ends(si)
  <2>1. CASE Head(queue).to = alive
    BY <1>3, <2>1, SubmitEnds DEF DozeInv
  <2>2. CASE Head(queue).to # alive
    BY <1>3, <2>2 DEF DozeInv, DozeTyped, Ends
  <2> QED BY <2>1, <2>2
<1>5. DozeTyped'
  BY <1>1, <1>3, <1>4 DEF DozeInv, DozeTyped
<1>6. LifeInv'
  BY <1>1, <1>2, <1>3 DEF DozeInv, LifeInv
<1>7. DeadInv'
  BY <1>3, <1>4 DEF DozeInv, DeadInv
<1>8. ScreenInv'
  <2> SUFFICES ASSUME alive # 0 PROVE ScreenInv'
    BY <1>3 DEF ScreenInv
  <2>1. /\ created \in Nat /\ alive \in 1 .. created
        /\ \A s \in Sensors : <<s, alive>> \in Executors
    BY DEF DozeInv, DozeTyped, Executors
  <2>2. \A k \in Int : Broadcasts(k)' <=> k # 0 /\ Broadcasts(k + 1)
    <3> TAKE k \in Int
    <3>1. k \in 1 .. Len(queue') <=> k # 0 /\ k + 1 \in 1 .. Len(queue)
      BY <1>1
    <3> QED BY <1>1, <1>3, <3>1 DEF Broadcasts
  <2>3. Broadcasts(1) <=> Head(queue).to = alive
    BY <1>1 DEF Broadcasts
  <2>4. \A k \in 1 .. Len(queue') : LastBroadcast(k)' => LastBroadcast(k + 1)
    <3> SUFFICES ASSUME NEW k \in 1 .. Len(queue'), LastBroadcast(k)' PROVE LastBroadcast(k + 1)
      OBVIOUS
    <3>1. Broadcasts(k + 1)
      BY <1>1, <2>2 DEF LastBroadcast
    <3>2. ASSUME NEW j \in 1 .. Len(queue), Broadcasts(j) PROVE j <= k + 1
      <4>1. CASE j = 1
        BY <1>1, <4>1
      <4>2. CASE j # 1
        <5>1. j - 1 \in 1 .. Len(queue') /\ j - 1 \in Int /\ j - 1 # 0 /\ (j - 1) + 1 = j
          BY <1>1, <4>2
        <5>2. Broadcasts(j - 1)'
          BY <2>2, <3>2, <5>1
        <5>3. j - 1 <= k
          BY <5>1, <5>2 DEF LastBroadcast
        <5> QED BY <1>1, <5>1, <5>3
      <4> QED BY <4>1, <4>2
    <3> QED BY <3>1, <3>2 DEF LastBroadcast
  <2>5. \A k \in 1 .. Len(queue') : LastBroadcast(k)' =>
          queue'[k].what = IF screenOn THEN "screenOn" ELSE "screenOff"
    BY <1>1, <2>4 DEF DozeInv, ScreenInv
  <2>6. CASE Head(queue).to # alive
    <3>1. \A s \in Sensors : Ends(<<s, alive>>)' <=> Ends(<<s, alive>>)
      BY <1>3, <1>4, <2>1, <2>6
    <3>2. (\A k : ~Broadcasts(k)') => \A k : ~Broadcasts(k)
      <4> SUFFICES ASSUME NEW k, Broadcasts(k) PROVE \E j : Broadcasts(j)'
        OBVIOUS
      <4>1. k \in 1 .. Len(queue) /\ k # 1
        BY <2>3, <2>6 DEF Broadcasts
      <4>2. k - 1 \in Int /\ k - 1 # 0 /\ (k - 1) + 1 = k
        BY <1>1, <4>1
      <4> QED BY <2>2, <4>2
    <3>3. (\A k : ~Broadcasts(k)) => \A k : ~Broadcasts(k)'
      <4> SUFFICES ASSUME NEW k, Broadcasts(k)' PROVE \E j : Broadcasts(j)
        OBVIOUS
      <4>1. k \in Int
        BY <1>1 DEF Broadcasts
      <4> QED BY <2>2, <4>1
    <3> QED BY <1>1, <1>3, <2>5, <3>1, <3>2, <3>3 DEF DozeInv, ScreenInv
  <2>7. CASE Head(queue).to = alive
    <3>1. Broadcasts(1) /\ ~dark
      BY <2>3, <2>7 DEF DozeInv, ScreenInv
    <3>2. \A s \in Sensors : Ends(<<s, alive>>)' <=>
            IF prefs[s] THEN task = "register" ELSE Ends(<<s, alive>>)
      BY <1>3, <1>4, <2>1, <2>7 DEF Enabled
    <3>3. (\A k : ~Broadcasts(k)') => (task = "register" <=> ~screenOn)
      <4> SUFFICES ASSUME \A k : ~Broadcasts(k)' PROVE task = "register" <=> ~screenOn
        OBVIOUS
      <4>1. ASSUME NEW j \in 1 .. Len(queue), Broadcasts(j) PROVE j <= 1
        <5>1. j - 1 \in Int /\ (j - 1) + 1 = j
          BY <1>1
        <5>2. j - 1 = 0
          BY <2>2, <4>1, <5>1
        <5> QED BY <1>1, <5>2
      <4>2. LastBroadcast(1) /\ 1 \in 1 .. Len(queue)
        BY <1>1, <3>1, <4>1 DEF LastBroadcast
      <4>3. message = IF screenOn THEN "screenOn" ELSE "screenOff"
        BY <1>1, <4>2 DEF DozeInv, ScreenInv
      <4> QED BY <4>3
    <3> QED BY <1>1, <1>3, <2>5, <3>1, <3>2, <3>3 DEF DozeInv, ScreenInv
  <2> QED BY <2>6, <2>7
<1> QED BY <1>5, <1>6, <1>7, <1>8 DEF DozeInv

-----------------------------------------------------------------------------
LEMMA RunInv == ASSUME DozeInv, NEW si \in Executors, RunTask(si) PROVE DozeInv'
<1>1. /\ UNCHANGED <<screenOn, prefs, running, queue, checks, alive, created, dark, hasty>>
      /\ Executors' = Executors
  BY DEF RunTask, am, Executors
<1>2. /\ exec' \in [Executors -> Seq(Tasks)] /\ registered' \subseteq Executors
      /\ \A sj \in Executors : Ends(sj)' = Ends(sj)
  BY RunEnds DEF DozeInv
<1>3. DozeTyped'
  BY <1>1, <1>2 DEF DozeInv, DozeTyped
<1>4. LifeInv' /\ DeadInv'
  BY <1>1, <1>2 DEF DozeInv, LifeInv, DeadInv
<1>5. SameBroadcasts
  BY <1>1 DEF SameBroadcasts
<1>6. \A s \in Sensors : alive # 0 => <<s, alive>> \in Executors
  BY DEF DozeInv, DozeTyped, Executors
<1>7. ScreenInv'
  BY <1>1, <1>2, <1>5, <1>6, ScreenKept DEF DozeInv
<1> QED BY <1>3, <1>4, <1>7 DEF DozeInv

\* The broadcast about the screen is the last one, and says how it is.
LEMMA SwitchInv == ASSUME DozeInv, SwitchScreen PROVE DozeInv'
<1>1. /\ screenOn' = ~screenOn /\ screenOn \in BOOLEAN /\ queue \in Seq(Messages)
      /\ dark' = (dark /\ alive = 0) /\ dark \in BOOLEAN
      /\ UNCHANGED <<prefs, running, checks, alive, created, exec, registered, hasty>>
      /\ created \in Nat /\ alive \in 0 .. created
      /\ Leads(queue, alive # 0, running) /\ running \in BOOLEAN
      /\ \A k \in 1 .. Len(queue) : queue[k].to \in 0 .. created
  BY DEF DozeInv, DozeTyped, LifeInv, SwitchScreen
<1>2. Executors' = Executors /\ \A si : Ends(si)' = Ends(si)
  BY <1>1 DEF Executors, Ends
<1>3. DeadInv'
  BY <1>1, <1>2 DEF DozeInv, DeadInv
<1>4. CASE alive = 0
  <2>1. queue' = queue
    BY <1>4 DEF SwitchScreen
  <2>2. DozeTyped'
    BY <1>1, <1>2, <2>1 DEF DozeInv, DozeTyped
  <2>3. LifeInv'
    BY <1>1, <2>1 DEF DozeInv, LifeInv
  <2>4. ScreenInv'
    BY <1>1, <1>4 DEF ScreenInv
  <2> QED BY <1>3, <2>2, <2>3, <2>4 DEF DozeInv
<1>5. CASE alive # 0
  <2> DEFINE m == [what |-> IF screenOn' THEN "screenOn" ELSE "screenOff", to |-> alive]
  <2>0. PICK n \in Nat : n = Len(queue) + 1
    BY <1>1, LenProperties
  <2>1. queue' = Append(queue, m)
    BY <1>5 DEF SwitchScreen
  <2>2. m \in Messages /\ m.to = alive /\ m.what = IF screenOn' THEN "screenOn" ELSE "screenOff"
    <3>1. screenOn' \in BOOLEAN /\ alive \in Nat \ {0}
      BY <1>1, <1>5
    <3> QED BY <3>1, MessagesMade
  <2> HIDE DEF m
  <2>3. /\ queue' \in Seq(Messages) /\ Len(queue) \in Nat /\ Len(queue') = n
        /\ \A k \in 1 .. Len(queue) : queue'[k] = queue[k]
        /\ queue'[n] = m
    BY <1>1, <2>0, <2>1, <2>2, QueueAppend
  <2>4. \A k \in 1 .. Len(queue') : k \in 1 .. Len(queue) \/ k = n
    BY <2>0, <2>3
  <2>5. DozeTyped'
    <3>1. \A k \in 1 .. Len(queue') : queue'[k].to \in 0 .. created'
      BY <1>1, <2>2, <2>3, <2>4
    <3> QED BY <1>1, <1>2, <2>3, <3>1 DEF DozeInv, DozeTyped
  <2>6. Leads(queue', alive # 0, running)
    <3>1. (alive # 0) \in BOOLEAN
      OBVIOUS
    <3> QED BY <1>1, <1>5, <2>1, <2>2, <3>1, LeadsAppend
  <2>7. LifeInv'
    BY <1>1, <2>6 DEF DozeInv, LifeInv
  <2>8. n \in 1 .. Len(queue') /\ queue'[n].to = alive'
    BY <1>1, <2>0, <2>2, <2>3
  <2>9. Broadcasts(n)'
    BY <2>8 DEF Broadcasts
  <2>11. \A k \in 1 .. Len(queue') : LastBroadcast(k)' => k = n
    <3> SUFFICES ASSUME NEW k \in 1 .. Len(queue'), LastBroadcast(k)' PROVE k = n
      OBVIOUS
    <3>1. n <= k
      BY <2>8, <2>9 DEF LastBroadcast
    <3>2. k <= n
      BY <2>3
    <3> QED BY <2>8, <3>1, <3>2
  <2>10. ScreenInv'
    <3>1. ~dark'
      BY <1>1, <1>5
    <3>2. \A k \in 1 .. Len(queue') : LastBroadcast(k)' =>
            queue'[k].what = IF screenOn' THEN "screenOn" ELSE "screenOff"
      BY <2>2, <2>3, <2>11
    <3>3. ~hasty' => \A s \in Sensors : ~prefs'[s] => ~Ends(<<s, alive>>)'
      BY <1>1, <1>2, <1>5 DEF DozeInv, ScreenInv
    <3> QED BY <2>9, <3>1, <3>2, <3>3 DEF ScreenInv
  <2> QED BY <1>3, <2>5, <2>7, <2>10 DEF DozeInv
<1> QED BY <1>4, <1>5

LEMMA KillInv == ASSUME DozeInv, Kill PROVE DozeInv'
<1>1. /\ queue' = IF running THEN <<[what |-> "create", to |-> 0]>> ELSE <<>>
      /\ alive' = 0 /\ exec' = [si \in Executors |-> <<>>] /\ registered' = {}
      /\ UNCHANGED <<screenOn, prefs, running, checks, created, dark, hasty>>
      /\ created \in Nat /\ Executors' = Executors /\ running \in BOOLEAN
  BY DEF DozeInv, DozeTyped, Kill, Executors
<1>2. <<>> \in Seq(Messages) /\ Len(<<>>) = 0 /\ Leads(<<>>, FALSE, FALSE)
  <2>1. <<>> \in Seq(Messages) /\ Len(<<>>) = 0
    BY EmptySeq
  <2> DEFINE e == [k \in 0 .. 0 |-> FALSE]
  <2>2. /\ e \in [0 .. Len(<<>>) -> BOOLEAN] /\ e[0] = FALSE /\ e[Len(<<>>)] = FALSE
        /\ \A k \in 1 .. Len(<<>>) : Turns(<<>>, e, k)
    BY <2>1
  <2> HIDE DEF e
  <2> QED BY <2>1, <2>2 DEF Leads
<1>5. DeadInv' /\ ScreenInv'
  <2>1. \A si \in Executors : ~Ends(si)'
    BY <1>1 DEF Ends
  <2> QED BY <1>1, <2>1 DEF DeadInv, ScreenInv
<1>6. ((alive # 0) = FALSE)'
  BY <1>1
<1>7. [si \in Executors |-> <<>>] \in [Executors -> Seq(Tasks)] /\ {} \subseteq Executors
  BY EmptySeq
<1>3. CASE running = TRUE
  <2> DEFINE m == [what |-> IF running THEN "create" ELSE "destroy", to |-> 0]
  <2>1. m \in Messages /\ m.to = 0 /\ m.what = "create"
    BY <1>1, <1>3, MessagesMade
  <2>2. queue' = <<m>>
    BY <1>1, <1>3
  <2> HIDE DEF m
  <2>3. queue' = Append(<<>>, m)
    BY <2>2
  <2>4. /\ queue' \in Seq(Messages) /\ Len(queue') = 1 /\ queue'[1] = m
    BY <1>2, <2>1, <2>3, QueueAppend
  <2>5. Leads(queue', FALSE, TRUE)
    BY <1>2, <2>1, <2>3, LeadsAppend
  <2>6. LifeInv'
    BY <1>1, <1>3, <2>5, <1>6 DEF DozeInv, LifeInv
  <2>7. DozeTyped'
    <3>1. \A k \in 1 .. Len(queue') : queue'[k].to \in 0 .. created'
      BY <1>1, <2>1, <2>4
    <3> QED BY <1>1, <1>2, <1>7, <2>4, <3>1 DEF DozeInv, DozeTyped
  <2> QED BY <1>5, <2>6, <2>7 DEF DozeInv
<1>4. CASE running = FALSE
  <2>1. queue' = <<>>
    BY <1>1, <1>4
  <2>2. LifeInv'
    BY <1>1, <1>2, <1>4, <1>6, <2>1 DEF DozeInv, LifeInv
  <2>3. DozeTyped'
    BY <1>1, <1>2, <1>7, <2>1 DEF DozeInv, DozeTyped
  <2> QED BY <1>5, <2>2, <2>3 DEF DozeInv
<1> QED BY <1>1, <1>3, <1>4

LEMMA DozeNextInv == ASSUME DozeInv, [DozeNext]_dozeVars PROVE DozeInv'
<1>0. prefs \in [Prefs -> BOOLEAN] /\ DOMAIN exec = Executors
  BY DEF DozeInv, DozeTyped
<1>1. CASE RunPostedCheck
  BY <1>1, CheckInv
<1>2. CASE TapDoze
  <2>1. prefs' \in [Prefs -> BOOLEAN] /\ [prefs EXCEPT !["doze"] = ~@] \in [Prefs -> BOOLEAN]
    BY <1>0, <1>2 DEF TapDoze, Prefs
  <2> QED BY <1>2, <2>1, TapInv DEF TapDoze
<1>3. CASE \E k \in Prefs \ {"doze"} : TapOther(k)
  <2>1. prefs' \in [Prefs -> BOOLEAN]
    BY <1>0, <1>3 DEF TapOther
  <2> QED BY <1>3, <2>1, TapInv DEF TapOther
<1>4. CASE onCreate
  BY <1>4, CreateInv
<1>5. CASE onDestroy
  BY <1>5, DestroyInv
<1>6. CASE onDisplayOn \/ onDisplayOff
  <2>1. "register" \in Tasks /\ "unregister" \in Tasks
    BY DEF Tasks
  <2> QED BY <1>6, <2>1, DisplayInv DEF onDisplayOn, onDisplayOff
<1>7. CASE \E si \in DOMAIN exec : RunTask(si)
  BY <1>0, <1>7, RunInv
<1>8. CASE SwitchScreen
  BY <1>8, SwitchInv
<1>9. CASE Kill
  BY <1>9, KillInv
<1>10. CASE UNCHANGED dozeVars
  <2>1. UNCHANGED <<screenOn, prefs, running, queue, checks, alive, created, exec, registered, dark, hasty>>
    BY <1>10 DEF dozeVars, am, service
  <2>2. Executors' = Executors /\ \A si : Ends(si)' = Ends(si)
    BY <2>1 DEF Executors, Ends
  <2>3. DozeTyped' /\ LifeInv' /\ DeadInv'
    BY <2>1, <2>2 DEF DozeInv, DozeTyped, LifeInv, DeadInv
  <2>4. ScreenInv'
    BY <2>1, <2>2, ScreenKept DEF DozeInv, SameBroadcasts
  <2> QED BY <2>3, <2>4 DEF DozeInv
<1> QED BY <1>1, <1>2, <1>3, <1>4, <1>5, <1>6, <1>7, <1>8, <1>9, <1>10 DEF DozeNext

-----------------------------------------------------------------------------
LEMMA DozeSafe == DozeSpec => []DozeInv
BY DozeInitInv, DozeNextInv, PTL DEF DozeSpec

\* There is one instance at a time, the last one created, and tasks and
\* listeners belong to instances that were created.
THEOREM DozeTypeCorrect == DozeSpec => []DozeTypeOK
<1> DEFINE Bounded ==
             /\ checks \in 0 .. taps + 1 /\ alive \in {0, created}
             /\ taps \in 0 .. MaxTaps /\ screens \in 0 .. MaxScreens /\ deaths \in 0 .. MaxDeaths
<1>1. DozeInit => Bounded
  BY DozeAssumption DEF DozeInit
<1>2. Bounded /\ [DozeNext]_dozeVars => Bounded'
  <2> SUFFICES ASSUME Bounded, [DozeNext]_dozeVars PROVE Bounded'
    OBVIOUS
  <2>1. CASE UNCHANGED dozeVars
    BY <2>1 DEF dozeVars, service, counts
  <2>2. CASE RunPostedCheck
    BY <2>2 DEF RunPostedCheck, service, counts
  <2>3. CASE TapDoze \/ \E k \in Prefs \ {"doze"} : TapOther(k)
    <3>1. Tap /\ PostCheck
      BY <2>3 DEF TapDoze, TapOther
    <3> QED BY <3>1, DozeAssumption DEF Tap, PostCheck, service
  <2>4. CASE onCreate
    BY <2>4 DEF onCreate, Receive, counts
  <2>5. CASE onDestroy
    BY <2>5 DEF onDestroy, Receive, counts
  <2>6. CASE onDisplayOn \/ onDisplayOff
    BY <2>6 DEF onDisplayOn, onDisplayOff, onDisplay, Receive, counts
  <2>7. CASE \E si \in DOMAIN exec : RunTask(si)
    BY <2>7 DEF RunTask, counts
  <2>8. CASE SwitchScreen
    BY <2>8, DozeAssumption DEF SwitchScreen
  <2>9. CASE Kill
    BY <2>9, DozeAssumption DEF Kill
  <2> QED BY <2>1, <2>2, <2>3, <2>4, <2>5, <2>6, <2>7, <2>8, <2>9 DEF DozeNext
<1>3. DozeInv /\ Bounded => DozeTypeOK
  BY DEF DozeInv, DozeTyped, DozeTypeOK, Executors
<1> HIDE DEF Bounded
<1> QED BY <1>1, <1>2, <1>3, DozeSafe, PTL DEF DozeSpec

\* Utils.checkDozeService: in the end DozeService runs exactly if the settings
\* ask for it, in whatever order checks, creations and kills come.
THEOREM ServiceFollowsPrefs == DozeSpec => []ServiceMatchesPrefs
<1>1. DozeInv => ServiceMatchesPrefs
  <2> SUFFICES ASSUME DozeInv, Quiet PROVE (alive # 0) = Wanted(prefs)
    BY DEF ServiceMatchesPrefs
  <2>1. Leads(<<>>, alive # 0, running) /\ running = Wanted(prefs) /\ running \in BOOLEAN
    BY DEF DozeInv, DozeTyped, LifeInv, Quiet
  <2>2. (alive # 0) \in BOOLEAN
    OBVIOUS
  <2> QED BY <2>1, <2>2, LeadsNowhere
<1> QED BY <1>1, DozeSafe, PTL

\* A destroyed instance's listeners go when its executors have run dry.
THEOREM ListenersGo == DozeSpec => []NoListenerLeft
<1>1. DozeInv => NoListenerLeft
  BY DEF DozeInv, DozeTyped, DeadInv, Ends, NoListenerLeft, Quiet, Executors
<1> QED BY <1>1, DozeSafe, PTL

\* The sensors that listen are those of the enabled gestures, while the screen
\* is off.
THEOREM ListenersFollowScreen == DozeSpec => []ListenersMatchScreen
<1>1. DozeInv => ListenersMatchScreen
  <2> SUFFICES ASSUME DozeInv, Quiet, ~dark, ~hasty
               PROVE  registered = IF screenOn \/ alive = 0 THEN {} ELSE Enabled \X {alive}
    BY DEF ListenersMatchScreen
  <2>1. /\ registered \subseteq Executors /\ created \in Nat /\ alive \in 0 .. created
        /\ \A si \in Executors : Ends(si) <=> si \in registered
        /\ \A k : ~Broadcasts(k)
    BY EmptySeq DEF DozeInv, DozeTyped, Ends, Quiet, Broadcasts
  <2>2. \A si \in registered : si \in Sensors \X {alive} /\ alive # 0
    BY <2>1 DEF DozeInv, DeadInv, Executors
  <2>3. CASE alive = 0
    BY <2>2, <2>3
  <2>4. CASE alive # 0
    <3>1. \A s \in Sensors : <<s, alive>> \in Executors
      BY <2>1, <2>4 DEF Executors
    <3>2. \A s \in Sensors : <<s, alive>> \in registered <=> prefs[s] /\ ~screenOn
      BY <2>1, <2>4, <3>1 DEF DozeInv, ScreenInv
    <3> QED BY <2>2, <2>4, <3>2 DEF Enabled
  <2> QED BY <2>3, <2>4
<1> QED BY <1>1, DozeSafe, PTL
=============================================================================
