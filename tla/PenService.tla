----------------------------- MODULE PenService -----------------------------
(***************************************************************************)
(* The stylus service (packages/Pen).  While a pen is connected it keeps   *)
(* the user's peak refresh rate at what the pen supports, and afterwards   *)
(* takes that back; it offers to pair a pen that is attached for charging. *)
(* The setting, the input devices and the notification belong to the       *)
(* system and change under its hands: the main thread reads the devices,   *)
(* then the setting, then writes.  The process may be killed at any point  *)
(* and is started again without what it remembered.                        *)
(***************************************************************************)
EXTENDS Naturals, Sequences

CONSTANTS MaxUser,   \* bound: times the user chooses a refresh rate
          MaxPen,    \* bound: times the pen connects or goes
          MaxAttach, \* bound: times the pen is attached or taken away
          MaxKills   \* bound: times the process is killed

ASSUME ConstantsAssumption ==
    MaxUser \in Nat /\ MaxPen \in Nat /\ MaxAttach \in Nat /\ MaxKills \in Nat

Unlimited == "Infinity"
penSupportedRefreshRate == "pen"
Rates == {Unlimited, penSupportedRefreshRate, "other"}

VARIABLES
    rate,                      \* Settings.System.PEAK_REFRESH_RATE
    pen,                       \* is there a pen among the input devices?
    phase, pc,                 \* the service; its main thread
    isPenConnected, peakRefreshRate, wasPenConnected,
    settingChanged, deviceChanged,  \* callbacks posted to the main thread
    attached, bonded,          \* the pen on the charger; paired
    notified,                  \* is the notification shown?
    uevents,                   \* pencil_status events under way
    scanning,                  \* a scan for the attached pen is on
    budget,                    \* what the bounds leave
    choice,                    \* history: the user's last choice
    lowered,                   \* history: the service wrote the rate last, to lower it
    overwritten,               \* history: a choice made between read and write
    missed,                    \* history: a pen nobody was told of came or went
    forgot,                    \* history: killed while the rate was lowered
    unseen                     \* history: nobody saw the charger's last change

locals  == <<isPenConnected, peakRefreshRate, wasPenConnected>>
posted  == <<settingChanged, deviceChanged>>
charger == <<attached, bonded, notified, uevents, scanning>>
history == <<choice, lowered, overwritten, missed, forgot, unseen>>
vars == <<rate, pen, phase, pc, locals, posted, charger, budget, history>>

TypeOK ==
    /\ rate \in Rates /\ choice \in Rates /\ peakRefreshRate \in Rates
    /\ pen \in BOOLEAN /\ isPenConnected \in BOOLEAN /\ wasPenConnected \in BOOLEAN
    /\ phase \in {"dead", "creating", "running"}
    /\ pc \in {"idle", "devices", "setting", "write"}
    /\ settingChanged \in BOOLEAN /\ deviceChanged \in BOOLEAN
    /\ attached \in BOOLEAN /\ bonded \in BOOLEAN /\ notified \in BOOLEAN
    /\ uevents \in Seq(BOOLEAN) /\ scanning \in BOOLEAN
    /\ budget \in [user : 0 .. MaxUser, pen : 0 .. MaxPen, attach : 0 .. MaxAttach,
                   kill : 0 .. MaxKills]
    /\ lowered \in BOOLEAN /\ overwritten \in BOOLEAN /\ missed \in BOOLEAN
    /\ forgot \in BOOLEAN /\ unseen \in BOOLEAN

Init ==
    /\ rate \in Rates /\ choice = rate /\ peakRefreshRate = rate
    /\ pen = FALSE /\ phase = "dead" /\ pc = "idle"
    /\ isPenConnected = FALSE /\ wasPenConnected = FALSE
    /\ settingChanged = FALSE /\ deviceChanged = FALSE
    /\ attached = FALSE /\ bonded = FALSE /\ notified = FALSE
    /\ uevents = <<>> /\ scanning = FALSE
    /\ budget = [user |-> MaxUser, pen |-> MaxPen, attach |-> MaxAttach, kill |-> MaxKills]
    /\ lowered = FALSE /\ overwritten = FALSE /\ missed = FALSE /\ forgot = FALSE
    /\ unseen = FALSE

Spend(what) == budget[what] > 0 /\ budget' = [budget EXCEPT ![what] = @ - 1]

-----------------------------------------------------------------------------
\* onCreate: the setting is observed, and looked at for a first time ...
Create ==
    /\ phase = "dead" /\ phase' = "creating" /\ pc' = "devices"
    /\ UNCHANGED <<rate, pen, locals, posted, charger, budget, history>>

\* ... and only then the input devices and the charger are listened to.
Listen ==
    /\ phase = "creating" /\ pc = "idle" /\ phase' = "running"
    /\ UNCHANGED <<rate, pen, pc, locals, posted, charger, budget, history>>

\* ContentObserver.onChange, onInputDeviceAdded, onInputDeviceRemoved
OnChange ==
    /\ phase = "running" /\ pc = "idle" /\ pc' = "devices"
    /\ \/ settingChanged /\ settingChanged' = FALSE /\ UNCHANGED deviceChanged
       \/ deviceChanged /\ deviceChanged' = FALSE /\ UNCHANGED settingChanged
    /\ UNCHANGED <<rate, pen, phase, locals, charger, budget, history>>

\* overridePeakRefreshRateIfNeeded: the devices, the setting, then the write.
ReadDevices ==
    /\ pc = "devices" /\ pc' = "setting"
    /\ isPenConnected' = pen
    /\ missed' = FALSE
    /\ UNCHANGED <<rate, pen, phase, peakRefreshRate, wasPenConnected, posted, charger, budget,
                   choice, lowered, overwritten, forgot, unseen>>

ReadSetting ==
    /\ pc = "setting" /\ pc' = "write"
    /\ peakRefreshRate' = rate
    /\ wasPenConnected' = (wasPenConnected \/ isPenConnected)
    /\ UNCHANGED <<rate, pen, phase, isPenConnected, posted, charger, budget, history>>

\* Seeded faults: any rate is lowered; the rate is raised while the pen is still
\* there.
LowersAnything == isPenConnected /\ peakRefreshRate # penSupportedRefreshRate
Lowers == isPenConnected /\ peakRefreshRate = Unlimited
RaisesAnyway == wasPenConnected /\ peakRefreshRate = penSupportedRefreshRate
Raises ==
    wasPenConnected /\ ~isPenConnected /\ peakRefreshRate = penSupportedRefreshRate

Write ==
    /\ pc = "write" /\ pc' = "idle"
    /\ IF Lowers \/ Raises
         THEN /\ rate' = IF Lowers THEN penSupportedRefreshRate ELSE Unlimited
              /\ settingChanged' = (settingChanged \/ rate' # rate)
              /\ wasPenConnected' = Lowers
              /\ lowered' = Lowers
              /\ overwritten' = (overwritten \/ rate # peakRefreshRate)
         ELSE UNCHANGED <<rate, settingChanged, wasPenConnected, lowered, overwritten>>
    /\ UNCHANGED <<pen, phase, isPenConnected, peakRefreshRate, deviceChanged, charger, budget,
                   choice, missed, forgot, unseen>>

-----------------------------------------------------------------------------
\* Seeded fault: taking the pen off the charger leaves the notification.
NotifiedForGood(on) == notified \/ (on /\ ~bonded)
\* The pen is attached and not bonded with, or it is taken away.
NotifiedAfter(on) == on /\ (notified \/ ~bonded)

\* The charger's uevents, in order, on the observer's thread.
OnUEvent ==
    /\ phase = "running" /\ uevents # <<>>
    /\ uevents' = Tail(uevents)
    /\ notified' = NotifiedAfter(Head(uevents))
    /\ UNCHANGED <<rate, pen, phase, pc, locals, posted, attached, bonded, scanning, budget,
                   history>>

\* The notification is tapped: bondBtDevice scans, if Bluetooth came up in time.
OnStartCommand ==
    /\ phase = "running" /\ pc = "idle" /\ notified
    /\ notified' = FALSE
    /\ scanning' \in {scanning, TRUE}
    /\ UNCHANGED <<rate, pen, phase, pc, locals, posted, attached, bonded, uevents, budget,
                   history>>

\* The pen is found and bonded with, or the scan failed.
OnScanResult ==
    /\ scanning /\ scanning' = FALSE
    /\ bonded' \in {bonded, TRUE}
    /\ UNCHANGED <<rate, pen, phase, pc, locals, posted, attached, notified, uevents, budget,
                   history>>

-----------------------------------------------------------------------------
\* The setting is observed from the start of onCreate on.  Seeded fault: only
\* from its end on.
ObservedLate == phase = "running"
Observed == phase # "dead"

\* The user picks a rate; the observer is told if there is one.
Choose(r) ==
    /\ r # rate /\ Spend("user")
    /\ rate' = r /\ choice' = r
    /\ settingChanged' = Observed
    /\ lowered' = FALSE /\ overwritten' = FALSE
    /\ UNCHANGED <<pen, phase, pc, locals, deviceChanged, charger, missed, forgot, unseen>>

PenChanges ==
    /\ Spend("pen")
    /\ pen' = ~pen
    /\ deviceChanged' = (deviceChanged \/ phase = "running")
    /\ missed' = (missed \/ (phase = "creating" /\ pc # "devices"))
    /\ UNCHANGED <<rate, phase, pc, locals, settingChanged, charger, choice, lowered,
                   overwritten, forgot, unseen>>

Attach ==
    /\ Spend("attach")
    /\ attached' = ~attached
    /\ uevents' = IF phase = "running" THEN Append(uevents, attached') ELSE uevents
    /\ unseen' = (phase # "running")
    /\ UNCHANGED <<rate, pen, phase, pc, locals, posted, bonded, notified, scanning, choice,
                   lowered, overwritten, missed, forgot>>

\* The process dies with all it remembers; settings and notification stay.
Killed ==
    /\ phase # "dead" /\ Spend("kill")
    /\ phase' = "dead" /\ pc' = "idle" /\ wasPenConnected' = FALSE
    /\ settingChanged' = FALSE /\ deviceChanged' = FALSE
    /\ uevents' = <<>> /\ scanning' = FALSE
    /\ forgot' = (forgot \/ lowered)
    /\ unseen' = (unseen \/ uevents # <<>>)
    /\ UNCHANGED <<rate, pen, isPenConnected, peakRefreshRate, attached, bonded, notified,
                   choice, lowered, overwritten, missed>>

Service ==
    \/ Create \/ Listen \/ OnChange \/ ReadDevices \/ ReadSetting \/ Write \/ OnUEvent

Next ==
    \/ Service \/ OnStartCommand \/ OnScanResult
    \/ (\E r \in Rates : Choose(r)) \/ PenChanges \/ Attach \/ Killed

\* Only the service's own threads are sure to run.
Spec == Init /\ [][Next]_vars /\ WF_vars(Service)

-----------------------------------------------------------------------------
\* Nothing is under way and the main thread has seen every change it was told of.
Settled == phase = "running" /\ pc = "idle" /\ ~settingChanged /\ ~deviceChanged

\* A connected pen never runs with the unlimited rate, however the pen, the
\* user's choices and restarts interleave, unless the pen came between the
\* first look at the devices and the registration of the listener.
LimitInForce == Settled /\ pen /\ ~missed => rate # Unlimited

\* After the pen has gone the rate is no longer what the service lowered it to,
\* unless the process was killed while it was, or the pen went in that gap.
RestoredAfterUse == Settled /\ ~pen /\ lowered => forgot \/ missed

\* Once settled, the rate is what the pen, or its absence, calls for.
RateMatchesPen == LimitInForce /\ RestoredAfterUse

\* A rate that is neither unlimited nor the pen's stays as the user chose it,
\* unless it was chosen just between the service's read and its write.
UserChoiceKept == choice = "other" /\ ~overwritten => rate = "other"

\* The service does not answer its own changes for ever.
ComesToRest == phase = "running" ~> Settled \/ phase = "dead"

\* The notification is shown only for a pen on the charger, unless the change
\* happened while nobody listened.
NotificationTrue ==
    phase = "running" /\ uevents = <<>> /\ notified => attached \/ unseen
=============================================================================
