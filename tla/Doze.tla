-------------------------------- MODULE Doze --------------------------------
(***************************************************************************)
(* The ambient display gestures (packages/Doze): the settings page decides *)
(* whether DozeService runs; the service's broadcast receiver arms the     *)
(* pickup and pocket sensors when the screen goes off and disarms them     *)
(* when it goes on, each on a single-threaded executor of its own.         *)
(*                                                                         *)
(* What the system sends to the app's main thread (service creation and    *)
(* destruction, broadcasts) arrives in order; what the page posts to       *)
(* itself is handled at any time in between.  The process may be killed    *)
(* in the background, and a sticky service is then created again.  What a  *)
(* sensor event does, and its 2500 ms debounce, are left out.              *)
(***************************************************************************)
EXTENDS Naturals, Sequences, FiniteSets

CONSTANTS MaxTaps,     \* bound: changes of the preferences
          MaxScreens,  \* bound: times the screen goes on or off
          MaxDeaths     \* bound: times the process is killed

ASSUME DozeAssumption ==
    MaxTaps \in Nat /\ MaxScreens \in Nat /\ MaxDeaths \in Nat

Sensors == {"pickup", "pocket"}
Prefs == Sensors \cup {"doze", "aod"}
\* A broadcast is for the receiver that was registered when it was sent.
Messages == [what : {"create", "destroy"}, to : {0}]
            \cup [what : {"screenOn", "screenOff"}, to : Nat \ {0}]
Tasks == {"register", "unregister"}

VARIABLES
    screenOn,     \* the screen is on
    prefs,        \* the settings the service's fate depends on
    running,      \* the activity manager's view: DozeService has been started
    queue,        \* messages from the system to the app's main thread
    checks,       \* runs of checkDozeService posted by the page or due at boot
    alive,        \* the service instance that exists, or 0
    created,      \* instances created so far; they are numbered from 1
    exec,         \* tasks queued on the executor of each sensor of each instance
    registered,   \* sensor listeners: the sensor and the instance it belongs to
    taps, screens, deaths,
    dark,         \* history: the instance has not seen the screen go on or off
    hasty         \* history: a preference was changed before a broadcast arrived

service == <<alive, created, exec, registered, dark>>
am      == <<running, queue>>
counts  == <<taps, screens, deaths>>
dozeVars == <<screenOn, prefs, am, checks, service, counts, hasty>>

DozeTypeOK ==
    /\ screenOn \in BOOLEAN /\ prefs \in [Prefs -> BOOLEAN]
    /\ running \in BOOLEAN /\ queue \in Seq(Messages)
    /\ checks \in 0 .. taps + 1
    /\ alive \in {0, created} /\ created \in Nat
    /\ exec \in [Sensors \X (1 .. created) -> Seq(Tasks)]
    /\ registered \subseteq Sensors \X (1 .. created)
    /\ taps \in 0 .. MaxTaps /\ screens \in 0 .. MaxScreens /\ deaths \in 0 .. MaxDeaths
    /\ dark \in BOOLEAN /\ hasty \in BOOLEAN

\* BOOT_COMPLETED finds the settings as they were left.
DozeInit ==
    /\ screenOn \in BOOLEAN /\ prefs \in [Prefs -> BOOLEAN]
    /\ prefs["aod"] => prefs["doze"]
    /\ running = FALSE /\ queue = <<>> /\ checks = 1
    /\ alive = 0 /\ created = 0 /\ exec = [si \in {} |-> <<>>] /\ registered = {}
    /\ taps = 0 /\ screens = 0 /\ deaths = 0 /\ dark = FALSE /\ hasty = FALSE

-----------------------------------------------------------------------------
(* Utils *)

areGesturesEnabled(p) == \E s \in Sensors : p[s]
Wanted(p) == p["doze"] /\ ~p["aod"] /\ areGesturesEnabled(p)

\* startService and stopService: the activity manager acts if there is a change.
checkDozeService(p) ==
    /\ running' = Wanted(p)
    /\ queue' = IF running = Wanted(p) THEN queue
                ELSE Append(queue, [what |-> IF Wanted(p) THEN "create" ELSE "destroy", to |-> 0])

RunPostedCheck ==
    /\ checks > 0
    /\ checks' = checks - 1
    /\ checkDozeService(prefs)
    /\ UNCHANGED <<screenOn, prefs, service, counts, hasty>>

-----------------------------------------------------------------------------
(* DozeSettingsFragment *)

\* Seeded fault: the check after the change is stored is left out.
PostNothing == UNCHANGED checks
PostCheck == checks' = checks + 1

Tap ==
    /\ screenOn /\ taps < MaxTaps
    /\ taps' = taps + 1
    /\ hasty' = (hasty \/ \E k \in 1 .. Len(queue) : queue[k].to # 0)
    /\ UNCHANGED <<screenOn, service, screens, deaths>>

\* onPreferenceChange of doze_enable checks with the stored always-on setting,
\* and then resets that when doze is disabled.
TapDoze ==
    /\ Tap
    /\ checkDozeService([prefs EXCEPT !["doze"] = ~@])
    /\ prefs' = [prefs EXCEPT !["doze"] = ~@, !["aod"] = @ /\ ~prefs["doze"]]
    /\ PostCheck

\* The other preferences are enabled with doze; always-on disables the gestures.
TapOther(k) ==
    /\ Tap
    /\ prefs["doze"] /\ (k \in Sensors => ~prefs["aod"])
    /\ prefs' = [prefs EXCEPT ![k] = ~@]
    /\ PostCheck
    /\ UNCHANGED am

-----------------------------------------------------------------------------
(* DozeService, PickupSensor, PocketSensor *)

Enabled == {s \in Sensors : prefs[s]}

\* Seeded fault: unregistering does not go through the executor.
SubmitOrUnregister(sensors, task) ==
    IF task = "register"
    THEN /\ exec' = [si \in DOMAIN exec |-> IF si[1] \in sensors /\ si[2] = alive
                                            THEN Append(exec[si], task) ELSE exec[si]]
         /\ UNCHANGED registered
    ELSE registered' = registered \ (sensors \X {alive}) /\ UNCHANGED exec

\* enable() and disable() of the current instance's sensors: executorService.submit
Submit(sensors, task) ==
    /\ exec' = [si \in DOMAIN exec |-> IF si[1] \in sensors /\ si[2] = alive
                                       THEN Append(exec[si], task) ELSE exec[si]]
    /\ UNCHANGED registered

Receive(message) ==
    /\ queue # <<>> /\ Head(queue).what = message
    /\ queue' = Tail(queue)
    /\ UNCHANGED <<screenOn, prefs, running, checks, counts, hasty>>

onCreate ==
    /\ Receive("create")
    /\ created' = created + 1 /\ alive' = created'
    /\ exec' = [si \in Sensors \X (1 .. created') |-> IF si[2] = created' THEN <<>> ELSE exec[si]]
    /\ dark' = ~screenOn
    /\ UNCHANGED registered

\* Seeded fault: the receiver goes, the sensors stay as they are.
DisableNothing == UNCHANGED <<exec, registered>>
DisableAll == Submit(Sensors, "unregister")

onDestroy ==
    /\ Receive("destroy")
    /\ DisableAll
    /\ alive' = 0
    /\ UNCHANGED <<created, dark>>

\* Broadcasts for a receiver that is no longer registered are dropped.
onDisplay(message, task) ==
    /\ Receive(message)
    /\ IF Head(queue).to = alive THEN Submit(Enabled, task) ELSE UNCHANGED <<exec, registered>>
    /\ UNCHANGED <<alive, created, dark>>

onDisplayOn  == onDisplay("screenOn", "unregister")
onDisplayOff == onDisplay("screenOff", "register")

\* An executor thread runs its next task.
RunTask(si) ==
    /\ exec[si] # <<>>
    /\ exec' = [exec EXCEPT ![si] = Tail(@)]
    /\ registered' = IF Head(exec[si]) = "register" THEN registered \cup {si}
                                                    ELSE registered \ {si}
    /\ UNCHANGED <<screenOn, prefs, am, checks, alive, created, counts, dark, hasty>>

-----------------------------------------------------------------------------
(* The system *)

\* A registered receiver is sent SCREEN_ON or SCREEN_OFF.
SwitchScreen ==
    /\ screens < MaxScreens
    /\ screenOn' = ~screenOn /\ screens' = screens + 1
    /\ queue' = IF alive = 0 THEN queue
                ELSE Append(queue, [what |-> IF screenOn' THEN "screenOn" ELSE "screenOff",
                                    to |-> alive])
    /\ dark' = (dark /\ alive = 0)
    /\ UNCHANGED <<prefs, running, checks, alive, created, exec, registered, taps, deaths, hasty>>

\* The process dies with its listeners, and START_STICKY brings the service back.
Kill ==
    /\ deaths < MaxDeaths /\ ~screenOn /\ checks = 0
    /\ deaths' = deaths + 1
    /\ queue' = IF running THEN <<[what |-> "create", to |-> 0]>> ELSE <<>>
    /\ alive' = 0 /\ exec' = [si \in DOMAIN exec |-> <<>>] /\ registered' = {}
    /\ UNCHANGED <<screenOn, prefs, running, checks, created, taps, screens, dark, hasty>>

DozeNext ==
    \/ RunPostedCheck
    \/ TapDoze \/ \E k \in Prefs \ {"doze"} : TapOther(k)
    \/ onCreate \/ onDestroy \/ onDisplayOn \/ onDisplayOff
    \/ \E si \in DOMAIN exec : RunTask(si)
    \/ SwitchScreen \/ Kill

DozeSpec == DozeInit /\ [][DozeNext]_dozeVars

-----------------------------------------------------------------------------
Quiet == queue = <<>> /\ checks = 0 /\ \A si \in DOMAIN exec : exec[si] = <<>>

\* Once everything has been handled, the service exists exactly when the
\* settings ask for it.  onPreferenceChange runs before the new value is stored,
\* so its own check may still have started or stopped the wrong thing.
ServiceMatchesPrefs == Quiet => (alive # 0) = Wanted(prefs)

\* A destroyed service leaves no sensor listener behind, whatever was still
\* queued on its executors when it went.
NoListenerLeft == Quiet => registered \subseteq Sensors \X {alive}

\* Sensors listen while the screen is off, and only those whose gesture is
\* enabled.  Two cases are known to differ: a service created while the screen
\* is off listens from the next time it goes off, and a gesture disabled before
\* the last broadcast was received keeps its listener.
ListenersMatchScreen ==
    Quiet /\ ~dark /\ ~hasty =>
        registered = IF screenOn \/ alive = 0 THEN {} ELSE Enabled \X {alive}
=============================================================================
