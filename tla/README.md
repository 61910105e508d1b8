# Verification of hardware/oplus

TLA+ models of the HALs, apps and daemons in this repository, model-checked
with TLC and, where it matters most, proved with TLAPS. `PROJECT.json` maps
every definition to the source lines it stands for and lists the runs, the
hazards and the theorems.

## The system

The repository is a set of small programs around the Android framework. They
share no state except kernel nodes, and most are event-driven.

| Component (source) | State it keeps | Operations | Talks to | What is hard | What makes it correct |
|---|---|---|---|---|---|
| UDFPS sensor and its sub-HAL (`sensors/`) | enabled flag, operation mode, run thread with two waits, wake-up pipe, handle table | construction, activate, setOperationMode, run loop, the sub-HAL's calls | HAL threads, sysfs `fp_state`, sensor framework | thread started by the base class, lock released around `poll`, lost wake-ups, stale notifications, blocking pipe | one event per activation, no unwanted event, no missed wake-up, no stale touch, calls return |
| Alert slider key handler (`packages/KeyHandler`, `KeyHandler.kt`) | executor queue, `wasMuted` | key event, boot, mute broadcast | audio and notification services, the dialog plugin | position read late, waiting for zen commits, flag shared by two threads | final position decides, announcements only when in force |
| Alert slider dialog (`AlertSliderPlugin.kt`, `AlertSliderDialog.kt`) | looper messages, `showing`, dialog, animation | broadcasts, show, dismiss, update, recreate | key handler, window manager | delayed dismissal racing updates, recreation | always dismissed, never orphaned, shows the last update |
| Vibrator, qti (`aidl/vibrator/qti`) | force-feedback effect slot, current magnitude, external control, LED files | on, off, perform, setAmplitude, setExternalControl | input device or LED files, framework | any ioctl or write fails half way | off is silent, what plays is what was asked |
| Touch HAL (`aidl/touch`) and power mode (`power/`) | bits of one kernel node | enable gesture, double tap to wake, glove mode, polling rate | kernel node, OplusTouch service | read-modify-write from two processes, unreported failures | what was acknowledged is in force |
| Fingerprint HIDL (`hidl/fingerprint`) | dim layer and press nodes, vendor session | enrol, authenticate, cancel, finger down and up, callbacks | vendor HAL, framework, panel | queued callbacks, refusals, death | the panel is lit only while a finger is wanted |
| eSIM switcher (`packages/eSimSwitcher`) | GPIO, UIM power, pending SE service connections | toggle | eSIM HAL, SE service | asynchronous connection callback, failing sessions | power comes back, GPIO is switched unpowered |
| NR mode switcher (`nrmodeswitcher`) | retry loop, result of an asynchronous response | set NR mode per SIM | radio HAL | response arrives after the result was looked at, or in another iteration; a radio may be missing or hang | a true exit status; it ends unless a radio holds it up |
| Pen (`packages/Pen`) | peak refresh rate override, notification | pen connect and disconnect, uevents, restarts | settings, input, Bluetooth | setting and devices read at different times, state lost across restarts | rate limited with a pen, restored without |
| Doze (`packages/Doze`) | sensors' registered listeners, preferences | screen on and off, preference changes, sensor events | sensor framework, System UI | preferences read at the time of the callback, executors | no listener left registered |
| Audio amplifier (`audio_amplifier`) | feedback stream, its use case in the HAL's list | start and stop feedback | audio HAL, tinyalsa | error paths, calls that are not counted | feedback whole or not at all, while a speaker plays |
| LiveDisplay (`aidl/livedisplay`) | current and default display mode, its file, panel controls | set modes and features | SDM controller, panel ioctls | calls on several threads without a lock, death while writing | panel and default are as answered, but for what panel or controller refused |
| IFAA (`packages/IFAAService`) | cached binder proxy | processCmd, death notification | fingerprint payment HAL | death between lookup, link and caching | a dead proxy leaves the cache |
| Folio daemon (`folio-daemon`) | input device, events being forwarded | search, forward, end | sensor service, uinput, init | ends on any failure and is started again | lid switch follows the sensor |
| Vibrator, richtap (`aidl/vibrator/richtap`) | threads that will call clients back | on, off, perform, setAmplitude | `aac_vibra` library, framework | nothing ends a thread once started | nobody is told too early that a vibration is over |
| Vibration effects (`aidl/vibrator/qti/effect`) | effect map, filled when the library is loaded | load, look up, play length | configuration file, `Vibrator::perform` | missing, broken and repeated entries, division by a rate that may be 0 | each supported effect has the right stream, its play length covers it |
| IR (`aidl/ir`), powershare, wvmkiller, hbp-daemon, commondcs, osense-client, performance, uah-client, fingerprint extensions and shims, oplus-fwk | none after start-up | one node, one ioctl or a constant per call | vendor libraries and apps | | |
| interfaces, overlays, sepolicy, usb, vintf, kernel-headers, Euicc | no program | | | | |

## Modules

| Module | Models | State and actions in terms of the code |
|---|---|---|
| `OneShotSensor` | what a one-shot sensor promises its client: an event only while armed, which disarms it | abstract |
| `UdfpsSensor` | `UdfpsSensor` of `sensors/Sensor.cpp`; refines `OneShotSensor` | the fields of `Sensor` by their names, the owner of `mRunMutex`, one program counter per HAL thread and one for the run thread; an action is what happens between two points where the lock is taken, released or not needed |
| `KeyHandler` | `KeyHandler.kt` with its executor, boot receiver and mute receiver | `tasks` is the executor's queue and `step` the position in the running `Runnable`; `reading` is a position that was read and not submitted yet |
| `AlertSliderPlugin` | the receiver, `NotificationHandler` and dialog of the slider | `ui.queue` is the main looper's queue, `ui.timer` the delayed dismissal; one action per message |
| `Vibrator` | `InputFFDevice::play` under `on`, `off` and `perform` | `play` has one disjunct per way out of the function; `uploaded`, `length` and `playing` are the input driver |
| `VibratorHal` | the whole service; extends `Vibrator` | `device` is what was found at the start: force-feedback, LED files or none; `led` the files, `gain` the amplitude last accepted; refines `Vibrator` |
| `EsimController` | `EsimController.kt` and the preference switch that calls it | `mpc` is where the main thread is inside `toggleEsimState`, `phase[r]` where the listener of request `r` is |
| `Doze` | `DozeService`, the two sensors' executors, `checkDozeService`, the settings page | `queue` is what the system has sent to the app's main thread, `exec` the tasks on each sensor's executor, `registered` the sensor framework's listeners |
| `TouchPanel` | `TouchscreenGesture`, `GloveMode`, `HighTouchPollingRate`, `setDeviceSpecificMode` | one client per process with its program counter and the `contents` it read; `indep`, `enable` are the nodes |
| `FingerprintHal` | `BiometricsFingerprint` with a vendor HAL that ends sessions, refuses and reports | `call` is the call the service's thread is in, `queue` the vendor's callbacks under way, `hbm` and `press` the nodes |
| `NrModeSwitcher` | `main` and `OplusRadioResponse` | `i`, `retry`, `rc`, `result` are the locals of `main`, `answers` what radios still have to tell; `silent` says that the thread is blocked in `AServiceManager_waitForService` or in a two-way call |
| `PenService` | `PenService.kt` | `pc` is where the main thread is in `overridePeakRefreshRateIfNeeded`, `settingChanged` and `deviceChanged` its posted callbacks, `uevents` those of the charger |
| `TfaAmplifier` | `audio_amplifier.c` | `feedback` is everything a running feedback holds |
| `LiveDisplay` | `DisplayModes`, `AntiFlicker`, `SunlightEnhancement`, `AdaptiveBacklight` | `lpc` and `arg` are per binder thread; panel, controller and `defaultFile` outlive the process; panel and controller may refuse each request |
| `IfaaService` | `processCmd` and the death recipient | `ipc` and `it` per binder thread, `links` the death notifications still to come |
| `FolioDaemon` | `folio-daemon/main.cpp` and its `.rc` file | `fpc` is where `main` is, `events` the sensor's queue, `lid` what the input system sees |
| `CompletionThreads` | the detached threads of both vibrator services | `sleeping` are the threads that have still to call back and when; `motor` is the vibration under way, `now` the time in microseconds |
| `RichTapVibrator` | `richtap/Vibrator.cpp`; extends `CompletionThreads` | one action per call, each with the way out on which the library refuses |
| `VibrationEffects` | `qti/effect` and what `perform` makes of a stream; extends `CompletionThreads` | `members` and `unread` are what `parseEffectJson` and `loadEffects` have still to go through, `effect_map` the loader's map |
| `SensorsSubHal` | `SensorsSubHal.cpp`, the constructors and `Sensor::run` | `runs` is the `run()` the thread was dispatched to, `built` how far the construction has come; `UdfpsSensor::run` appears as the `OneShotSensor` it refines |
| `IndependentServices` | `TouchPanel`, `TfaAmplifier`, `IfaaService`, `FolioDaemon`, `LiveDisplay`, `RichTapVibrator`, `VibrationEffects` side by side | a behaviour moves one of them: they share no state |
| `DeviceApps` | `PenService` and `Doze` side by side | likewise |
| `MCKeyHandler`, `MCVibrator` | values of constants that a cfg cannot write, symmetry | |
| `AlertSliderProofs` | theorems about `KeyHandler` and `AlertSliderPlugin` | |
| `DeviceAppsProofs` | theorems about `PenService` and `Doze` | |
| `IndependentServicesProofs` | theorems about each of the independent services | |
| other `...Proofs` | theorems about the module they are named after | |

The programs do not call one another, except the key handler, which announces a
position to the dialog by a broadcast. `KeyHandler` models the sender up to that
broadcast (`announced`), `AlertSliderPlugin` receives any sequence of broadcasts,
so each is checked against everything the other could do. The touch HAL and the
power service meet in one kernel node, and `TouchPanel` composes the two.

A definition called a *seeded fault* in its comment is a wrong version of the
one after it; no behaviour of the models uses it. `PROJECT.json` lists under
`mutants` which property fails when it takes the right one's place.

## Runs

| Run | States | What it shows |
|---|---|---|
| `udfps_safety` | 101 k | two HAL threads, four calls, every failure: at most one event per activation, no change of the sensor slept through, the one-shot contract refined |
| `udfps_live` | 15 k | without failures: a press is delivered, every call returns, a touch from before the activation is not delivered |
| `slider_keys` | 381 k | boot, two movements, one user action, one foreign zen change: the final position decides, announcements are true, `wasMuted` says what the handler did and nothing else, all work ends |
| `slider_dialog` | 110 k | three slider and two configuration changes: the dialog is dismissed, never orphaned, shows the last update |
| `vibrator_slots` | 221 k | four calls on any of the three devices, in which anything may fail: off is silent, an effect plays as long and strong as asked, an accepted LED request is complete |
| `esim_switch` | 3 k | three toggles and a reopened page, any listener failing: who owns a power cut, when the GPIO moves, what the switch shows, power returns |
| `esim_power` | violated | power does not return when the listener fails |
| `fingerprint_hal` | 39 k | five calls, queued callbacks, refusals, two deaths: dark at rest, lit while a finger is wanted, dark after every session |
| `nr_mode` | 219 k | two slots, three retries, answers at any time or never, radios that come late or never and calls that hang: the verdict is sound, and the program ends unless it waits for a radio for ever |
| `device_apps` | 1.8 M | doze, with three taps, four screen changes and a process death: the service follows the settings and leaves no listener. Pen, with two choices, three pen changes, two of the charger and two kills: the rate matches the pen, the user's rate stays, the notification is true, the service comes to rest |
| `services` | 1.8 M | the seven services of `IndependentServices`, each on its own: gestures as acknowledged, feedback whole and with the speaker, no dead proxy for good, lid as the magnet, panel and default mode as answered, nobody told too early that a vibration is over, one stream for each effect |
| `sensors_start` | violated | the one-shot sensor posts more than one event per activation if its thread is quicker than the constructors |

Three properties are conjunctions of named parts, each with a comment of its
own: `DialogKeepsUp`, `FeedbackIsSound` and `VerdictIsSound`. `TypeOK` and its
likes are proved, not run, except where they are part of an inductive invariant.

### Bounds

Bounds are constants named `Max...` (and `ExternalZen`), tested in guards. They
count what the environment may start, with one exception: `MaxPosts` counts events
that `SensorsSubHal` posts itself, because `Sensor::run` posts without end. A
violated property needs no more.

- `udfps_*`: two callers are enough for a call to race another call and the run
  thread. `udfps_safety` makes the pipe smaller (2) than the number of calls (4), so that
  `write` blocks. In `udfps_live` the pipe holds as many bytes as there are
  calls; see *Limits*.
- `slider_keys`: two movements put a second task behind one that waits; one user
  action can mute, unmute or change the preference at each point. Three
  positions with a silent, a zen and a normal mode cover both orders in which a task
  sets zen and ringer.
- `slider_dialog`: three changes give show, update while shown, and update while
  animating; two configuration changes a recreation of a recreated dialog.
- `vibrator_slots`: three slots and four calls lose an effect, overwrite another
  and stop a third. The timeouts are none, one that fits 16 bits and one that
  does not. The slots are interchangeable, hence symmetric; no liveness is
  checked under symmetry.
- `esim_switch`: three requests are the fewest in which a listener is pending
  while another toggle is refused as a no-op and a third one cuts the power.
- `fingerprint_hal`: five calls are an enrolment and an authentication, or two
  sessions and a cancel; two callbacks queued let one of an old session follow
  one of a new; two deaths give a death during the recovery of another.
- `nr_mode`: the second slot is the one an answer of the first can cross into;
  three retries let an answer be one and two calls late. How often a radio stalls
  and resumes is not bounded.
- `sensors_start`: four calls initialize, activate, change the mode and
  deactivate; the violation needs the first two.
- `device_apps`: in doze two checks per tap, one at boot and one restart are at
  most eight service instances; three pen changes are a pen that came, went and
  came back within one look at the devices.
- `services`: two gestures and four requests let each process overwrite the
  other once; two speakers and another output; two threads in the payment
  service and a HAL that dies twice; three retries and three waiting events in
  the folio daemon. LiveDisplay has two threads and three calls, so that a third
  call, or a restart, comes after two that met, on panels (`LookedAt`) without
  flicker control and with two of its controls. Three calls of
  the RichTap service and two of `perform` leave threads of earlier vibrations
  asleep during later ones; `UintMod` is 10^8 in place of 2^32, so that a length of
  100 001 ms, in microseconds, does not fit, nor, times 1000, a file of as many bytes.
  The configuration files (`ConfigFiles`) are one without members, one with
  empty, broken, repeated, unknown and endless entries before a second member
  that must not be read, and one whose entries come last. Threads are
  symmetric.

`CHECK_DEADLOCK FALSE` is set where a model comes to rest once its environment
has used its bounds: the event-driven programs really wait forever. The sensor
models never rest, because the finger may always move.

### Fairness

- `UdfpsSensor`: a running thread runs (weak fairness of the run thread and of a caller inside a
  call). Getting `mRunMutex` is strongly fair: its owner gives it up
  during each wait, and the critical sections are short. Callers, fingers, spurious
  wake-ups and failures are not fair.
- `KeyHandler`: the executor, the handlers of events and broadcasts, and the
  notification service that commits a requested zen mode. Nobody has to move the
  slider or to touch anything.
- `AlertSliderPlugin`: the main looper, the expiry of a delayed message, the end
  of an animation.
- `EsimController`: the main thread and the IO threads run, the secure element
  service connects. Connecting is strongly fair because the main thread also
  does other things. That a listener fails is possible and never required.
- `FingerprintHal`: the vendor answers or refuses the call that waits for it, the
  service's thread handles callbacks (strongly fair, since a call may hold it
  up), a service that has started is found. No session has to end by itself.
- `NrModeSwitcher`: the main thread, whenever it can run; strongly fair, because a
  radio that stalls and resumes blocks it again and again. A radio need not
  register, nor return from a call, nor answer.
- `PenService`: the service's own threads.
- `Vibrator`, `Doze` and the independent services have safety properties only.

## Properties worth knowing

- `AtMostOnePerActivation` counts the event a poll in progress may still post
  after `activate(false)` has returned: the code really posts it, and the
  property says it is never one too many.
- `NothingSleptThrough` joins the two halves of "the run thread notices": in
  `poll` by a byte, in `wait` by a notification.
- `WasMutedAccurate` has both directions and names one race for each. The executor
  mutes and only then sets the flag (`KeyHandler.kt:122`), so an unmute and its
  broadcast may come in between and leave the flag over music that plays
  (`overtaken`). And the broadcast of an unmute may arrive after the handler has
  muted again, and reset the flag (`outdated`). Nothing but these
  orders of steps sets the two; `overtaken` ends with the next unmute that is told
  of, `outdated` when the handler mutes again.
- `SettlesOnPosition` excepts runs in which the boot read came in between: the
  main thread may submit a position it read before a movement that the input
  thread has already submitted.
- `ShowLostOnlyToDismissal` allows for a dismissal that fell due just before a
  change: it is handled first and removes the pending show.
- `SwitchShowsSlot` and `SwitchedUnpowered` except users who tap again while a
  listener is pending (`overlapped`). With an SN220 chip the second tap reads
  the GPIO before the first has switched it; the property would be false.
- `ListenersMatchScreen` excepts a service created while the screen is off
  (`dark`), which misses the broadcast it would have armed its sensors on,
  and a preference changed before the last broadcast arrived (`hasty`).
- `AcknowledgedInForce` excepts the bits in `lost`: those another process wrote
  after a client had read the node and before it wrote, and those IOplusTouch
  acknowledged without writing. Nothing else puts a bit there.
- `DarkAtRest` and `GoesDark` except `stuck`: a refused `authenticate` leaves
  the light on, since it is switched on before the vendor is asked, and so does
  a death in a session.
- `LitWhileSensing` needs an orderly framework: one that starts a session before
  the old one's error was handled has its light put out by that error.
- `VerdictIsSound` needs every answer to have come when a result is judged
  (`unheard`): the code does not wait for it. A slot may be given up for the
  refusal of an earlier one, whose callback still writes through a reference.
- `RateMatchesPen` and `UserChoiceKept` name the gaps of the code: the devices
  are looked at before they are listened to (`missed`), a kill forgets that the
  rate was lowered (`forgot`), a choice may fall between read and write.
- `DeadProxyIsCleared` excepts `gap`: a HAL that dies between `linkToDeath` and
  the assignment after it stays cached.
- `Terminates` excepts a program that waits for ever: `main.cpp:63` blocks until
  the service of a declared radio registers, and `setCallback` and `setNrMode`
  return only when the radio does. A late or missing *answer* never
  holds the program up.
- `PanelAsAnswered`: `setDisplayMode` answers ok whatever the panel and the
  controller said (`DisplayModes.cpp:70`), so that each is in the current mode
  unless it refused when it was last set (`seedMissed`, `displayMissed`), and
  unless two calls met between their writes (`mixed`). A feature is as answered
  unless the last answer was given by a call that met another one, or that
  had to pass to the feature's next control, or the process died between
  switching and answering (`doubtful`). Each exception ends with the next call
  that nothing gets in the way of.
- `DefaultSurvives` excepts `unsaved`: the file is emptied when it is opened and
  written when it is closed, which may fail or be another call's turn.
- `NotToldWhileItLasts` is about vibrations whose length the service knows:
  `unmeasured` are those of a stream without a rate, for which `perform` reports 0
  and the driver plays at a rate of its own, and those whose microseconds (or
  length times 1000) do not fit 32 bits.
- `EveryEffectHasItsStream` says which stream: `emplace` keeps the first usable
  entry for an effect, and only the first member with entries is read.

## Proofs

The theorems hold for every value of the constants that satisfies the
assumptions named in the modules: any callers and pipe capacity, any finite
effect table, any timeouts, gestures, slots, retries, configuration files, and
any number of calls, kills or deaths. Each follows one scheme: an inductive
invariant (or a few of them), one lemma per action or per conjunct, and a
temporal step at the end. Every invariant and action property that a passing run
checks has its theorem, and so has the refinement.

- `UdfpsSensorProofs`. `TypeCorrect`: the pipe counter stays within bounds only
  because a byte that `poll` reported is still there when it is read
  (`PolledByteStays`: nobody but the run thread reads). `OneEventPerActivation`
  is inductive given the types, because it counts the poll in progress.
  `NoMissedWakeup` adds `StoppedNeverPolls`: a sensor without a pipe was stopped
  at birth. `ParkedTouchNeverDelivered`: an armed report excludes a notification
  raised while the thread was parked. `SensorIsOneShot`: every step is one of
  `OneShotSensor` or a stutter, under `armed <- Armed`, `events <- posts`.
- `VibratorProofs`. `Bookkeeping` proves `TypeOK`, `CurrentIsUploaded` and
  `LostSlotsAccounted` together: each way out of `play` resets or replaces
  `mCurrAppId`, so a removal that fails adds at most one lost effect.
  `SilentWhenStopped`: with no failed removal no effect is lost, so removing the
  current one removes the only one that can play. `ServiceImplementsDevice`
  shows that the whole service refines `Vibrator`, and carries these results
  over. `LedAlwaysProgrammed` and `PlayedAsAsked` are about one step each, given
  that the level of the current effect is the gain last accepted.
- `AlertSliderProofs`, key handler. `LastPositionWins` rests on
  `LastReadIsSlider`: whoever holds the latest reading (the input thread, the
  last task, or the modes in force) holds the slider's position. `TaskInForce`
  and `ZenFollowsTarget` say what each step of a task has already achieved;
  `ToldOnlyWhenInForce` is their consequence. `MuteFlagIsAccurate` is by
  `FlagInv`: music that plays under the flag, or while the executor is between
  muting and setting it, has an unmute broadcast still to come, or was `overtaken`.
- `AlertSliderProofs`, dialog. `PluginInv` joins what a window needs (a dismissal
  queued or due), what the dialog shows against the updates still queued, and
  the order in which a recreation finds them; `DialogUpToDate`, `DismissalComes`
  and `ShowNotLost` follow. What `removeMessages` leaves of a queue, the recursive
  function `Without`, is characterised by induction on its length: `WFMin` with
  `NatLessThanWellFounded` gives the shortest counterexample.
- `EsimControllerProofs`. `PowerOffIsAlwaysOwned` is inductive with
  `WorkIsRequested`: a listener belongs to a request that was made.
  `SwitchAlwaysShowsSlot` and `RoutedWithoutPower` need `Orderly`, what the one
  pending request knows about GPIO, power and switch at each phase.
- `FingerprintHalProofs`. `AlwaysDarkAtRest` adds `LightHasCause`: every light
  has a call, a session or a queued callback that will put it out, or a failure
  to blame. `AlwaysLitWhileSensing` adds `OrderlyLight`.
- `NrModeSwitcherProofs`. `ExitStatusIsExact` adds `RefusalsHaveCause`, for the
  slots given up, and `Heard`, which relates the result, the answers under way
  and the last call while no answer is late.
- `DeviceAppsProofs`, pen. `RateFollowsPen` adds `SeesPen`, `SeesRate` (who is
  past his look knows the value, or will be told) and `LoweredIsRemembered`;
  `UserChoiceIsKept` and `NotificationIsTrue` (`LastEventTrue`) come from the
  same invariant.
- `DeviceAppsProofs`, doze. `DozeInv` has three parts. Of the checks, starts and
  stops that are queued, the last one decides whether the service will be there,
  which gives `ServiceFollowsPrefs`. The last task queued for an instance that
  was destroyed unregisters, which gives `ListenersGo`. For the current
  instance, the last task of a sensor, or the last screen broadcast, brings the
  listener to where the screen wants it: `ListenersFollowScreen`.
- `IndependentServicesProofs`. `AcknowledgedStaysInForce` adds `CopyInForce`: a
  client's local copy agrees with what is acknowledged, except for its own bit,
  those written since it read, and those already lost.
  `FeedbackWholeWhileSpeaker`: between two calls the feedback is whole or
  nothing, since what an error path undoes is what the start acquired.
  `DeadProxyGoes`: a proxy that is cached, or about to be, has a death
  notification to come unless it died in the gap. `LidIsWhereMagnetIs`: what is
  written last for the lid is what the sensor said last, or an event is still
  queued.
- `IndependentServicesProofs`, LiveDisplay. `PanelStaysAsAnswered`: each thread's
  place in a call says which of panel, controller and mode it has already moved,
  unless it was torn, and no two features share a control.
  `DefaultModeSurvives`: a file that is not `unsaved` was written by the last call
  that set the default.
- `IndependentServicesProofs`, vibrations. `ThreadsInv`: a thread of the vibration
  under way, if its length is known, sleeps until that is over, and calls have
  numbers of their own, so that no later call makes an earlier promise false.
  `RichTapToldInTime` follows from the library's answer; `EffectsToldInTime`
  needs `PlayLengthCovers`: a length times 1000, divided by the rate and rounded
  up, is never less than the microseconds of the samples.
- `IndependentServicesProofs`, effects. `EffectsHaveStreams` is by `LoadInv`: what
  is left to search, and to load, is what follows a prefix of the file, and the
  map holds (`Keeps`) the first usable entry of that prefix for each effect.

Only model-checked are the eight liveness properties, since the prover does
not do fairness and `ENABLED`: `PressDelivered`, `CallsReturn`, `WorkIsDone`,
`EventuallyDismissed`, `PowerRestored`, `GoesDark`, `Terminates` and
`ComesToRest`. The violated properties, `PowerComesBack` and `OneShotKept`, have
a counterexample instead of a theorem.

## Findings

`EsimController.kt:66`: a listener that throws leaves the slot without power,
although the comment at line 39 relies on it (`esim_power`).

`Sensor.cpp:86`: the base class's constructor starts the thread on a virtual
function. If the thread is dispatched before the constructors of `OneShotSensor`
and `UdfpsSensor` have run, it runs `Sensor::run` for good, which samples
without end, although the sensor is given the flag of a one-shot sensor at line 222
(`sensors_start`).

Observations, modelled as the code has them and excepted by name in the
properties:

- `KeyHandler.kt:157` waits until the *current* zen mode is the requested one: a
  foreign change between the commit and the next poll leaves the only executor
  thread waiting (`WorkIsDone` excepts it).
- `Vibrator.cpp:232` stores a 32-bit timeout in a 16-bit field in which 0 means
  endless (`ReplayLength`).
- `Vibrator.cpp:261`: in `play`, `ret` of a failed `write` is replaced by the
  result of the ioctl that cleans up, so `on` reports success and nothing plays
  (`StartFails`).
- `Vibrator.cpp:479`: with an LED device, `perform` does not look at the results
  of its writes; `on` does.
- `Vibrator.cpp:248`: for a stream whose rate is 0 the play length stays 0, so that
  `perform` reports 0 and calls back at once (`unmeasured`).
- `VibrationEffectLoader.cpp:115`: the members are searched in the order in which the
  JSON library keeps them; the first with entries is taken, even if none of
  them can be used.
- `setAmplitude` sets the device's gain, which scales the next effects too.
- `audio_amplifier.c:145`: starts and stops are not counted, so the first of two
  speakers to be disabled ends the feedback of both.
- `KeyHandler.kt:122`: muting and setting `wasMuted` are two statements
  (`overtaken`).
- `DisplayModes.cpp:70`: the results of the panel and of the controller are not
  looked at.
- `AntiFlicker.cpp:38`: a control that fails to switch is passed over for the next
  one, while `getEnabled` still reads the first (`doubtful`).
- `IfaaService.kt:138`, `DisplayModes.cpp:76`, `main.cpp:70` of the NR mode
  switcher: see *Properties worth knowing*.

## Limits

- `UdfpsSensor` starts after the constructor and never ends. What the thread does
  when it is quicker than the constructor (`Sensor.cpp:86`) is in
  `SensorsSubHal`; the destructor, which interrupts the poll before it sets
  `mStopThread` (`Sensor.cpp:267`), is not: the object is built once and destroyed at
  process exit. A press notified after `activate` returned and before the
  thread's first poll is consumed unreported (`Sensor.cpp:317`);
  `PressDelivered` speaks of later ones. `CallsReturn` is checked with a pipe
  that holds a byte for each call: a disabled sensor does not drain its pipe, so
  more mode changes than the pipe holds bytes would block.
- `SensorsSubHal` takes a round of `Sensor::run`, which gives up the lock only in
  its waits, as one step, and shows only what may happen when the thread is dispatched too early;
  that it then does nothing else wrong is not claimed. The framework initializes the
  sub-HAL before it activates a sensor. Races inside the half-built object are left
  out.
- `VibratorHal` leaves out the completion threads: they are those of
  `CompletionThreads`, whose `Usleep` is also that of `on` (`Vibrator.cpp:460`). It
  leaves out the capability queries. Calls do not overlap, because the service has a single
  binder thread (`service.cpp:41`).
- `EsimController` does not model the death of the settings process; its effect on the
  slot is that of a failing listener.
- `Doze` leaves out what a sensor event triggers, and its 2500 ms debounce.
- `AlertSliderPlugin` leaves out `onDestroy`, doze pulses and layout arithmetic.
- `PenService` reduces rates to the unlimited one, the pen's and another, and
  leaves out devices without a configured rate. It assumes that every uevent
  carries the pen's address: one without returns at `PenService.kt:47`, before
  the notification would be taken back.
- `FingerprintHal` leaves out calls that are only passed on. The panel's ioctl and
  the node behind it are assumed to take what is written.
- `LiveDisplay` leaves out the queries and picture adjustment, which comes from
  a library outside the repository, and the controller's own default mode, which
  nothing in the repository reads. A panel or controller that refuses is assumed to
  keep what it had.
- `VibrationEffects` leaves out entries on which the JSON library throws, and files
  too long to allocate. What the driver makes of a stream without a rate is one
  length of its choice.
- Time is abstract except in `CompletionThreads`: a delay is something that may
  expire at any point.

### Not modelled

- `aidl/performance`, `aidl/commondcs`, `aidl/osense-client`, `uah-client`,
  `hbp-daemon`, `oplus-fwk`: every operation returns a constant or makes one
  call, so that vendor code finds what it links against. `Performance.cpp` is
  the longest file of the repository and has no state at all.
- `aidl/ir`, `aidl/powershare`, `wvmkiller`: one stateless sequence of system
  calls each.
- Fingerprint extensions and shims: constants and interposed symbols.
- Interfaces, overlays, policy, `vintf`, `usb`: no program.

## What is left

Sensor events and their debounce in `Doze`; key handler and dialog composed, so
that what the dialog shows is what is in force; doze pulses and `onDestroy` of
the dialog plugin; the destructor of the sensor.
