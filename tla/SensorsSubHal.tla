--------------------------- MODULE SensorsSubHal ---------------------------
(***************************************************************************)
(* The sensors sub-HAL (sensors/SensorsSubHal.cpp) around its one sensor,  *)
(* from the construction of the sensor on.  The base class Sensor starts   *)
(* the run thread in its constructor and run() is virtual: a thread that   *)
(* is dispatched before the constructor of UdfpsSensor begins runs         *)
(* Sensor::run, modelled here; one dispatched later runs UdfpsSensor::run, *)
(* which module UdfpsSensor models and shows to keep to OneShotSensor.     *)
(* Sensor::run holds mRunMutex but for its waits, so that one round of its *)
(* loop is one step, and so is each call.                                  *)
(***************************************************************************)
EXTENDS Naturals

CONSTANTS Handles,      \* sensor handles that the framework may name
          MaxHalCalls,  \* bound: calls of the sub-HAL
          MaxPosts      \* bound: events posted by Sensor::run

FirstHandle == 1

OperationModes == {"NORMAL", "DATA_INJECTION"}

VARIABLES
    built,        \* the class whose constructor is done: "Sensor", or "UdfpsSensor"
    runs,         \* the run() the thread was dispatched to
    mSensors,     \* handles of the sensors that can be called
    mCallback,    \* whether the sub-HAL knows the framework's callback
    mIsEnabled, mMode, mStopThread,
    armed,        \* whether UdfpsSensor::run may still deliver
    activations,  \* history: times mIsEnabled went from false to true
    posts,        \* history: events posted
    halCalls, result

construction == <<built, runs, mSensors>>
sensor == <<mIsEnabled, mMode, mStopThread, armed, activations, posts>>
subHalVars == <<construction, mCallback, sensor, halCalls, result>>

OneShot == INSTANCE OneShotSensor WITH events <- posts

SubHalTypeOK ==
    /\ built \in {"Sensor", "UdfpsSensor"} /\ runs \in {"none", "Sensor", "UdfpsSensor"}
    /\ mSensors \subseteq {FirstHandle} /\ mCallback \in BOOLEAN
    /\ mIsEnabled \in BOOLEAN /\ mMode \in OperationModes /\ mStopThread \in BOOLEAN
    /\ armed \in BOOLEAN /\ activations \in Nat /\ posts \in Nat
    /\ halCalls \in Nat
    /\ result \in {"none", "OK", "BAD_VALUE", "INVALID_OPERATION"}

\* The end of Sensor's constructor, in which the thread was started.
SubHalInit ==
    /\ built = "Sensor" /\ runs = "none"
    /\ mSensors = {} /\ mCallback = FALSE
    /\ mIsEnabled = FALSE /\ mMode = "NORMAL" /\ mStopThread = FALSE
    /\ OneShot!Init
    /\ halCalls = 0 /\ result = "none"

-----------------------------------------------------------------------------
\* startThread: sensor->run() is what the virtual table says at this moment.
Dispatch ==
    /\ runs = "none"
    /\ runs' = built
    /\ UNCHANGED <<built, mSensors, mCallback, sensor, halCalls, result>>

\* The constructors of OneShotSensor and UdfpsSensor, which stops the thread when
\* it gets no pipe or node, and AddSensor.
Construct ==
    /\ built = "Sensor"
    /\ built' = "UdfpsSensor"
    /\ mStopThread' \in BOOLEAN
    /\ mSensors' = {FirstHandle}
    /\ UNCHANGED <<runs, mCallback, mIsEnabled, mMode, armed, activations, posts, halCalls, result>>

HalCall(returned) ==
    /\ built = "UdfpsSensor" /\ halCalls < MaxHalCalls
    /\ halCalls' = halCalls + 1
    /\ result' = returned
    /\ UNCHANGED construction

Initialize ==
    /\ HalCall("OK")
    /\ mCallback' = TRUE /\ mMode' = "NORMAL"
    /\ UNCHANGED <<mIsEnabled, mStopThread, armed, activations, posts>>

SetOperationMode(mode) ==
    /\ mCallback /\ HalCall("OK")
    /\ mMode' = mode
    /\ UNCHANGED <<mCallback, mIsEnabled, mStopThread, armed, activations, posts>>

Activated(enable) ==
    /\ mIsEnabled' = enable
    /\ IF enable /\ ~mIsEnabled THEN OneShot!Activate ELSE UNCHANGED <<armed, activations, posts>>
    /\ UNCHANGED <<mCallback, mMode, mStopThread>>

\* The framework activates sensors only after it has initialized the sub-HAL.
SubHalActivate(handle, enable) ==
    /\ mCallback
    /\ IF handle \in mSensors THEN HalCall("OK") /\ Activated(enable)
                              ELSE HalCall("BAD_VALUE") /\ UNCHANGED <<mCallback, sensor>>

\* batch() does nothing and flush() refuses for a one-shot sensor.  Events are
\* injected into no sensor: this one has no DATA_INJECTION flag, and additional
\* information is only accepted.
Batch(handle) == HalCall(IF handle \in mSensors THEN "OK" ELSE "BAD_VALUE")
Flush(handle) == HalCall("BAD_VALUE")
Inject(handle, additional) ==
    HalCall(IF handle \notin mSensors THEN "BAD_VALUE"
            ELSE IF additional THEN "OK" ELSE "INVALID_OPERATION")
DirectChannel == HalCall("INVALID_OPERATION")

NoEffect ==
    /\ \/ \E h \in Handles : Batch(h) \/ Flush(h) \/ \E additional \in BOOLEAN : Inject(h, additional)
       \/ DirectChannel
    /\ UNCHANGED <<mCallback, sensor>>

-----------------------------------------------------------------------------
Samples == mIsEnabled /\ mMode = "NORMAL"

\* Sensor::run: the sampling period is 0, since batch() sets none for a one-shot
\* sensor, so that every round posts an event and none is the last.
SensorRun ==
    /\ runs = "Sensor" /\ ~mStopThread /\ Samples /\ posts < MaxPosts
    /\ posts' = posts + 1
    /\ UNCHANGED <<construction, mCallback, mIsEnabled, mMode, mStopThread, armed, activations,
                   halCalls, result>>

\* UdfpsSensor::run, as far as OneShotSensor tells.
UdfpsRun ==
    /\ runs = "UdfpsSensor" /\ ~mStopThread
    /\ \/ OneShot!Fire /\ mIsEnabled' = FALSE
       \/ OneShot!Disarm /\ ~mIsEnabled /\ UNCHANGED mIsEnabled
    /\ UNCHANGED <<construction, mCallback, mMode, mStopThread, halCalls, result>>

SubHalNext ==
    \/ Dispatch \/ Construct
    \/ Initialize \/ NoEffect
    \/ \E mode \in OperationModes : SetOperationMode(mode)
    \/ \E h \in Handles, enable \in BOOLEAN : SubHalActivate(h, enable)
    \/ SensorRun \/ UdfpsRun

SubHalSpec == SubHalInit /\ [][SubHalNext]_subHalVars

-----------------------------------------------------------------------------
\* The sensor has the flag ONE_SHOT_MODE (Sensor.cpp, OneShotSensor): the framework
\* never gets more events than it activated the sensor for.  A thread that is
\* dispatched before the constructors of OneShotSensor and UdfpsSensor runs
\* Sensor::run for good, which posts without end.
OneShotKept == posts <= activations
=============================================================================
