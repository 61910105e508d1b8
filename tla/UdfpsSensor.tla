---------------------------- MODULE UdfpsSensor ----------------------------
(***************************************************************************)
(* The under-display fingerprint sensor of the sensors sub-HAL             *)
(* (sensors/Sensor.cpp, class UdfpsSensor).  HAL threads call activate and *)
(* setOperationMode; a run thread sleeps on a condition variable while the *)
(* sensor is off, and in poll(2) on a pipe and on the sysfs node fp_state  *)
(* while it is on.  mRunMutex is released during both waits, so what the   *)
(* thread saw before a wait may be stale after it.                         *)
(*                                                                         *)
(* The model starts when the constructor has returned and the thread has   *)
(* been dispatched to UdfpsSensor::run.  The byte value written to the     *)
(* pipe, the coordinates and the event layout are abstracted away.         *)
(***************************************************************************)
EXTENDS Naturals, FiniteSets

CONSTANTS Callers,   \* HAL threads that call into the sensor
          PipeCap,   \* bytes the wait pipe holds before write(2) blocks
          MaxCalls,  \* bound: number of activate / setOperationMode calls
          Faults,    \* whether poll(2) and the sysfs read may fail
          Run        \* the run thread, as an owner of the mutex

ASSUME ConstantsAssumption ==
    /\ Run \notin Callers
    /\ PipeCap \in Nat \ {0}
    /\ MaxCalls \in Nat
    /\ Faults \in BOOLEAN

Nobody == "nobody"
ASSUME NobodyAssumption == Nobody \notin Callers \cup {Run}

Modes == {"NORMAL", "DATA_INJECTION"}

VARIABLES
    lock,         \* owner of mRunMutex
    mIsEnabled, mMode, mStopThread,
    reportEvent,  \* local of run(): has this arming been polled once?
    revents,      \* what the last poll returned: "pipe", "fp", "error"
    rpc,          \* where the run thread is
    cpc,          \* where each caller is: idle, what it called, or what is left to do
    pipe,         \* bytes in mWaitPipeFd
    pipeOpen,     \* whether pipe(2) succeeded in the constructor
    fingerDown,   \* the state fp_state shows when it is read
    fpEvent,      \* unread sysfs notification; where run() was when it was raised
    calls,        \* calls made so far
    activations,  \* history: times mIsEnabled went from false to true
    posts         \* history: events handed to postEvents

sensorVars == <<mIsEnabled, mMode, mStopThread>>
threadVars == <<reportEvent, revents, rpc>>
callerVars == <<cpc, calls>>
touchVars  == <<fingerDown, fpEvent>>
histVars   == <<activations, posts>>
pipeVars   == <<pipe, pipeOpen>>
vars == <<lock, sensorVars, threadVars, callerVars, touchVars, histVars, pipeVars>>

RunPCs    == {"start", "loop", "wait", "woken", "poll", "relock", "handle", "done"}
CallerPCs == {"idle", "enable", "disable", "interruptLocked", "interrupt"} \cup Modes

TypeOK ==
    /\ lock \in Callers \cup {Run, Nobody}
    /\ mIsEnabled \in BOOLEAN /\ mMode \in Modes /\ mStopThread \in BOOLEAN
    /\ reportEvent \in BOOLEAN
    /\ revents \in SUBSET {"pipe", "fp", "error"}
    /\ rpc \in RunPCs
    /\ cpc \in [Callers -> CallerPCs]
    /\ pipe \in 0..PipeCap /\ pipeOpen \in BOOLEAN
    /\ fingerDown \in BOOLEAN
    /\ fpEvent \in {"none", "parked", "live"}
    /\ calls \in 0..MaxCalls
    /\ activations \in Nat /\ posts \in Nat

(* If pipe(2) or open(2) failed the constructor set mStopThread. *)
Init ==
    /\ lock = Nobody
    /\ mIsEnabled = FALSE /\ mMode = "NORMAL"
    /\ mStopThread \in (IF Faults THEN BOOLEAN ELSE {FALSE})
    /\ pipeOpen \in (IF mStopThread THEN BOOLEAN ELSE {TRUE})
    /\ reportEvent = FALSE /\ revents = {} /\ rpc = "start"
    /\ cpc = [c \in Callers |-> "idle"]
    /\ pipe = 0
    /\ fingerDown = FALSE
    /\ fpEvent = "parked"   \* the first poll after open reports the node ready
    /\ calls = 0 /\ activations = 0 /\ posts = 0

-----------------------------------------------------------------------------
(* HAL threads *)

(* Seeded fault: the thread looks at the mode only. *)
RunningByMode == mMode = "NORMAL"

Running == mIsEnabled /\ mMode = "NORMAL"

(* Seeded fault: the condition variable is never notified. *)
NotifyNobody == UNCHANGED rpc

(* mWaitCV.notify_all() wakes the run thread only if it is already waiting. *)
NotifyAll == rpc' = IF rpc = "wait" THEN "woken" ELSE rpc

(* interruptPoll(): a blocking write of one byte, no-op without a pipe. *)
InterruptPoll ==
    /\ pipeOpen => pipe < PipeCap
    /\ pipe' = IF pipeOpen THEN pipe + 1 ELSE pipe
    /\ UNCHANGED pipeOpen

Call(c, op) ==
    /\ cpc[c] = "idle" /\ calls < MaxCalls
    /\ cpc' = [cpc EXCEPT ![c] = op]
    /\ calls' = calls + 1
    /\ UNCHANGED <<lock, sensorVars, threadVars, touchVars, histVars, pipeVars>>

CallActivate(c) == \E op \in {"enable", "disable"} : Call(c, op)
CallSetOperationMode(c) == \E mode \in Modes : Call(c, mode)

(* activate under the lock, nothing to change. *)
ActivateNoChange(c) ==
    /\ cpc[c] = (IF mIsEnabled THEN "enable" ELSE "disable") /\ lock = Nobody
    /\ cpc' = [cpc EXCEPT ![c] = "idle"]
    /\ UNCHANGED <<lock, sensorVars, threadVars, calls, touchVars, histVars, pipeVars>>

(* activate takes the lock and flips mIsEnabled; the write is still to come. *)
ActivateChange(c) ==
    /\ cpc[c] = (IF mIsEnabled THEN "disable" ELSE "enable") /\ lock = Nobody
    /\ lock' = c
    /\ mIsEnabled' = ~mIsEnabled
    /\ activations' = IF mIsEnabled THEN activations ELSE activations + 1
    /\ cpc' = [cpc EXCEPT ![c] = "interruptLocked"]
    /\ UNCHANGED <<mMode, mStopThread, threadVars, calls, touchVars, posts, pipeVars>>

(* ... then writes to the pipe with the lock held, notifies and unlocks. *)
ActivateInterrupt(c) ==
    /\ cpc[c] = "interruptLocked"
    /\ InterruptPoll
    /\ NotifyAll
    /\ lock' = Nobody
    /\ cpc' = [cpc EXCEPT ![c] = "idle"]
    /\ UNCHANGED <<sensorVars, reportEvent, revents, calls, touchVars, histVars>>

(* Sensor::setOperationMode: the locked part, notify included. *)
SetMode(c) ==
    /\ cpc[c] \in Modes /\ lock = Nobody
    /\ mMode' = cpc[c]
    /\ IF mMode # cpc[c] THEN NotifyAll ELSE UNCHANGED rpc
    /\ cpc' = [cpc EXCEPT ![c] = "interrupt"]
    /\ UNCHANGED <<lock, mIsEnabled, mStopThread, reportEvent, revents, calls,
                   touchVars, histVars, pipeVars>>

(* UdfpsSensor::setOperationMode: interrupts always, and without the lock. *)
SetModeInterrupt(c) ==
    /\ cpc[c] = "interrupt"
    /\ InterruptPoll
    /\ cpc' = [cpc EXCEPT ![c] = "idle"]
    /\ UNCHANGED <<lock, sensorVars, threadVars, calls, touchVars, histVars>>

-----------------------------------------------------------------------------
(* The run thread *)

RunStart ==
    /\ rpc = "start" /\ lock = Nobody
    /\ lock' = Run /\ rpc' = "loop"
    /\ UNCHANGED <<sensorVars, reportEvent, revents, callerVars, touchVars, histVars, pipeVars>>

RunExit ==
    /\ rpc = "loop" /\ mStopThread
    /\ lock' = Nobody /\ rpc' = "done"
    /\ UNCHANGED <<sensorVars, reportEvent, revents, callerVars, touchVars, histVars, pipeVars>>

(* Seeded fault: the arming survives a park. *)
RunParkStillArmed ==
    /\ rpc = "loop" /\ ~mStopThread /\ ~Running
    /\ lock' = Nobody /\ rpc' = "wait"
    /\ UNCHANGED <<sensorVars, reportEvent, revents, callerVars, touchVars, histVars, pipeVars>>

(* Disabled or injecting: forget the arming and wait on the condition variable. *)
RunPark ==
    /\ rpc = "loop" /\ ~mStopThread /\ ~Running
    /\ reportEvent' = FALSE
    /\ lock' = Nobody /\ rpc' = "wait"
    /\ UNCHANGED <<sensorVars, revents, callerVars, touchVars, histVars, pipeVars>>

SpuriousWakeup ==
    /\ rpc = "wait" /\ rpc' = "woken"
    /\ UNCHANGED <<lock, sensorVars, reportEvent, revents, callerVars, touchVars,
                   histVars, pipeVars>>

(* The wait's predicate is evaluated with the lock held again. *)
RunRecheck ==
    /\ rpc = "woken" /\ lock = Nobody
    /\ IF Running \/ mStopThread THEN lock' = Run /\ rpc' = "loop"
                                 ELSE rpc' = "wait" /\ UNCHANGED lock
    /\ UNCHANGED <<sensorVars, reportEvent, revents, callerVars, touchVars, histVars, pipeVars>>

(* Seeded fault: the mutex is held across poll(2). *)
RunPollLocked ==
    /\ rpc = "loop" /\ ~mStopThread /\ Running
    /\ rpc' = "poll"
    /\ UNCHANGED <<lock, sensorVars, reportEvent, revents, callerVars, touchVars, histVars,
                   pipeVars>>

RunUnlockAndPoll ==
    /\ rpc = "loop" /\ ~mStopThread /\ Running
    /\ lock' = Nobody /\ rpc' = "poll"
    /\ UNCHANGED <<sensorVars, reportEvent, revents, callerVars, touchVars, histVars, pipeVars>>

PollReady == (IF pipe > 0 THEN {"pipe"} ELSE {}) \cup (IF fpEvent # "none" THEN {"fp"} ELSE {})

PollReturns ==
    /\ rpc = "poll" /\ PollReady # {}
    /\ revents' = PollReady /\ rpc' = "relock"
    /\ UNCHANGED <<lock, sensorVars, reportEvent, callerVars, touchVars, histVars, pipeVars>>

PollFails ==
    /\ Faults /\ rpc = "poll"
    /\ revents' = {"error"} /\ rpc' = "relock"
    /\ UNCHANGED <<lock, sensorVars, reportEvent, callerVars, touchVars, histVars, pipeVars>>

RunRelock ==
    /\ rpc = "relock" /\ lock = Nobody
    /\ lock' = Run /\ rpc' = "handle"
    /\ UNCHANGED <<sensorVars, reportEvent, revents, callerVars, touchVars, histVars, pipeVars>>

HandlePollError ==
    /\ rpc = "handle" /\ "error" \in revents
    /\ mStopThread' = TRUE /\ rpc' = "loop"
    /\ UNCHANGED <<lock, mIsEnabled, mMode, reportEvent, revents, callerVars, touchVars,
                   histVars, pipeVars>>

(* Seeded fault: a press that arrives together with an interrupt is swallowed. *)
PressSeenAlone == "fp" \in revents /\ "pipe" \notin revents /\ fingerDown

(* readFpState() consumes the notification, a failing read may leave it. *)
PressSeen == "fp" \in revents /\ fingerDown

(* Seeded fault: the sensor stays enabled after its event. *)
ReportPressStayEnabled ==
    /\ rpc = "handle" /\ PressSeen /\ reportEvent
    /\ posts' = posts + 1
    /\ fpEvent' = "none" /\ rpc' = "loop"
    /\ UNCHANGED <<lock, sensorVars, reportEvent, revents, callerVars, fingerDown,
                   activations, pipeVars>>

ReportPress ==
    /\ rpc = "handle" /\ PressSeen /\ reportEvent
    /\ mIsEnabled' = FALSE
    /\ posts' = posts + 1
    /\ fpEvent' = "none" /\ rpc' = "loop"
    /\ UNCHANGED <<lock, mMode, mStopThread, reportEvent, revents, callerVars, fingerDown,
                   activations, pipeVars>>

DrainAndArm ==
    /\ pipe' = IF "pipe" \in revents THEN pipe - 1 ELSE pipe
    /\ reportEvent' = TRUE /\ rpc' = "loop"
    /\ UNCHANGED <<lock, sensorVars, revents, callerVars, fingerDown, histVars, pipeOpen>>

HandleNoReport ==
    /\ rpc = "handle" /\ "error" \notin revents /\ ~(PressSeen /\ reportEvent)
    /\ fpEvent' = IF "fp" \in revents THEN "none" ELSE fpEvent
    /\ DrainAndArm

HandleReadFailure ==
    /\ Faults /\ rpc = "handle" /\ "fp" \in revents
    /\ UNCHANGED fpEvent
    /\ DrainAndArm

-----------------------------------------------------------------------------
(* The display driver: each change of fp_state raises a sysfs notification. *)

FingerChange ==
    /\ fingerDown' = ~fingerDown
    /\ fpEvent' = IF rpc \in {"wait", "woken"} THEN "parked" ELSE "live"
    /\ UNCHANGED <<lock, sensorVars, threadVars, callerVars, histVars, pipeVars>>

-----------------------------------------------------------------------------
CallerStep(c) ==
    \/ CallActivate(c) \/ CallSetOperationMode(c)
    \/ ActivateNoChange(c) \/ ActivateChange(c) \/ ActivateInterrupt(c)
    \/ SetMode(c) \/ SetModeInterrupt(c)

RunStep ==
    \/ RunStart \/ RunExit \/ RunPark \/ RunRecheck \/ RunUnlockAndPoll
    \/ PollReturns \/ RunRelock
    \/ HandlePollError \/ ReportPress \/ HandleNoReport \/ HandleReadFailure

Next ==
    \/ \E c \in Callers : CallerStep(c)
    \/ RunStep \/ SpuriousWakeup \/ PollFails \/ FingerChange

Spec == Init /\ [][Next]_vars

(***************************************************************************)
(* Fairness.  The run thread and a caller inside a call are scheduled, so  *)
(* their steps are weakly fair.  Taking mRunMutex is strongly fair: the    *)
(* thread gives it up for the whole of each wait, which is long compared   *)
(* with the critical sections.  Calls, touches and failures are not fair.  *)
(***************************************************************************)
Fairness ==
    /\ WF_vars(RunStep)
    /\ SF_vars(RunStart \/ RunRecheck \/ RunRelock)
    /\ \A c \in Callers :
          /\ SF_vars(ActivateNoChange(c) \/ ActivateChange(c) \/ SetMode(c))
          /\ WF_vars(ActivateInterrupt(c) \/ SetModeInterrupt(c))

FairSpec == Spec /\ Fairness

-----------------------------------------------------------------------------
(* Properties *)

(* The run thread may still deliver: the sensor is on, or a poll cycle that *)
(* was entered while it was on has not been finished.                       *)
Armed == mIsEnabled \/ rpc \in {"poll", "relock", "handle"}

(* However activate(true), activate(false), mode changes, interrupts and    *)
(* touches interleave, each false-to-true activation yields at most one     *)
(* event, counting the one that a poll cycle in progress may still yield.   *)
AtMostOnePerActivation == posts + (IF Armed THEN 1 ELSE 0) <= activations

(* The thread cannot sleep through a change: if the sensor was switched off *)
(* or to injection while the thread polls, a byte that ends the poll is in  *)
(* the pipe or a caller is about to write one.                              *)
PollInterrupted ==
    rpc = "poll" /\ ~Running =>
        pipe > 0 \/ \E c \in Callers : cpc[c] \in {"interruptLocked", "interrupt"}

(* No lost notification: the thread sleeps on the condition variable of a   *)
(* runnable sensor only while the enabling caller still holds the lock.     *)
NoLostNotify ==
    rpc = "wait" /\ Running => \E c \in Callers : lock = c /\ cpc[c] = "interruptLocked"

(* Neither of the thread's two waits can be slept through.                  *)
NothingSleptThrough == PollInterrupted /\ NoLostNotify

(* The sensor implements the one-shot contract.                             *)
OneShot == INSTANCE OneShotSensor WITH armed <- Armed, activations <- activations, events <- posts
ImplementsOneShot == OneShot!Spec

(* A touch notified while the thread was parked is never delivered, even if *)
(* the finger is still down: the first poll after a park only arms.         *)
NoParkedTouchDelivered == [][posts' # posts => fpEvent = "live"]_vars

(* Once a poll of this arming was handled, a press is delivered unless the  *)
(* sensor is switched off or the finger is lifted first.                    *)
PressPending == Running /\ reportEvent /\ fpEvent = "live" /\ fingerDown
PressDelivered ==
    \A n \in 0..MaxCalls :
        posts = n /\ PressPending ~> posts > n \/ ~Running \/ ~fingerDown

(* Every activate and setOperationMode returns (given that the run makes no *)
(* more calls than the pipe holds bytes).                                   *)
CallsReturn == \A c \in Callers : cpc[c] # "idle" ~> cpc[c] = "idle"
=============================================================================
