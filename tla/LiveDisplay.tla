----------------------------- MODULE LiveDisplay -----------------------------
(***************************************************************************)
(* The LiveDisplay service (aidl/livedisplay).  setDisplayMode sets a      *)
(* mode in the panel and in the display controller and may make it the     *)
(* default, which a file keeps for the next start; three features are      *)
(* switched in the panel.  The panel and the controller may refuse: a      *)
(* feature passes to its next control and in the end to an error, while    *)
(* setDisplayMode does not look.  Binder threads serve the calls, with no  *)
(* lock to keep them apart.  The process may die at any point and start    *)
(* again; panel, controller and file keep what they have.                  *)
(***************************************************************************)
EXTENDS Integers

CONSTANTS LiveThreads,
          MaxSets  \* bound: calls of setDisplayMode and setEnabled

ASSUME LiveAssumption == MaxSets \in Nat

kModeMap == [id \in 0 .. 3 |-> <<[display |-> 0, seed |-> 0], [display |-> 1, seed |-> 1],
                                 [display |-> 0, seed |-> 1], [display |-> 4, seed |-> 0]>>[id + 1]]
Modes == DOMAIN kModeMap

\* The panel's controls that a feature may be switched with, tried in order.
Controls == [AntiFlicker |-> <<"PWM_PULSE", "PWM_TURBO", "DIMLAYER_BL_EN">>,
             SunlightEnhancement |-> <<"HBM">>, AdaptiveBacklight |-> <<"CABC">>]
Features == DOMAIN Controls
\* The service is built with the features that the panel has; which of the
\* three controls switches the flicker is only tried out.
Panels == {flicker \cup {"HBM", "CABC"} : flicker \in SUBSET {"PWM_PULSE", "PWM_TURBO", "DIMLAYER_BL_EN"}}

NoDefault == -1  \* the file is empty

VARIABLES
    supported,       \* controls that the panel has
    seed, display,   \* panel: seed mode; controller: active mode
    control,         \* controls that are on
    defaultFile,     \* its contents
    serving,         \* has the process started, and not died?
    mCurrentModeId, mDefaultModeId,
    lpc, arg,        \* per thread: where it is, and with which arguments
    sets,
    torn,            \* history, per thread: another one got in its way, or it
                     \* had to pass to a feature's next control
    mixed,           \* history: the last call to set the mode was torn
    seedMissed, displayMissed,  \* history: it was refused when it was last set
    among,           \* history: several calls had the file open
    unsaved,         \* history: the file was left unfinished
    answered,        \* history: what setEnabled last answered ok to, per feature
    doubtful         \* history: features whose last answer was a torn call's, or
                     \* that were switched by a call that died unanswered

mode    == <<seed, display, mCurrentModeId, mixed, seedMissed, displayMissed>>
default == <<defaultFile, mDefaultModeId, among, unsaved>>
feature == <<control, answered, doubtful>>
liveVars == <<supported, serving, lpc, arg, sets, torn, mode, default, feature>>

\* The arguments of setDisplayMode, and of setEnabled with what it read first.
ModeArg(id, makeDefault) ==
    [mode |-> id, makeDefault |-> makeDefault, feature |-> "AntiFlicker", on |-> FALSE, was |-> FALSE]
FeatureArg(f, on, was) ==
    [mode |-> 0, makeDefault |-> FALSE, feature |-> f, on |-> on, was |-> was]
NoCall == ModeArg(0, FALSE)

LiveInit ==
    /\ supported \in Panels
    /\ seed = 0 /\ display = 0 /\ control = {} /\ defaultFile = NoDefault
    /\ serving = FALSE /\ mCurrentModeId = 0 /\ mDefaultModeId = 0
    /\ lpc = [t \in LiveThreads |-> "idle"] /\ arg = [t \in LiveThreads |-> NoCall]
    /\ sets = 0
    /\ torn = [t \in LiveThreads |-> FALSE] /\ mixed = FALSE
    /\ seedMissed = FALSE /\ displayMissed = FALSE
    /\ among = FALSE /\ unsaved = FALSE
    /\ answered = [f \in Features |-> "nothing"] /\ doubtful = {}

LiveGoto(t, label) == lpc' = [lpc EXCEPT ![t] = label] /\ UNCHANGED arg
Return(t) == lpc' = [lpc EXCEPT ![t] = "idle"] /\ arg' = [arg EXCEPT ![t] = NoCall]

-----------------------------------------------------------------------------
\* The panel's seed mode is set, or is not: there is no panel, or it refuses.
PutSeed(id) ==
    \/ seed' = kModeMap[id].seed /\ seedMissed' = FALSE
    \/ UNCHANGED seed /\ seedMissed' = TRUE

\* Likewise the controller's mode.
PutDisplay(id) ==
    \/ display' = kModeMap[id].display /\ displayMissed' = FALSE
    \/ UNCHANGED display /\ displayMissed' = TRUE

\* main and the constructor: the default, 0 if there is none, is set before
\* the service can be called.
Start ==
    /\ ~serving /\ serving' = TRUE
    /\ mDefaultModeId' = IF defaultFile = NoDefault THEN 0 ELSE defaultFile
    /\ mCurrentModeId' = mDefaultModeId'
    /\ PutSeed(mDefaultModeId') /\ PutDisplay(mDefaultModeId')
    /\ mixed' = FALSE /\ unsaved' = FALSE
    /\ UNCHANGED <<supported, lpc, arg, sets, torn, defaultFile, among, feature>>

Call(t, label, a) ==
    /\ serving /\ lpc[t] = "idle" /\ sets < MaxSets
    /\ sets' = sets + 1
    /\ lpc' = [lpc EXCEPT ![t] = label] /\ arg' = [arg EXCEPT ![t] = a]
    /\ UNCHANGED <<supported, serving>>

\* A mode that is not in the map is refused and changes nothing.
setDisplayMode(t) ==
    /\ \E id \in Modes, makeDefault \in BOOLEAN : Call(t, "seed", ModeArg(id, makeDefault))
    /\ UNCHANGED <<torn, mode, default, feature>>

Setting == {"display", "current"}  \* where a call is between its first and last write
Tear(t, itself) == torn' = [u \in LiveThreads |-> IF u = t THEN itself
                                                           ELSE torn[u] \/ lpc[u] \in Setting]

SetSeed(t) ==
    /\ lpc[t] = "seed" /\ LiveGoto(t, "display")
    /\ PutSeed(arg[t].mode)
    /\ Tear(t, FALSE)
    /\ UNCHANGED <<supported, serving, sets, display, displayMissed, mCurrentModeId, mixed, default,
                   feature>>

SetActiveDisplayMode(t) ==
    /\ lpc[t] = "display" /\ LiveGoto(t, "current")
    /\ PutDisplay(arg[t].mode)
    /\ Tear(t, torn[t])
    /\ UNCHANGED <<supported, serving, sets, seed, seedMissed, mCurrentModeId, mixed, default,
                   feature>>

SetCurrent(t) ==
    /\ lpc[t] = "current"
    /\ IF arg[t].makeDefault THEN LiveGoto(t, "open") ELSE Return(t)
    /\ mCurrentModeId' = arg[t].mode
    /\ mixed' = torn[t]
    /\ Tear(t, FALSE)
    /\ UNCHANGED <<supported, serving, sets, seed, display, seedMissed, displayMissed, default,
                   feature>>

Saving(t) == lpc[t] \in {"default", "close"}

\* Opening the file empties it; what is written to it is buffered.
OpenDefaultFile(t) ==
    /\ lpc[t] = "open"
    /\ \/ /\ LiveGoto(t, "default") /\ defaultFile' = NoDefault
          /\ among' = (\E u \in LiveThreads \ {t} : Saving(u))
          /\ unsaved' = TRUE
       \/ Return(t) /\ UNCHANGED <<defaultFile, among, unsaved>>
    /\ UNCHANGED <<supported, serving, sets, torn, mode, mDefaultModeId, feature>>

SetDefault(t) ==
    /\ lpc[t] = "default" /\ LiveGoto(t, "close")
    /\ mDefaultModeId' = arg[t].mode
    /\ UNCHANGED <<supported, serving, sets, torn, mode, defaultFile, among, unsaved, feature>>

\* Seeded fault: the file gets the mode's number in the controller.
DisplayModeId(id) == kModeMap[id].display
FileText(id) == id

\* The destructor flushes the file, and nobody looks whether it could.
CloseDefaultFile(t) ==
    /\ lpc[t] = "close" /\ Return(t)
    /\ \/ defaultFile' = FileText(arg[t].mode) /\ unsaved' = among
       \/ UNCHANGED <<defaultFile, unsaved>>
    /\ UNCHANGED <<supported, serving, sets, torn, mode, mDefaultModeId, among, feature>>

-----------------------------------------------------------------------------
Places(f) == {k \in DOMAIN Controls[f] : Controls[f][k] \in supported}

\* The first control of a feature that the panel has, "none" if there is none.
FirstSupported(f) ==
    IF Places(f) = {} THEN "none"
    ELSE Controls[f][CHOOSE k \in Places(f) : \A j \in Places(f) : k <= j]

\* Seeded fault: the last one that the panel has is tried first.
SetThroughLast(f) == Controls[f][CHOOSE k \in Places(f) : \A j \in Places(f) : k >= j]
SetThrough(f) == FirstSupported(f)

\* A control that the panel has may fail too, so that the next one is tried.
Reachable(f) == {Controls[f][k] : k \in Places(f)}

Switching(t, f) == lpc[t] \in {"switch", "reply"} /\ arg[t].feature = f
Cross(t, f, alone) ==
    torn' = [u \in LiveThreads |-> IF u = t THEN ~alone \/ \E o \in LiveThreads \ {t} : Switching(o, f)
                                            ELSE torn[u] \/ Switching(u, f)]

\* getEnabled; setEnabled starts with it, and without a control that can be
\* read that is all.
setEnabled(t) ==
    /\ \E f \in Features, on \in BOOLEAN :
          \/ Call(t, "idle", NoCall) /\ UNCHANGED torn
          \/ \E c \in Reachable(f) :
                /\ Call(t, "switch", FeatureArg(f, on, c \in control))
                /\ Cross(t, f, c = FirstSupported(f))
    /\ UNCHANGED <<mode, default, feature>>

\* If all the controls fail the call returns an error; it has changed nothing.
Switch(t) ==
    LET a == arg[t] IN
    /\ lpc[t] = "switch"
    /\ \/ a.was = a.on /\ LiveGoto(t, "reply") /\ UNCHANGED <<control, torn>>
       \/ /\ a.was # a.on /\ LiveGoto(t, "reply")
          /\ \E c \in Reachable(a.feature) :
                /\ control' = IF a.on THEN control \cup {c} ELSE control \ {c}
                /\ torn' = [torn EXCEPT ![t] = @ \/ c # SetThrough(a.feature)]
       \/ /\ a.was # a.on /\ Return(t)
          /\ torn' = [torn EXCEPT ![t] = FALSE] /\ UNCHANGED control
    /\ UNCHANGED <<supported, serving, sets, mode, default, answered, doubtful>>

ReplyOk(t) ==
    LET f == arg[t].feature IN
    /\ lpc[t] = "reply" /\ Return(t) /\ torn' = [torn EXCEPT ![t] = FALSE]
    /\ answered' = [answered EXCEPT ![f] = IF arg[t].on THEN "on" ELSE "off"]
    /\ doubtful' = IF torn[t] THEN doubtful \cup {f} ELSE doubtful \ {f}
    /\ UNCHANGED <<supported, serving, sets, mode, default, control>>

\* External: the process dies, whatever its threads are doing.
Dies ==
    /\ serving /\ serving' = FALSE
    /\ lpc' = [t \in LiveThreads |-> "idle"] /\ arg' = [t \in LiveThreads |-> NoCall]
    /\ torn' = [t \in LiveThreads |-> FALSE]
    /\ doubtful' = doubtful \cup {arg[t].feature :
                      t \in {u \in LiveThreads : lpc[u] = "reply" /\ arg[u].was # arg[u].on}}
    /\ UNCHANGED <<supported, sets, mode, default, control, answered>>

LiveNext ==
    \/ Start \/ Dies
    \/ \E t \in LiveThreads :
          \/ setDisplayMode(t) \/ SetSeed(t) \/ SetActiveDisplayMode(t) \/ SetCurrent(t)
          \/ OpenDefaultFile(t) \/ SetDefault(t) \/ CloseDefaultFile(t)
          \/ setEnabled(t) \/ Switch(t) \/ ReplyOk(t)

LiveSpec == LiveInit /\ [][LiveNext]_liveVars

-----------------------------------------------------------------------------
\* With no call under way the panel and the controller are in the current mode,
\* but for what they refused, and each feature is, in the control that getEnabled
\* reads first, as was last answered ok to; unless the last answer was given by
\* a call that another one got in the way of, or that had to pass to the next
\* control, or the process died after switching and before answering.
PanelAsAnswered ==
    serving /\ (\A t \in LiveThreads : lpc[t] = "idle") =>
        /\ mixed \/ (/\ seedMissed \/ seed = kModeMap[mCurrentModeId].seed
                     /\ displayMissed \/ display = kModeMap[mCurrentModeId].display)
        /\ \A f \in Features \ doubtful :
              answered[f] # "nothing" => (answered[f] = "on" <=> FirstSupported(f) \in control)

\* Wherever the process dies, it starts again with the default mode it had,
\* unless a call was about to write the file, could not, or wrote it while
\* another one did.
DefaultSurvives ==
    unsaved \/ mDefaultModeId = IF defaultFile = NoDefault THEN 0 ELSE defaultFile
=============================================================================
