------------------------------ MODULE Vibrator ------------------------------
(***************************************************************************)
(* The force-feedback side of the QTI vibrator HAL                         *)
(* (aidl/vibrator/qti/Vibrator.cpp, class InputFFDevice, reached through   *)
(* Vibrator::on, off and perform).  The service has a single binder        *)
(* thread, so calls do not overlap; the input driver ends effects on its   *)
(* own, and every ioctl and write may fail.  Module VibratorHal adds the   *)
(* strength, on which no step of play() depends, and the LED device.       *)
(***************************************************************************)
EXTENDS Integers, FiniteSets

CONSTANTS Slots,      \* effect ids the input driver can hold for this client
          Timeouts,   \* lengths, in ms, that on() is called with
          Pattern,    \* length of a predefined effect, known to the driver
          ReplayMod,  \* 2^16: ff_replay.length is an unsigned 16-bit field
          MaxCalls    \* bound: number of calls

ASSUME ConstantsAssumption ==
    /\ IsFiniteSet(Slots)
    /\ Timeouts \subseteq Nat
    /\ Pattern \in Nat \ {0}
    /\ ReplayMod \in Nat \ {0}
    /\ MaxCalls \in Nat

NoId == "INVALID_VALUE"
ASSUME NoIdAssumption == NoId \notin Slots

VARIABLES
    mCurrAppId,     \* the effect the HAL believes is uploaded, or NoId
    uploaded,       \* driver: the effect ids in use
    length,         \* driver: replay length of each uploaded effect, 0 for endless
    playing,        \* driver: the effects the motor is running
    failedRemoves,  \* history: EVIOCRMFF ioctls that failed
    calls,          \* calls made so far
    reply           \* history: the last call, its timeout and whether it returned 0

driver == <<uploaded, length, playing>>
vars == <<mCurrAppId, driver, failedRemoves, calls, reply>>

TypeOK ==
    /\ mCurrAppId \in Slots \cup {NoId}
    /\ uploaded \subseteq Slots
    /\ playing \subseteq uploaded
    /\ length \in [Slots -> 0 .. ReplayMod - 1]
    /\ failedRemoves \in Nat
    /\ calls \in Nat
    /\ reply \in [call : {"none", "on", "off", "perform"}, ms : Nat, ok : BOOLEAN]

Init ==
    /\ mCurrAppId = NoId
    /\ uploaded = {}
    /\ length = [s \in Slots |-> 0]
    /\ playing = {}
    /\ failedRemoves = 0
    /\ calls = 0
    /\ reply = [call |-> "none", ms |-> 0, ok |-> TRUE]

-----------------------------------------------------------------------------
\* What EVIOCRMFF of the current effect leaves of a set of driver effects.
\* Seeded fault: a new effect is uploaded over an old one that is not removed.
NothingCleared(effects) == effects
Cleared(effects) == effects \ {mCurrAppId}

SetCurrAppId(id) == mCurrAppId' = id

\* effect.replay.length = timeoutMs
ReplayLength(ms) == ms % ReplayMod

\* play(), when EVIOCRMFF of the current effect fails: it is given up for lost,
\* whether or not the driver still runs it.
RemoveFails(ret) ==
    /\ mCurrAppId # NoId
    /\ ret = -1
    /\ SetCurrAppId(NoId)
    /\ failedRemoves' = failedRemoves + 1
    /\ playing' \in {playing, Cleared(playing)}
    /\ UNCHANGED <<uploaded, length>>

\* play(timeoutMs = 0), nothing left to remove or removed.
Stopped(ret) ==
    /\ ret = 0
    /\ SetCurrAppId(NoId)
    /\ uploaded' = Cleared(uploaded)
    /\ playing' = Cleared(playing)
    /\ UNCHANGED <<length, failedRemoves>>

\* play(timeoutMs # 0): the old effect is removed, EVIOCSFF of the new one fails.
UploadFails(ret) == ret = -1 /\ Stopped(0)

\* EVIOCSFF picks a free id and write() starts the effect.
Started(ms, ret) ==
    /\ ret = 0
    /\ \E id \in Slots \ Cleared(uploaded) :
          /\ SetCurrAppId(id)
          /\ uploaded' = Cleared(uploaded) \cup {id}
          /\ length' = [length EXCEPT ![id] = ReplayLength(ms)]
          /\ playing' = Cleared(playing) \cup {id}
    /\ UNCHANGED failedRemoves

\* write() fails and the upload is undone: ret is then what EVIOCRMFF returned.
StartFails(ret) ==
    /\ Slots \ Cleared(uploaded) # {}
    /\ Stopped(0)
    /\ ret = 0

\* write() fails, and so does the ioctl that undoes the upload.
UndoFails(ms, ret) ==
    /\ ret = -1
    /\ SetCurrAppId(NoId)
    /\ \E id \in Slots \ Cleared(uploaded) :
          /\ uploaded' = Cleared(uploaded) \cup {id}
          /\ length' = [length EXCEPT ![id] = ReplayLength(ms)]
    /\ playing' = Cleared(playing)
    /\ failedRemoves' = failedRemoves + 1

\* InputFFDevice::play: what one call does to the driver, and what it returns.
play(ms, ret) ==
    \/ RemoveFails(ret)
    \/ ms = 0 /\ Stopped(ret)
    \/ ms # 0 /\ UploadFails(ret)
    \/ ms # 0 /\ Started(ms, ret)
    \/ ms # 0 /\ StartFails(ret)
    \/ ms # 0 /\ UndoFails(ms, ret)

Call(name, ms) ==
    /\ calls < MaxCalls
    /\ calls' = calls + 1
    /\ \E ret \in {0, -1} :
          /\ play(ms, ret)
          /\ reply' = [call |-> name, ms |-> ms, ok |-> ret = 0]

on(timeoutMs) == Call("on", timeoutMs)
off == Call("off", 0)
\* A predefined effect: its timeout is INVALID_VALUE, its length the driver's.
perform == Call("perform", Pattern)

\* The driver reaches the end of an effect; a replay length of 0 has none.
EffectEnds(id) ==
    /\ id \in playing
    /\ length[id] # 0
    /\ playing' = playing \ {id}
    /\ UNCHANGED <<mCurrAppId, uploaded, length, failedRemoves, calls, reply>>

Next ==
    \/ \E ms \in Timeouts : on(ms)
    \/ off
    \/ perform
    \/ \E id \in Slots : EffectEnds(id)

Spec == Init /\ [][Next]_vars

-----------------------------------------------------------------------------
\* The effect the HAL will remove next is one it did upload: mCurrAppId is
\* reset on every error path of play(), whatever failed there.
CurrentIsUploaded == mCurrAppId # NoId => mCurrAppId \in uploaded

\* The driver's effect table is finite.  play() gives up an effect only when
\* EVIOCRMFF failed, so it loses at most one slot for each such failure,
\* however many uploads and starts have failed in between.
LostSlotsAccounted == Cardinality(uploaded \ {mCurrAppId}) <= failedRemoves

\* As long as no removal failed, an off() that reports success leaves the
\* motor silent, and so does any request that reports an error: what runs is
\* always the effect of the last request that was accepted.
StoppedMeansSilent ==
    [][calls' # calls /\ failedRemoves' = 0
         /\ (reply'.call = "off" \/ ~reply'.ok) => playing' = {}]_vars
=============================================================================
