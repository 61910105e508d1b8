---------------------------- MODULE VibratorHal ----------------------------
(***************************************************************************)
(* The QTI vibrator service (aidl/vibrator/qti/Vibrator.cpp) as a whole:   *)
(* the force-feedback device of module Vibrator, its strength and external *)
(* control, and the LED class device that takes its place where there is   *)
(* one.  The constructors find out which device there is; the service      *)
(* works without any.  Every step is one of Vibrator, or leaves its        *)
(* variables alone.  The threads that call clients back, each when the     *)
(* time it was given is over, touch no state and are left out.             *)
(***************************************************************************)
EXTENDS Vibrator

CONSTANT Amplitudes  \* (uint8_t)(amplitude * 0xff) of the amplitudes set

ASSUME HalAssumption == Amplitudes \subseteq 0 .. 255

VARIABLES
    device,              \* "led" (ledVib.mDetected), "ff" (mVibraFd) or "none"
    mSupportExternalControl,
    mCurrMagnitude, mInExternalControl,
    gain,                \* driver: FF_GAIN as last written
    level,               \* driver: magnitude of each uploaded effect
    led,                 \* values of the LED device's files
    served,              \* calls served without the force-feedback device
    answer,              \* history: the last of them, and whether it returned ok
    performed            \* history: perform() since the last accepted amplitude

strength == <<mCurrMagnitude, gain, performed>>
hal == <<device, mSupportExternalControl, mInExternalControl, strength, level, led, served, answer>>

LIGHT_MAGNITUDE == 16383
MEDIUM_MAGNITUDE == 24575
STRONG_MAGNITUDE == 32767
Strengths == {LIGHT_MAGNITUDE, MEDIUM_MAGNITUDE, STRONG_MAGNITUDE}

\* The LED device is there when its activate file can be opened, and comes first.
Devices == {"led", "ff", "none"}

Registers == {"vmax", "waveform_index", "duration"}

HalTypeOK ==
    /\ device \in Devices
    /\ mSupportExternalControl \in BOOLEAN /\ mInExternalControl \in BOOLEAN
    /\ mCurrMagnitude \in LIGHT_MAGNITUDE .. STRONG_MAGNITUDE
    /\ gain \in LIGHT_MAGNITUDE .. STRONG_MAGNITUDE
    /\ level \in [Slots -> LIGHT_MAGNITUDE .. STRONG_MAGNITUDE]
    /\ led \in [Registers -> Nat]
    /\ served \in Nat /\ performed \in BOOLEAN
    /\ answer \in [call : {"none", "on", "off", "perform"}, ms : Nat, ok : BOOLEAN]

HalInit ==
    /\ Init
    /\ device \in Devices
    /\ mSupportExternalControl \in IF device = "ff" THEN BOOLEAN ELSE {FALSE}
    /\ mInExternalControl = FALSE
    /\ mCurrMagnitude = STRONG_MAGNITUDE /\ gain = STRONG_MAGNITUDE
    /\ level = [s \in Slots |-> STRONG_MAGNITUDE]
    /\ led = [r \in Registers |-> 0]
    /\ served = 0 /\ answer = reply /\ performed = FALSE

-----------------------------------------------------------------------------
\* A new effect gets the strength of the moment.
Level == level' = IF mCurrAppId' = NoId THEN level
                  ELSE [level EXCEPT ![mCurrAppId'] = mCurrMagnitude']

FfOn(ms) == UNCHANGED strength /\ on(ms) /\ Level

FfOff == UNCHANGED strength /\ off /\ Level

\* playEffect: the strength is taken over before anything is played.
FfPerform(es) ==
    /\ mCurrMagnitude' = es /\ performed' = TRUE /\ UNCHANGED gain
    /\ perform /\ Level

\* A call that does not touch the force-feedback device.
Elsewhere(name, ms, ok) ==
    /\ served < MaxCalls
    /\ served' = served + 1
    /\ answer' = [call |-> name, ms |-> ms, ok |-> ok]

\* For QMAA compliance: without a device all is well.
NoDevice(name, ms) == Elsewhere(name, ms, TRUE) /\ UNCHANGED led

\* The files that could be written have their new value, the others the old.
Written(values, failed) ==
    led' = [r \in Registers |-> IF r \in failed THEN led[r] ELSE values[r]]

Activation == {"state", "activate"}
VMax(ms) == IF ms <= 20 THEN ms * 10 ELSE 1600

\* ret |= write_value(...).  Seeded fault: ret is only that of the last write.
LastWriteOk(failed) == "activate" \notin failed
AllWritesOk(failed) == failed = {}

LedOn(ms) ==
    IF ms = 0
      THEN Elsewhere("on", ms, TRUE) /\ UNCHANGED led
      ELSE \E failed \in SUBSET (Registers \cup Activation) :
             /\ Elsewhere("on", ms, AllWritesOk(failed))
             /\ Written([vmax |-> VMax(ms), waveform_index |-> 7, duration |-> ms], failed)

LedOff == \E ok \in BOOLEAN : Elsewhere("off", 0, ok) /\ UNCHANGED led

\* CLICK and DOUBLE_CLICK, TICK, HEAVY_CLICK, TEXTURE_TICK
LedEffects == {[vmax |-> 2500, waveform_index |-> 1], [vmax |-> 1400, waveform_index |-> 1],
               [vmax |-> 2500, waveform_index |-> 4], [vmax |-> 60, waveform_index |-> 2]}

\* perform() on the LED device does not look at what its writes return.
LedPerform == \E effect \in LedEffects, failed \in SUBSET Registers :
    /\ Elsewhere("perform", Pattern, TRUE)
    /\ Written(effect, failed \cup {"duration"})

FfRequest == device = "ff" /\
    \/ \E ms \in Timeouts : FfOn(ms)
    \/ FfOff
    \/ \E es \in Strengths : FfPerform(es)

LedRequest == device = "led" /\
    \/ \E ms \in Timeouts : LedOn(ms)
    \/ LedOff
    \/ LedPerform

NoRequest == device = "none" /\
    \/ \E ms \in Timeouts : NoDevice("on", ms)
    \/ NoDevice("off", 0)
    \/ NoDevice("perform", Pattern)

-----------------------------------------------------------------------------
Magnitude(amplitude) ==
    LIGHT_MAGNITUDE + (amplitude * (STRONG_MAGNITUDE - LIGHT_MAGNITUDE)) \div 255

\* Only after the write.  Seeded fault: before it is known to have succeeded.
MagnitudeFirst(ok, amplitude) == Magnitude(amplitude)
MagnitudeAfter(ok, amplitude) == IF ok THEN Magnitude(amplitude) ELSE mCurrMagnitude

\* Elsewhere, and under external control, setAmplitude changes nothing.
setAmplitude(amplitude) ==
    /\ device = "ff" /\ ~mInExternalControl
    /\ \E ok \in BOOLEAN :
          /\ gain' = IF ok THEN Magnitude(amplitude) ELSE gain
          /\ performed' = (performed /\ ~ok)
          /\ mCurrMagnitude' = MagnitudeAfter(ok, amplitude)
    /\ UNCHANGED <<vars, level, led, served, answer, mInExternalControl>>

setExternalControl(enabled) ==
    /\ mSupportExternalControl
    /\ mInExternalControl' = enabled
    /\ UNCHANGED <<vars, strength, level, led, served, answer>>

HalNext ==
    /\ \/ /\ \/ FfRequest
             \/ (\E id \in Slots : EffectEnds(id)) /\ UNCHANGED <<strength, level>>
          /\ UNCHANGED <<mInExternalControl, led, served, answer>>
       \/ /\ LedRequest \/ NoRequest
          /\ UNCHANGED <<vars, strength, level, mInExternalControl>>
       \/ \E amplitude \in Amplitudes : setAmplitude(amplitude)
       \/ \E enabled \in BOOLEAN : setExternalControl(enabled)
    /\ UNCHANGED <<device, mSupportExternalControl>>

HalSpec == HalInit /\ [][HalNext]_<<vars, hal>>

-----------------------------------------------------------------------------
\* An effect that on() starts plays for the time it was asked for, if that fits
\* the driver's 16 bits, and with the amplitude last accepted, unless perform()
\* has replaced the strength since.
PlaysAsAsked ==
    [][calls' # calls /\ reply'.call = "on" /\ mCurrAppId' # NoId =>
          /\ reply'.ms < ReplayMod => length'[mCurrAppId'] = reply'.ms
          /\ performed \/ level'[mCurrAppId'] = gain]_<<vars, hal>>

\* An on() that the LED device reports as accepted has programmed all of its own
\* request: nothing of an earlier one, or of an effect, is left in the files.
LedProgrammed ==
    device = "led" /\ answer.call = "on" /\ answer.ok /\ answer.ms # 0 =>
        /\ led["vmax"] = VMax(answer.ms)
        /\ led["waveform_index"] = 7
        /\ led["duration"] = answer.ms
=============================================================================
