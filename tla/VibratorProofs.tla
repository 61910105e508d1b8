--------------------------- MODULE VibratorProofs ---------------------------
(***************************************************************************)
(* Safety of Vibrator for any finite effect table, any timeouts, any       *)
(* number of calls, and whichever ioctl or write fails; and the service    *)
(* around it, VibratorHal, which implements it.                            *)
(***************************************************************************)
EXTENDS VibratorHal, FiniteSetTheorems, TLAPS

\* Effects that are in the driver's table and that the HAL has given up.
Lost == uploaded \ {mCurrAppId}

\* What play() relies on and restores: the types of its own state, and its
\* bookkeeping of the driver's table.
DriverTypes ==
    /\ mCurrAppId \in Slots \cup {NoId}
    /\ uploaded \subseteq Slots
    /\ playing \subseteq uploaded
    /\ length \in [Slots -> 0 .. ReplayMod - 1]
    /\ failedRemoves \in Nat

DriverInv == DriverTypes /\ CurrentIsUploaded /\ LostSlotsAccounted

CallTypes ==
    /\ calls \in Nat
    /\ reply \in [call : {"none", "on", "off", "perform"}, ms : Nat, ok : BOOLEAN]

-----------------------------------------------------------------------------
LEMMA ReplayLengthType == \A ms \in Nat : ReplayLength(ms) \in 0 .. ReplayMod - 1
  BY ConstantsAssumption DEF ReplayLength

\* What the HAL has lost is part of a finite table, so it can be counted.
LEMMA LostFinite ==
  ASSUME uploaded \subseteq Slots
  PROVE  IsFiniteSet(Lost) /\ Cardinality(Lost) \in Nat
<1>1. IsFiniteSet(Lost)
  BY FS_Subset, ConstantsAssumption DEF Lost
<1> QED BY <1>1, FS_CardinalityType

\* Losing one more effect adds at most one.
LEMMA OneMoreLost ==
  ASSUME uploaded \subseteq Slots, NEW id, NEW S, S \subseteq Lost \cup {id}
  PROVE  Cardinality(S) \in Nat /\ Cardinality(S) <= Cardinality(Lost) + 1
<1>1. IsFiniteSet(Lost) /\ Cardinality(Lost) \in Nat
  BY LostFinite
<1>2. IsFiniteSet(Lost \cup {id}) /\ Cardinality(Lost \cup {id}) <= Cardinality(Lost) + 1
  <2>1. /\ IsFiniteSet(Lost \cup {id})
        /\ Cardinality(Lost \cup {id}) =
             IF id \in Lost THEN Cardinality(Lost) ELSE Cardinality(Lost) + 1
    BY <1>1, FS_AddElement, Zenon
  <2> QED BY <1>1, <2>1
<1>3. IsFiniteSet(S) /\ Cardinality(S) <= Cardinality(Lost \cup {id})
  BY <1>2, FS_Subset
<1>4. Cardinality(S) \in Nat /\ Cardinality(Lost \cup {id}) \in Nat
  BY <1>2, <1>3, FS_CardinalityType
<1> QED BY <1>1, <1>2, <1>3, <1>4

\* Whatever way play() ends, the bookkeeping survives: an error path resets
\* mCurrAppId, and gives up at most one effect per removal that failed.
LEMMA PlayKeepsInv ==
  ASSUME DriverInv, NEW ms \in Nat, NEW ret, play(ms, ret)
  PROVE  DriverInv'
<1> USE NoIdAssumption DEF DriverTypes, Cleared, SetCurrAppId
<1>0. DriverTypes /\ CurrentIsUploaded /\ Cardinality(Lost) <= failedRemoves
  BY DEF DriverInv, LostSlotsAccounted, Lost
<1>a. Cardinality(Lost) \in Nat
  BY <1>0, LostFinite
<1>b. SUFFICES DriverTypes' /\ CurrentIsUploaded' /\ Cardinality(Lost') <= failedRemoves'
  BY DEF DriverInv, LostSlotsAccounted, Lost
<1>1. CASE RemoveFails(ret)
  <2>1. DriverTypes' /\ CurrentIsUploaded'
    BY <1>0, <1>1 DEF RemoveFails, CurrentIsUploaded
  <2>2. Lost' \subseteq Lost \cup {mCurrAppId}
    BY <1>0, <1>1 DEF RemoveFails, Lost
  <2>3. Cardinality(Lost') <= Cardinality(Lost) + 1 /\ Cardinality(Lost') \in Nat
    BY <1>0, <2>2, OneMoreLost
  <2> QED BY <1>0, <1>1, <1>a, <2>1, <2>3 DEF RemoveFails
<1>2. ASSUME NEW r, Stopped(r)
      PROVE  DriverTypes' /\ CurrentIsUploaded' /\ Cardinality(Lost') <= failedRemoves'
  <2>1. DriverTypes' /\ CurrentIsUploaded'
    BY <1>0, <1>2 DEF Stopped, CurrentIsUploaded
  <2>2. Lost' = Lost
    BY <1>0, <1>2 DEF Stopped, Lost
  <2> QED BY <1>0, <1>2, <2>1, <2>2 DEF Stopped
<1>3. CASE Started(ms, ret)
  <2>1. PICK id \in Slots \ Cleared(uploaded) :
          /\ mCurrAppId' = id
          /\ uploaded' = Cleared(uploaded) \cup {id}
          /\ length' = [length EXCEPT ![id] = ReplayLength(ms)]
          /\ playing' = Cleared(playing) \cup {id}
    BY <1>3 DEF Started
  <2>2. DriverTypes' /\ CurrentIsUploaded'
    BY <1>0, <1>3, <2>1, ReplayLengthType DEF Started, CurrentIsUploaded
  <2>3. Lost' = Lost
    BY <1>0, <2>1 DEF Lost
  <2> QED BY <1>0, <1>3, <2>2, <2>3 DEF Started
<1>4. CASE UndoFails(ms, ret)
  <2>1. PICK id \in Slots \ Cleared(uploaded) :
          /\ uploaded' = Cleared(uploaded) \cup {id}
          /\ length' = [length EXCEPT ![id] = ReplayLength(ms)]
    BY <1>4 DEF UndoFails
  <2>2. DriverTypes' /\ CurrentIsUploaded'
    BY <1>0, <1>4, <2>1, ReplayLengthType DEF UndoFails, CurrentIsUploaded
  <2>3. Lost' \subseteq Lost \cup {id}
    BY <1>0, <1>4, <2>1 DEF UndoFails, Lost
  <2>4. Cardinality(Lost') <= Cardinality(Lost) + 1 /\ Cardinality(Lost') \in Nat
    BY <1>0, <2>3, OneMoreLost
  <2> QED BY <1>0, <1>4, <1>a, <2>2, <2>4 DEF UndoFails
<1> QED BY <1>1, <1>2, <1>3, <1>4 DEF play, UploadFails, StartFails

-----------------------------------------------------------------------------
LEMMA InitDriverInv == Init => DriverInv /\ CallTypes
<1> SUFFICES ASSUME Init PROVE DriverInv /\ CallTypes
  OBVIOUS
<1>1. DriverTypes /\ CurrentIsUploaded
  BY ConstantsAssumption DEF Init, DriverTypes, CurrentIsUploaded
<1>2. LostSlotsAccounted
  <2>1. uploaded \ {mCurrAppId} = {}
    BY DEF Init
  <2> QED BY <2>1, FS_EmptySet DEF Init, LostSlotsAccounted
<1>3. CallTypes
  BY DEF Init, CallTypes
<1> QED BY <1>1, <1>2, <1>3 DEF DriverInv

\* Every call is a play() with a timeout in Nat.
LEMMA CallKeepsInv ==
  ASSUME DriverInv, CallTypes, NEW ms \in Nat,
         NEW name \in {"on", "off", "perform"}, Call(name, ms)
  PROVE  DriverInv' /\ CallTypes'
<1>1. PICK ret \in {0, -1} :
        /\ play(ms, ret)
        /\ reply' = [call |-> name, ms |-> ms, ok |-> ret = 0]
  BY DEF Call
<1>2. DriverInv'
  BY <1>1, PlayKeepsInv
<1>3. calls' \in Nat
  BY DEF Call, CallTypes
<1>4. (ret = 0) \in BOOLEAN
  BY Zenon
<1>5. reply' \in [call : {"none", "on", "off", "perform"}, ms : Nat, ok : BOOLEAN]
  BY <1>1, <1>4, Zenon
<1> QED BY <1>2, <1>3, <1>5 DEF CallTypes

LEMMA NextDriverInv == DriverInv /\ CallTypes /\ [Next]_vars => DriverInv' /\ CallTypes'
<1> SUFFICES ASSUME DriverInv, CallTypes, [Next]_vars PROVE DriverInv' /\ CallTypes'
  OBVIOUS
<1>1. ASSUME NEW ms \in Timeouts, on(ms) PROVE DriverInv' /\ CallTypes'
  BY <1>1, CallKeepsInv, ConstantsAssumption DEF on
<1>2. CASE off
  BY <1>2, CallKeepsInv DEF off
<1>3. CASE perform
  BY <1>3, CallKeepsInv, ConstantsAssumption DEF perform
<1>4. ASSUME NEW id \in Slots, EffectEnds(id) PROVE DriverInv' /\ CallTypes'
  BY <1>4 DEF EffectEnds, DriverInv, DriverTypes, CurrentIsUploaded, LostSlotsAccounted, CallTypes
<1>5. CASE UNCHANGED vars
  BY <1>5 DEF vars, driver, DriverInv, DriverTypes, CurrentIsUploaded, LostSlotsAccounted, CallTypes
<1> QED BY <1>1, <1>2, <1>3, <1>4, <1>5 DEF Next

\* The model is well typed, the HAL's effect id is one it uploaded, and it
\* loses no more slots of the driver than removals have failed: play() keeps
\* its bookkeeping on every error path.
THEOREM Bookkeeping == Spec => [](TypeOK /\ CurrentIsUploaded /\ LostSlotsAccounted)
<1>1. DriverInv /\ CallTypes => TypeOK /\ CurrentIsUploaded /\ LostSlotsAccounted
  BY DEF DriverInv, DriverTypes, CallTypes, TypeOK
<1> QED BY <1>1, InitDriverInv, NextDriverInv, PTL DEF Spec

-----------------------------------------------------------------------------
\* As long as no removal failed, the driver holds nothing but the current effect.
LEMMA NothingLost == DriverInv /\ failedRemoves = 0 => uploaded \subseteq {mCurrAppId}
<1> SUFFICES ASSUME DriverInv, failedRemoves = 0 PROVE uploaded \subseteq {mCurrAppId}
  OBVIOUS
<1>1. IsFiniteSet(Lost) /\ Cardinality(Lost) \in Nat
  BY LostFinite DEF DriverInv, DriverTypes
<1>2. Cardinality(Lost) = 0
  BY <1>1 DEF DriverInv, LostSlotsAccounted, Lost
<1> QED BY <1>1, <1>2, FS_EmptySet DEF Lost

\* An off() that succeeds and a request that fails both leave the motor
\* silent, as long as no removal of an effect has failed.
THEOREM SilentWhenStopped == Spec => StoppedMeansSilent
<1> DEFINE Silent == calls' # calls /\ failedRemoves' = 0
                       /\ (reply'.call = "off" \/ ~reply'.ok) => playing' = {}
<1>1. ASSUME DriverInv, NEW ms \in Nat, NEW name, Call(name, ms), failedRemoves' = 0,
             name = "off" => ms = 0, reply'.call = "off" \/ ~reply'.ok
      PROVE  playing' = {}
  <2>1. PICK ret \in {0, -1} :
          /\ play(ms, ret)
          /\ reply' = [call |-> name, ms |-> ms, ok |-> ret = 0]
    BY <1>1 DEF Call
  <2>2. name = "off" \/ ret = -1
    BY <1>1, <2>1
  <2>3. ~RemoveFails(ret) /\ ~UndoFails(ms, ret)
    BY <1>1 DEF RemoveFails, UndoFails, DriverInv, DriverTypes
  <2>4. ~(ms # 0 /\ Started(ms, ret))
    BY <1>1, <2>2 DEF Started
  <2>5. playing' = Cleared(playing) /\ failedRemoves' = failedRemoves
    BY <2>1, <2>3, <2>4 DEF play, Stopped, UploadFails, StartFails
  <2>6. playing \subseteq {mCurrAppId}
    BY <1>1, <2>5, NothingLost DEF DriverInv, DriverTypes
  <2> QED BY <2>5, <2>6 DEF Cleared
<1>2. DriverInv /\ CallTypes /\ [Next]_vars => [Silent]_vars
  <2> SUFFICES ASSUME DriverInv, Next, calls' # calls, failedRemoves' = 0,
                      reply'.call = "off" \/ ~reply'.ok
               PROVE  playing' = {}
    OBVIOUS
  <2>1. CASE \E ms \in Timeouts : on(ms)
    BY <2>1, <1>1, ConstantsAssumption DEF on
  <2>2. CASE off
    BY <2>2, <1>1 DEF off
  <2>3. CASE perform
    BY <2>3, <1>1, ConstantsAssumption DEF perform
  <2>4. CASE \E id \in Slots : EffectEnds(id)
    BY <2>4 DEF EffectEnds
  <2> QED BY <2>1, <2>2, <2>3, <2>4 DEF Next
<1> QED BY <1>2, InitDriverInv, NextDriverInv, PTL DEF Spec, StoppedMeansSilent

-----------------------------------------------------------------------------
Strength == LIGHT_MAGNITUDE .. STRONG_MAGNITUDE
StrengthTypes ==
    /\ mCurrMagnitude \in Strength /\ gain \in Strength
    /\ level \in [Slots -> Strength]

\* The 255th part of at most 255 * 16384 is at most 16384.
LEMMA QuotientBounds ==
  ASSUME NEW n \in Int, 0 <= n, n <= 4177920
  PROVE  n \div 255 \in Int /\ 0 <= n \div 255 /\ n \div 255 <= 16384
  OBVIOUS

\* An amplitude of 0 .. 255 is a magnitude between the light and the strong one.
LEMMA MagnitudeType == \A a \in 0 .. 255 : Magnitude(a) \in Strength
<1> SUFFICES ASSUME NEW a \in 0 .. 255 PROVE Magnitude(a) \in Strength
  OBVIOUS
<1> DEFINE n == a * 16384
           q == n \div 255
<1>1. n \in Int /\ 0 <= n /\ n <= 4177920
  OBVIOUS
<1>2. Magnitude(a) = 16383 + q
  BY DEF Magnitude, STRONG_MAGNITUDE, LIGHT_MAGNITUDE
<1> HIDE DEF n
<1>3. q \in Int /\ 0 <= q /\ q <= 16384
  BY <1>1, QuotientBounds
<1> HIDE DEF q
<1>4. LIGHT_MAGNITUDE \in Int /\ STRONG_MAGNITUDE \in Int
  BY DEF STRONG_MAGNITUDE, LIGHT_MAGNITUDE
<1>5. /\ Magnitude(a) \in Int
      /\ LIGHT_MAGNITUDE <= Magnitude(a) /\ Magnitude(a) <= STRONG_MAGNITUDE
  BY <1>2, <1>3 DEF STRONG_MAGNITUDE, LIGHT_MAGNITUDE
<1> QED BY <1>4, <1>5 DEF Strength

LEMMA FfRequestKeepsStrength ==
  ASSUME StrengthTypes, (mCurrAppId \in Slots \cup {NoId})', FfRequest
  PROVE  StrengthTypes'
<1>1. mCurrMagnitude' \in Strength /\ gain' \in Strength
  <2>1. gain' = gain /\ (mCurrMagnitude' = mCurrMagnitude \/ mCurrMagnitude' \in Strengths)
    <3>1. UNCHANGED strength \/ \E es \in Strengths : FfPerform(es)
      BY Zenon DEF FfRequest, FfOn, FfOff
    <3>2. CASE UNCHANGED strength
      BY <3>2 DEF strength
    <3>3. CASE \E es \in Strengths : FfPerform(es)
      BY <3>3, Zenon DEF FfPerform
    <3> QED BY <3>1, <3>2, <3>3, Zenon
  <2>2. Strengths \subseteq Strength
    BY DEF Strengths, Strength, LIGHT_MAGNITUDE, MEDIUM_MAGNITUDE, STRONG_MAGNITUDE
  <2> QED BY <2>1, <2>2 DEF StrengthTypes
<1>2. Level
  BY DEF FfRequest, FfOn, FfOff, FfPerform
<1>3. level' \in [Slots -> Strength]
  BY <1>1, <1>2 DEF StrengthTypes, Level
<1> QED BY <1>1, <1>3 DEF StrengthTypes

\* The service implements the force-feedback device: every step of it is a call
\* of on, off or perform there, the end of an effect, or leaves it alone.
THEOREM ServiceImplementsDevice == HalSpec => Spec
<1>1. HalInit => Init
  BY DEF HalInit
<1>2. [HalNext]_<<vars, hal>> => [Next]_vars
  <2> SUFFICES ASSUME HalNext PROVE [Next]_vars
    BY DEF vars
  <2>1. CASE FfRequest
    BY <2>1 DEF FfRequest, FfOn, FfOff, FfPerform, Next
  <2>2. CASE \E id \in Slots : EffectEnds(id)
    BY <2>2 DEF Next
  <2>3. CASE UNCHANGED vars
    BY <2>3
  <2> QED BY <2>1, <2>2, <2>3 DEF HalNext, setAmplitude, setExternalControl
<1> QED BY <1>1, <1>2, PTL DEF HalSpec, Spec

\* What Vibrator promises, the service keeps.
THEOREM ServiceKeepsBooks ==
  HalSpec => [](CurrentIsUploaded /\ LostSlotsAccounted) /\ StoppedMeansSilent
  BY ServiceImplementsDevice, Bookkeeping, SilentWhenStopped, PTL

-----------------------------------------------------------------------------
\* What the service adds to the device's state is well typed too.
THEOREM HalTypeCorrect == HalSpec => [](TypeOK /\ HalTypeOK)
<1> DEFINE Inv == TypeOK /\ HalTypeOK
<1> USE DEF StrengthTypes, Strength
<1>1. HalInit => HalTypeOK
  <2> SUFFICES ASSUME HalInit PROVE HalTypeOK
    OBVIOUS
  <2>1. led \in [Registers -> Nat] /\ level \in [Slots -> Strength]
    BY DEF HalInit, LIGHT_MAGNITUDE, STRONG_MAGNITUDE
  <2>2. mSupportExternalControl \in BOOLEAN
    BY Zenon DEF HalInit
  <2>3. answer \in [call : {"none", "on", "off", "perform"}, ms : Nat, ok : BOOLEAN]
    BY DEF HalInit, Init
  <2>4. /\ device \in Devices
        /\ mInExternalControl \in BOOLEAN /\ performed \in BOOLEAN
    BY Zenon DEF HalInit
  <2>5. mCurrMagnitude \in Strength /\ gain \in Strength /\ served \in Nat
    BY DEF HalInit, LIGHT_MAGNITUDE, STRONG_MAGNITUDE
  <2> QED BY <2>1, <2>2, <2>3, <2>4, <2>5, Zenon DEF HalTypeOK
<1>2. HalTypeOK /\ (TypeOK)' /\ [HalNext]_<<vars, hal>> => HalTypeOK'
  <2> SUFFICES ASSUME HalTypeOK, (TypeOK)', [HalNext]_<<vars, hal>> PROVE HalTypeOK'
    OBVIOUS
  <2>0. StrengthTypes /\ (mCurrAppId \in Slots \cup {NoId})'
    BY DEF HalTypeOK, TypeOK
  <2>1. CASE UNCHANGED <<vars, hal>>
    BY <2>1 DEF HalTypeOK, hal, strength
  <2>2. CASE FfRequest /\ UNCHANGED <<mInExternalControl, led, served, answer>>
                       /\ UNCHANGED <<device, mSupportExternalControl>>
    <3>1. StrengthTypes'
      <4> HIDE DEF StrengthTypes, Strength
      <4> QED BY <2>0, <2>2, FfRequestKeepsStrength
    <3>2. performed' \in BOOLEAN
      BY <2>2, Zenon DEF HalTypeOK, FfRequest, FfOn, FfOff, FfPerform, strength
    <3> QED BY <2>2, <3>1, <3>2 DEF HalTypeOK
  <2>3. CASE UNCHANGED <<strength, level, mInExternalControl, led, served, answer>>
             /\ UNCHANGED <<device, mSupportExternalControl>>
    BY <2>3 DEF HalTypeOK, strength
  <2>4. CASE (LedRequest \/ NoRequest)
             /\ UNCHANGED <<vars, strength, level, mInExternalControl>>
             /\ UNCHANGED <<device, mSupportExternalControl>>
    <3>1. ASSUME NEW name \in {"on", "off", "perform"}, NEW ms \in Nat, NEW ok \in BOOLEAN,
                 Elsewhere(name, ms, ok), led' \in [Registers -> Nat]
          PROVE  HalTypeOK'
      BY <2>4, <3>1 DEF Elsewhere, HalTypeOK, strength
    <3>2. \A values, failed :
             Written(values, failed) /\ (\A r \in Registers \ failed : values[r] \in Nat)
             => led' \in [Registers -> Nat]
      BY DEF Written, HalTypeOK
    <3>3. ASSUME NEW ms \in Timeouts, LedOn(ms) PROVE HalTypeOK'
      <4>1. ms \in Nat
        BY ConstantsAssumption
      <4>2. CASE ms = 0
        BY <3>1, <3>3, <4>1, <4>2 DEF LedOn, HalTypeOK
      <4>3. CASE ms # 0
        <5>1. PICK failed : /\ Elsewhere("on", ms, AllWritesOk(failed))
                            /\ Written([vmax |-> VMax(ms), waveform_index |-> 7,
                                        duration |-> ms], failed)
          BY <3>3, <4>3 DEF LedOn
        <5>2. VMax(ms) \in Nat /\ AllWritesOk(failed) \in BOOLEAN
          BY <4>1 DEF VMax, AllWritesOk
        <5>3. led' \in [Registers -> Nat]
          BY <3>2, <4>1, <5>1, <5>2 DEF Registers
        <5> QED BY <3>1, <4>1, <5>1, <5>2, <5>3
      <4> QED BY <4>2, <4>3
    <3>4. CASE LedPerform
      <4>1. PICK effect \in LedEffects, failed \in SUBSET Registers :
              /\ Elsewhere("perform", Pattern, TRUE)
              /\ Written(effect, failed \cup {"duration"})
        BY <3>4 DEF LedPerform
      <4>2. effect["vmax"] \in Nat /\ effect["waveform_index"] \in Nat
        BY <4>1 DEF LedEffects
      <4>3. led' \in [Registers -> Nat]
        BY <3>2, <4>1, <4>2 DEF Registers
      <4> QED BY <3>1, <4>1, <4>3, ConstantsAssumption
    <3>5. CASE LedOff
      BY <3>1, <3>5 DEF LedOff, HalTypeOK
    <3>6. ASSUME NEW name \in {"on", "off", "perform"}, NEW ms \in Nat, NoDevice(name, ms)
          PROVE  HalTypeOK'
      BY <3>1, <3>6 DEF NoDevice, HalTypeOK
    <3> QED BY <2>4, <3>3, <3>4, <3>5, <3>6, ConstantsAssumption DEF LedRequest, NoRequest
  <2>5. ASSUME NEW amplitude \in Amplitudes, setAmplitude(amplitude),
               UNCHANGED <<device, mSupportExternalControl>>
        PROVE  HalTypeOK'
    <3>1. Magnitude(amplitude) \in Strength
      BY MagnitudeType, HalAssumption
    <3>2. mCurrMagnitude' \in Strength /\ gain' \in Strength /\ performed' \in BOOLEAN
      BY <2>5, <3>1 DEF setAmplitude, MagnitudeAfter, HalTypeOK
    <3> QED BY <2>5, <3>2 DEF setAmplitude, HalTypeOK
  <2>6. ASSUME NEW enabled \in BOOLEAN, setExternalControl(enabled),
               UNCHANGED <<device, mSupportExternalControl>>
        PROVE  HalTypeOK'
    BY <2>6 DEF setExternalControl, HalTypeOK, strength
  <2> QED BY <2>1, <2>2, <2>3, <2>4, <2>5, <2>6 DEF HalNext
<1> QED BY <1>1, <1>2, ServiceImplementsDevice, Bookkeeping, PTL DEF HalSpec

-----------------------------------------------------------------------------
\* An accepted on() of the LED device leaves nothing of an older request in its
\* files: an invariant of its own, because every call replaces the answer.
THEOREM LedAlwaysProgrammed == HalSpec => []LedProgrammed
<1>1. HalInit => LedProgrammed
  BY DEF HalInit, Init, LedProgrammed
<1>2. LedProgrammed /\ [HalNext]_<<vars, hal>> => LedProgrammed'
  <2> SUFFICES ASSUME LedProgrammed, [HalNext]_<<vars, hal>> PROVE LedProgrammed'
    OBVIOUS
  <2>1. CASE UNCHANGED <<device, led, answer>>
    BY <2>1 DEF LedProgrammed
  <2>2. CASE device = "led" /\ LedRequest /\ UNCHANGED device
    <3>1. ASSUME NEW ms \in Timeouts, LedOn(ms), ms # 0 PROVE LedProgrammed'
      <4>1. PICK failed : /\ Elsewhere("on", ms, AllWritesOk(failed))
                          /\ Written([vmax |-> VMax(ms), waveform_index |-> 7,
                                      duration |-> ms], failed)
        BY <3>1 DEF LedOn
      <4>2. answer'.ms = ms /\ (answer'.ok <=> failed = {})
        BY <4>1 DEF Elsewhere, AllWritesOk
      <4>3. failed = {} => /\ led'["vmax"] = VMax(ms)
                           /\ led'["waveform_index"] = 7
                           /\ led'["duration"] = ms
        BY <4>1 DEF Written, Registers
      <4> QED BY <4>2, <4>3 DEF LedProgrammed
    <3>2. ASSUME NEW ms, LedOn(ms), ms = 0 PROVE LedProgrammed'
      BY <3>2 DEF LedOn, Elsewhere, LedProgrammed
    <3>3. CASE LedOff \/ LedPerform
      <4>1. \E name \in {"off", "perform"} : \E ms, ok : Elsewhere(name, ms, ok)
        BY <3>3, Zenon DEF LedOff, LedPerform
      <4>2. answer'.call # "on"
        BY <4>1 DEF Elsewhere
      <4> QED BY <4>2, Zenon DEF LedProgrammed
    <3> QED BY <2>2, <3>1, <3>2, <3>3 DEF LedRequest
  <2>3. CASE device # "led" /\ UNCHANGED device
    BY <2>3 DEF LedProgrammed
  <2> QED BY <2>1, <2>2, <2>3 DEF HalNext, setAmplitude, setExternalControl, hal, LedRequest, NoRequest
<1> QED BY <1>1, <1>2, PTL DEF HalSpec

\* The strength the service will use next is the driver's gain, unless perform()
\* has replaced it.
MagnitudeIsGain == performed \/ mCurrMagnitude = gain

LEMMA MagnitudeIsGainKept == MagnitudeIsGain /\ [HalNext]_<<vars, hal>> => MagnitudeIsGain'
<1> SUFFICES ASSUME MagnitudeIsGain, [HalNext]_<<vars, hal>> PROVE MagnitudeIsGain'
  OBVIOUS
<1>1. CASE UNCHANGED strength
  BY <1>1 DEF strength, MagnitudeIsGain
<1>2. CASE FfRequest
  <2>1. UNCHANGED strength \/ performed' = TRUE
    BY <1>2, Zenon DEF FfRequest, FfOn, FfOff, FfPerform
  <2> QED BY <1>1, <2>1 DEF MagnitudeIsGain
<1>3. ASSUME NEW amplitude, setAmplitude(amplitude) PROVE MagnitudeIsGain'
  <2>1. PICK ok \in BOOLEAN :
          /\ gain' = IF ok THEN Magnitude(amplitude) ELSE gain
          /\ performed' = (performed /\ ~ok)
          /\ mCurrMagnitude' = IF ok THEN Magnitude(amplitude) ELSE mCurrMagnitude
    BY <1>3, Zenon DEF setAmplitude, MagnitudeAfter
  <2>2. CASE ok
    BY <2>1, <2>2 DEF MagnitudeIsGain
  <2>3. CASE ~ok
    BY <2>1, <2>3, Zenon DEF MagnitudeIsGain
  <2> QED BY <2>2, <2>3
<1>4. UNCHANGED strength \/ FfRequest \/ \E amplitude \in Amplitudes : setAmplitude(amplitude)
  BY Zenon DEF HalNext, setExternalControl, hal, strength
<1> QED BY <1>1, <1>2, <1>3, <1>4

\* What on() starts plays as long as it was asked to, up to the driver's 16 bits,
\* with the amplitude last accepted.
THEOREM PlayedAsAsked == HalSpec => PlaysAsAsked
<1> DEFINE AsAsked == calls' # calls /\ reply'.call = "on" /\ mCurrAppId' # NoId =>
                        /\ reply'.ms < ReplayMod => length'[mCurrAppId'] = reply'.ms
                        /\ performed \/ level'[mCurrAppId'] = gain
           Inv == TypeOK /\ HalTypeOK /\ MagnitudeIsGain
<1>1. HalInit => MagnitudeIsGain
  BY DEF HalInit, MagnitudeIsGain
<1>2. Inv /\ HalNext => AsAsked
  <2> SUFFICES ASSUME Inv, HalNext, calls' # calls, reply'.call = "on", mCurrAppId' # NoId
               PROVE  /\ reply'.ms < ReplayMod => length'[mCurrAppId'] = reply'.ms
                      /\ performed \/ level'[mCurrAppId'] = gain
    OBVIOUS
  <2>1. FfRequest
    BY DEF HalNext, setAmplitude, setExternalControl, vars, EffectEnds
  <2>2. PICK ms \in Timeouts : FfOn(ms)
    BY <2>1 DEF FfRequest, FfOff, FfPerform, off, perform, Call
  <2>3. PICK ret \in {0, -1} : play(ms, ret) /\ reply'.ms = ms
    BY <2>2 DEF FfOn, on, Call
  <2>4. Started(ms, ret)
    BY <2>3 DEF play, RemoveFails, Stopped, UploadFails, StartFails, UndoFails, SetCurrAppId
  <2>5. mCurrAppId' \in Slots /\ length' = [length EXCEPT ![mCurrAppId'] = ReplayLength(ms)]
    BY <2>4 DEF Started, SetCurrAppId
  <2>6. ms < ReplayMod => ReplayLength(ms) = ms
    BY ConstantsAssumption DEF ReplayLength
  <2>7. level'[mCurrAppId'] = mCurrMagnitude
    BY <2>2, <2>5 DEF FfOn, strength, Level, HalTypeOK
  <2> QED BY <2>3, <2>5, <2>6, <2>7 DEF TypeOK, MagnitudeIsGain
<1>3. Inv /\ [HalNext]_<<vars, hal>> => [AsAsked]_<<vars, hal>>
  BY <1>2
<1> HIDE DEF AsAsked
<1>4. HalSpec => [][AsAsked]_<<vars, hal>>
  BY <1>1, <1>3, MagnitudeIsGainKept, HalTypeCorrect, PTL DEF HalSpec
<1> QED BY <1>4 DEF PlaysAsAsked, AsAsked
=============================================================================
