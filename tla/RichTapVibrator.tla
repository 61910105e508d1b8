-------------------------- MODULE RichTapVibrator --------------------------
(***************************************************************************)
(* The RichTap vibrator service (aidl/vibrator/richtap/Vibrator.cpp).      *)
(* Each call goes to the prebuilt aac_vibra library, which returns how     *)
(* long it will vibrate or an error.  The service has one binder thread    *)
(* (service.cpp:15), so calls do not overlap; the threads that call back   *)
(* are those of CompletionThreads.  What the strengths of an effect feel   *)
(* like is left to the library.                                            *)
(***************************************************************************)
EXTENDS CompletionThreads

CONSTANTS Lengths,        \* lengths, in ms, that on() is called with
          Prebaked,       \* length, in ms, of the library's effects
          MaxVibrations   \* bound: calls of the service

ASSUME RichTapAssumption ==
    Lengths \subseteq Nat /\ Prebaked \in Nat /\ MaxVibrations \in Nat

\* Effect::CLICK .. Effect::HEAVY_CLICK, and one beyond
PerformRange == 0 .. 5
Effects == PerformRange \cup {6}

VARIABLES
    looper,     \* whether aac_vibra_looper_start was reached
    amplitude,  \* library: the amplitude in force
    served,     \* calls served
    status      \* history: what the last call returned

richTapVars == <<threads, looper, amplitude, served, status>>

RichTapTypeOK ==
    /\ ThreadsTypeOK
    /\ looper \in BOOLEAN /\ amplitude \in 0 .. 255 /\ served \in Nat
    /\ status \in {"none", "ok", "service specific", "unsupported"}

\* The service is there whether aac_vibra_init succeeded or not.
RichTapInit ==
    /\ ThreadsInit
    /\ looper \in BOOLEAN /\ amplitude = 255
    /\ served = 0 /\ status = "none"

-----------------------------------------------------------------------------
Serve(result) ==
    /\ served < MaxVibrations
    /\ served' = served + 1
    /\ status' = result
    /\ UNCHANGED <<looper, now, completed>>

Refuse(result) == Serve(result) /\ UNCHANGED <<motor, amplitude>> /\ NobodyCalledBack

\* The library vibrates for ms, in place of what it did before.
Accept(ms) ==
    /\ looper /\ Serve("ok")
    /\ Starts(served', ms * 1000)
    /\ NobodyCalledBack \/ CallsBackAfter(served', ms, TRUE)
    /\ UNCHANGED amplitude

RichTapOn(timeoutMs) == Accept(timeoutMs) \/ Refuse("service specific")

RichTapPerform(effect) ==
    IF effect \in PerformRange THEN Accept(Prebaked) \/ Refuse("service specific")
                               ELSE Refuse("unsupported")

RichTapOff ==
    \/ Serve("ok") /\ Silenced /\ NobodyCalledBack /\ UNCHANGED amplitude
    \/ Refuse("service specific")

\* (uint8_t)(amplitude * 0xff)
RichTapSetAmplitude(level) ==
    \/ Serve("ok") /\ amplitude' = level /\ UNCHANGED motor /\ NobodyCalledBack
    \/ Refuse("service specific")

\* setExternalControl and all of compositions, always-on effects and PWLE.
RichTapUnsupported == Refuse("unsupported")

RichTapNext ==
    \/ \E ms \in Lengths : RichTapOn(ms)
    \/ \E effect \in Effects : RichTapPerform(effect)
    \/ RichTapOff
    \/ \E level \in {0, 255} : RichTapSetAmplitude(level)
    \/ RichTapUnsupported
    \/ ThreadStep /\ UNCHANGED <<looper, amplitude, served, status>>

RichTapSpec == RichTapInit /\ [][RichTapNext]_richTapVars
=============================================================================
