------------------------- MODULE UdfpsSensorProofs -------------------------
(***************************************************************************)
(* Safety of UdfpsSensor for any set of HAL threads, any pipe capacity and *)
(* any number of calls.                                                    *)
(***************************************************************************)
EXTENDS UdfpsSensor, TLAPS

(* A byte that a poll saw is still there when it is read, because only the *)
(* run thread reads the pipe.                                              *)
PolledByteStays == rpc \in {"relock", "handle"} /\ "pipe" \in revents => pipe > 0

(* A stopped sensor never polls; without a pipe it was stopped from birth. *)
StoppedNeverPolls ==
    /\ ~pipeOpen => mStopThread
    /\ mStopThread => rpc \notin {"poll", "relock", "handle"}

-----------------------------------------------------------------------------
(* Type correctness needs PolledByteStays: run() reads the pipe on the     *)
(* strength of a revents captured before it took the lock back.            *)
TypeInv == TypeOK /\ PolledByteStays

LEMMA InitTypeInv == Init => TypeInv
<1> SUFFICES ASSUME Init PROVE TypeInv
  OBVIOUS
<1> USE ConstantsAssumption, NobodyAssumption DEF Init
<1>1. mStopThread \in BOOLEAN /\ pipeOpen \in BOOLEAN
  <2>1. CASE Faults
    BY <2>1, Zenon
  <2>2. CASE ~Faults
    BY <2>2, Zenon
  <2> QED BY <2>1, <2>2
<1>2. mIsEnabled \in BOOLEAN /\ reportEvent \in BOOLEAN /\ fingerDown \in BOOLEAN
  BY Zenon
<1>3. cpc \in [Callers -> CallerPCs]
  BY DEF CallerPCs
<1> QED
  BY <1>1, <1>2, <1>3 DEF TypeInv, TypeOK, PolledByteStays, RunPCs, Modes

LEMMA NextTypeInv == TypeInv /\ [Next]_vars => TypeInv'
<1> SUFFICES ASSUME TypeInv, [Next]_vars PROVE TypeInv'
  OBVIOUS
<1> USE ConstantsAssumption, NobodyAssumption
    DEF TypeInv, TypeOK, PolledByteStays, Running, RunPCs, CallerPCs, Modes,
        sensorVars, threadVars, callerVars, touchVars, histVars, pipeVars
<1>1. ASSUME NEW c \in Callers, CallActivate(c) PROVE TypeInv'
  BY <1>1 DEF CallActivate, Call
<1>2. ASSUME NEW c \in Callers, CallSetOperationMode(c) PROVE TypeInv'
  BY <1>2 DEF CallSetOperationMode, Call
<1>3. ASSUME NEW c \in Callers, ActivateNoChange(c) PROVE TypeInv'
  BY <1>3 DEF ActivateNoChange
<1>4. ASSUME NEW c \in Callers, ActivateChange(c) PROVE TypeInv'
  BY <1>4 DEF ActivateChange
<1>5. ASSUME NEW c \in Callers, ActivateInterrupt(c) PROVE TypeInv'
  BY <1>5 DEF ActivateInterrupt, InterruptPoll, NotifyAll
<1>6. ASSUME NEW c \in Callers, SetMode(c) PROVE TypeInv'
  BY <1>6 DEF SetMode, NotifyAll
<1>7. ASSUME NEW c \in Callers, SetModeInterrupt(c) PROVE TypeInv'
  BY <1>7 DEF SetModeInterrupt, InterruptPoll
<1>8. CASE RunStart
  BY <1>8 DEF RunStart
<1>9. CASE RunExit
  BY <1>9 DEF RunExit
<1>10. CASE RunPark
  BY <1>10 DEF RunPark
<1>11. CASE RunRecheck
  BY <1>11 DEF RunRecheck
<1>12. CASE RunUnlockAndPoll
  BY <1>12 DEF RunUnlockAndPoll
<1>13. CASE PollReturns
  BY <1>13 DEF PollReturns, PollReady
<1>14. CASE RunRelock
  BY <1>14 DEF RunRelock
<1>15. CASE HandlePollError
  BY <1>15 DEF HandlePollError
<1>16. CASE ReportPress
  <2>1. mIsEnabled' \in BOOLEAN
    BY <1>16, Zenon DEF ReportPress
  <2>2. posts' \in Nat
    BY <1>16 DEF ReportPress
  <2>3. mStopThread' \in BOOLEAN /\ reportEvent' \in BOOLEAN /\ fingerDown' \in BOOLEAN
    BY <1>16, Zenon DEF ReportPress
  <2> QED
    BY <1>16, <2>1, <2>2, <2>3 DEF ReportPress
<1>17. CASE HandleNoReport
  BY <1>17 DEF HandleNoReport, DrainAndArm
<1>18. CASE HandleReadFailure
  BY <1>18 DEF HandleReadFailure, DrainAndArm
<1>19. CASE SpuriousWakeup
  BY <1>19 DEF SpuriousWakeup
<1>20. CASE PollFails
  BY <1>20 DEF PollFails
<1>21. CASE FingerChange
  BY <1>21 DEF FingerChange
<1>22. CASE UNCHANGED vars
  BY <1>22 DEF vars
<1> QED
  BY <1>1, <1>2, <1>3, <1>4, <1>5, <1>6, <1>7, <1>8, <1>9, <1>10, <1>11, <1>12, <1>13,
     <1>14, <1>15, <1>16, <1>17, <1>18, <1>19, <1>20, <1>21, <1>22
     DEF Next, CallerStep, RunStep

(* The state of UdfpsSensor is always well typed; in particular the pipe    *)
(* never holds more than PipeCap bytes and is never read when it is empty.  *)
THEOREM TypeCorrect == Spec => []TypeOK
<1>1. TypeInv => TypeOK
  BY DEF TypeInv
<1> QED
  BY InitTypeInv, NextTypeInv, <1>1, PTL DEF Spec

LEMMA TypeInvHolds == Spec => []TypeInv
BY InitTypeInv, NextTypeInv, PTL DEF Spec

-----------------------------------------------------------------------------
(* One event per activation.  Armed is the right thing to count: an event  *)
(* may still come out of a poll cycle after the sensor was switched off.   *)

LEMMA InitAtMostOne == Init => AtMostOnePerActivation
BY DEF Init, AtMostOnePerActivation, Armed

LEMMA NextAtMostOne ==
    TypeOK /\ AtMostOnePerActivation /\ [Next]_vars => AtMostOnePerActivation'
<1> SUFFICES ASSUME TypeOK, AtMostOnePerActivation, [Next]_vars
             PROVE  AtMostOnePerActivation'
  OBVIOUS
<1> USE DEF TypeOK, AtMostOnePerActivation, Armed,
            sensorVars, threadVars, callerVars, touchVars, histVars, pipeVars
<1>1. ASSUME NEW c \in Callers, CallActivate(c) PROVE AtMostOnePerActivation'
  BY <1>1 DEF CallActivate, Call
<1>2. ASSUME NEW c \in Callers, CallSetOperationMode(c) PROVE AtMostOnePerActivation'
  BY <1>2 DEF CallSetOperationMode, Call
<1>3. ASSUME NEW c \in Callers, ActivateNoChange(c) PROVE AtMostOnePerActivation'
  BY <1>3 DEF ActivateNoChange
<1>4. ASSUME NEW c \in Callers, ActivateChange(c) PROVE AtMostOnePerActivation'
  BY <1>4 DEF ActivateChange
<1>5. ASSUME NEW c \in Callers, ActivateInterrupt(c) PROVE AtMostOnePerActivation'
  BY <1>5 DEF ActivateInterrupt, NotifyAll
<1>6. ASSUME NEW c \in Callers, SetMode(c) PROVE AtMostOnePerActivation'
  BY <1>6 DEF SetMode, NotifyAll
<1>7. ASSUME NEW c \in Callers, SetModeInterrupt(c) PROVE AtMostOnePerActivation'
  BY <1>7 DEF SetModeInterrupt
<1>8. CASE RunStart
  BY <1>8 DEF RunStart
<1>9. CASE RunExit
  BY <1>9 DEF RunExit
<1>10. CASE RunPark
  BY <1>10 DEF RunPark
<1>11. CASE RunRecheck
  BY <1>11 DEF RunRecheck
<1>12. CASE RunUnlockAndPoll
  BY <1>12 DEF RunUnlockAndPoll, Running
<1>13. CASE PollReturns
  BY <1>13 DEF PollReturns
<1>14. CASE RunRelock
  BY <1>14 DEF RunRelock
<1>15. CASE HandlePollError
  BY <1>15 DEF HandlePollError
<1>16. CASE ReportPress
  BY <1>16 DEF ReportPress
<1>17. CASE HandleNoReport
  BY <1>17 DEF HandleNoReport, DrainAndArm
<1>18. CASE HandleReadFailure
  BY <1>18 DEF HandleReadFailure, DrainAndArm
<1>19. CASE SpuriousWakeup
  BY <1>19 DEF SpuriousWakeup
<1>20. CASE PollFails
  BY <1>20 DEF PollFails
<1>21. CASE FingerChange
  BY <1>21 DEF FingerChange
<1>22. CASE UNCHANGED vars
  BY <1>22 DEF vars
<1> QED
  BY <1>1, <1>2, <1>3, <1>4, <1>5, <1>6, <1>7, <1>8, <1>9, <1>10, <1>11, <1>12, <1>13,
     <1>14, <1>15, <1>16, <1>17, <1>18, <1>19, <1>20, <1>21, <1>22
     DEF Next, CallerStep, RunStep

(* Each activation of the sensor yields at most one event, whatever the    *)
(* interleaving of HAL calls, interrupts, touches and failures.            *)
THEOREM OneEventPerActivation == Spec => []AtMostOnePerActivation
BY TypeCorrect, InitAtMostOne, NextAtMostOne, PTL DEF Spec

-----------------------------------------------------------------------------
(* The wake-up protocol: neither of the run thread's two waits is missed.  *)
WakeInv == StoppedNeverPolls /\ PollInterrupted /\ NoLostNotify

LEMMA InitWakeInv == Init => WakeInv
<1> SUFFICES ASSUME Init PROVE WakeInv
  OBVIOUS
<1>1. ~pipeOpen => mStopThread
  BY Zenon DEF Init
<1> QED
  BY <1>1 DEF Init, WakeInv, StoppedNeverPolls, PollInterrupted, NoLostNotify

LEMMA NextWakeInv == TypeOK /\ WakeInv /\ [Next]_vars => WakeInv'
<1> SUFFICES ASSUME TypeOK, WakeInv, [Next]_vars PROVE WakeInv'
  OBVIOUS
<1> USE ConstantsAssumption, NobodyAssumption
    DEF TypeOK, CallerPCs, Modes, WakeInv, StoppedNeverPolls, PollInterrupted, NoLostNotify,
        Running, sensorVars, threadVars, callerVars, touchVars, histVars, pipeVars
<1>1. ASSUME NEW c \in Callers, CallActivate(c) PROVE WakeInv'
  BY <1>1 DEF CallActivate, Call
<1>2. ASSUME NEW c \in Callers, CallSetOperationMode(c) PROVE WakeInv'
  BY <1>2 DEF CallSetOperationMode, Call
<1>3. ASSUME NEW c \in Callers, ActivateNoChange(c) PROVE WakeInv'
  BY <1>3 DEF ActivateNoChange
<1>4. ASSUME NEW c \in Callers, ActivateChange(c) PROVE WakeInv'
  BY <1>4 DEF ActivateChange
<1>5. ASSUME NEW c \in Callers, ActivateInterrupt(c) PROVE WakeInv'
  BY <1>5 DEF ActivateInterrupt, InterruptPoll, NotifyAll
<1>6. ASSUME NEW c \in Callers, SetMode(c) PROVE WakeInv'
  BY <1>6 DEF SetMode, NotifyAll
<1>7. ASSUME NEW c \in Callers, SetModeInterrupt(c) PROVE WakeInv'
  BY <1>7 DEF SetModeInterrupt, InterruptPoll
<1>8. CASE RunStart
  BY <1>8 DEF RunStart
<1>9. CASE RunExit
  BY <1>9 DEF RunExit
<1>10. CASE RunPark
  BY <1>10 DEF RunPark
<1>11. CASE RunRecheck
  BY <1>11 DEF RunRecheck
<1>12. CASE RunUnlockAndPoll
  BY <1>12 DEF RunUnlockAndPoll
<1>13. CASE PollReturns
  BY <1>13 DEF PollReturns, PollReady
<1>14. CASE RunRelock
  BY <1>14 DEF RunRelock
<1>15. CASE HandlePollError
  BY <1>15 DEF HandlePollError
<1>16. CASE ReportPress
  BY <1>16 DEF ReportPress
<1>17. CASE HandleNoReport
  BY <1>17 DEF HandleNoReport, DrainAndArm
<1>18. CASE HandleReadFailure
  BY <1>18 DEF HandleReadFailure, DrainAndArm
<1>19. CASE SpuriousWakeup
  BY <1>19 DEF SpuriousWakeup
<1>20. CASE PollFails
  BY <1>20 DEF PollFails
<1>21. CASE FingerChange
  BY <1>21 DEF FingerChange
<1>22. CASE UNCHANGED vars
  BY <1>22 DEF vars
<1> QED
  BY <1>1, <1>2, <1>3, <1>4, <1>5, <1>6, <1>7, <1>8, <1>9, <1>10, <1>11, <1>12, <1>13,
     <1>14, <1>15, <1>16, <1>17, <1>18, <1>19, <1>20, <1>21, <1>22
     DEF Next, CallerStep, RunStep

(* The run thread is never left in poll(2) after the sensor was switched   *)
(* off or to injection, nor asleep after it was switched on, without an    *)
(* interrupt byte or a notification that is already there or on its way.   *)
THEOREM NoMissedWakeup == Spec => []NothingSleptThrough
<1>1. WakeInv => NothingSleptThrough
  BY DEF WakeInv, NothingSleptThrough
<1> QED
  BY TypeCorrect, InitWakeInv, NextWakeInv, <1>1, PTL DEF Spec

-----------------------------------------------------------------------------
(* A notification raised while the thread was parked cannot survive into   *)
(* the armed phase: the first poll after a park reports it as ready, so    *)
(* the handling that arms also consumes it.                                *)
ParkInv ==
    /\ rpc \in {"start", "wait", "woken"} => ~reportEvent
    /\ fpEvent = "parked" => ~reportEvent
    /\ rpc \in {"relock", "handle"} /\ "error" \notin revents =>
          ("fp" \in revents => fpEvent # "none") /\ (fpEvent = "parked" => "fp" \in revents)
    /\ rpc \in {"relock", "handle"} => "error" \notin revents

LEMMA InitParkInv == Init => ParkInv
BY DEF Init, ParkInv

LEMMA NextParkInv ==
    ASSUME ~Faults PROVE TypeOK /\ ParkInv /\ [Next]_vars => ParkInv'
<1> SUFFICES ASSUME TypeOK, ParkInv, [Next]_vars PROVE ParkInv'
  OBVIOUS
<1> USE ~Faults DEF TypeOK, ParkInv, RunPCs, sensorVars, threadVars, callerVars, touchVars, histVars, pipeVars
<1>1. ASSUME NEW c \in Callers, CallActivate(c) PROVE ParkInv'
  BY <1>1 DEF CallActivate, Call
<1>2. ASSUME NEW c \in Callers, CallSetOperationMode(c) PROVE ParkInv'
  BY <1>2 DEF CallSetOperationMode, Call
<1>3. ASSUME NEW c \in Callers, ActivateNoChange(c) PROVE ParkInv'
  BY <1>3 DEF ActivateNoChange
<1>4. ASSUME NEW c \in Callers, ActivateChange(c) PROVE ParkInv'
  BY <1>4 DEF ActivateChange
<1>5. ASSUME NEW c \in Callers, ActivateInterrupt(c) PROVE ParkInv'
  BY <1>5 DEF ActivateInterrupt, InterruptPoll, NotifyAll
<1>6. ASSUME NEW c \in Callers, SetMode(c) PROVE ParkInv'
  BY <1>6 DEF SetMode, NotifyAll
<1>7. ASSUME NEW c \in Callers, SetModeInterrupt(c) PROVE ParkInv'
  BY <1>7 DEF SetModeInterrupt, InterruptPoll
<1>8. CASE RunStart
  BY <1>8 DEF RunStart
<1>9. CASE RunExit
  BY <1>9 DEF RunExit
<1>10. CASE RunPark
  BY <1>10 DEF RunPark
<1>11. CASE RunRecheck
  BY <1>11 DEF RunRecheck
<1>12. CASE RunUnlockAndPoll
  BY <1>12 DEF RunUnlockAndPoll
<1>13. CASE PollReturns
  BY <1>13 DEF PollReturns, PollReady
<1>14. CASE RunRelock
  BY <1>14 DEF RunRelock
<1>15. CASE HandlePollError
  BY <1>15 DEF HandlePollError
<1>16. CASE ReportPress
  BY <1>16 DEF ReportPress, PressSeen
<1>17. CASE HandleNoReport
  BY <1>17 DEF HandleNoReport, DrainAndArm
<1>18. CASE HandleReadFailure
  BY <1>18 DEF HandleReadFailure, DrainAndArm
<1>19. CASE SpuriousWakeup
  BY <1>19 DEF SpuriousWakeup
<1>20. CASE PollFails
  BY <1>20 DEF PollFails
<1>21. CASE FingerChange
  BY <1>21 DEF FingerChange
<1>22. CASE UNCHANGED vars
  BY <1>22 DEF vars
<1> QED
  BY <1>1, <1>2, <1>3, <1>4, <1>5, <1>6, <1>7, <1>8, <1>9, <1>10, <1>11, <1>12, <1>13,
     <1>14, <1>15, <1>16, <1>17, <1>18, <1>19, <1>20, <1>21, <1>22
     DEF Next, CallerStep, RunStep

(* When neither poll nor the sysfs read fails, a touch that was notified   *)
(* while the sensor was off never produces an event.                       *)
THEOREM ParkedTouchNeverDelivered ==
    ASSUME ~Faults PROVE Spec => NoParkedTouchDelivered
<1>1. TypeOK /\ ParkInv /\ [Next]_vars => [posts' # posts => fpEvent = "live"]_vars
  <2> SUFFICES ASSUME TypeOK, ParkInv, Next, posts' # posts PROVE fpEvent = "live"
    OBVIOUS
  <2>1. ReportPress
    BY DEF Next, CallerStep, RunStep, CallActivate, CallSetOperationMode, Call,
           ActivateNoChange, ActivateChange, ActivateInterrupt, SetMode, SetModeInterrupt,
           RunStart, RunExit, RunPark, RunRecheck, RunUnlockAndPoll, PollReturns, RunRelock,
           HandlePollError, HandleNoReport, HandleReadFailure, DrainAndArm, SpuriousWakeup,
           PollFails, FingerChange, histVars
  <2> QED
    BY <2>1 DEF ReportPress, PressSeen, TypeOK, ParkInv
<1>2. TypeOK /\ ParkInv /\ [Next]_vars => ParkInv'
  BY NextParkInv
<1> QED
  BY TypeCorrect, InitParkInv, <1>1, <1>2, PTL DEF Spec, NoParkedTouchDelivered

-----------------------------------------------------------------------------
(* The sensor implements the one-shot contract.                            *)

LEMMA InitOneShot == Init => OneShot!Init
BY DEF Init, OneShot!Init, Armed

LEMMA NextOneShot == [Next]_vars => [OneShot!Next]_(OneShot!vars)
<1> SUFFICES ASSUME [Next]_vars PROVE [OneShot!Next]_(OneShot!vars)
  OBVIOUS
<1> USE DEF OneShot!Next, OneShot!vars, OneShot!Activate, OneShot!Disarm, OneShot!Fire, Armed,
            sensorVars, threadVars, callerVars, touchVars, histVars, pipeVars
<1>1. ASSUME NEW c \in Callers, CallActivate(c) PROVE [OneShot!Next]_(OneShot!vars)
  BY <1>1 DEF CallActivate, Call
<1>2. ASSUME NEW c \in Callers, CallSetOperationMode(c) PROVE [OneShot!Next]_(OneShot!vars)
  BY <1>2 DEF CallSetOperationMode, Call
<1>3. ASSUME NEW c \in Callers, ActivateNoChange(c) PROVE [OneShot!Next]_(OneShot!vars)
  BY <1>3 DEF ActivateNoChange
<1>4. ASSUME NEW c \in Callers, ActivateChange(c) PROVE [OneShot!Next]_(OneShot!vars)
  BY <1>4 DEF ActivateChange
<1>5. ASSUME NEW c \in Callers, ActivateInterrupt(c) PROVE [OneShot!Next]_(OneShot!vars)
  BY <1>5 DEF ActivateInterrupt, NotifyAll
<1>6. ASSUME NEW c \in Callers, SetMode(c) PROVE [OneShot!Next]_(OneShot!vars)
  BY <1>6 DEF SetMode, NotifyAll
<1>7. ASSUME NEW c \in Callers, SetModeInterrupt(c) PROVE [OneShot!Next]_(OneShot!vars)
  BY <1>7 DEF SetModeInterrupt
<1>8. CASE RunStart
  BY <1>8 DEF RunStart
<1>9. CASE RunExit
  BY <1>9 DEF RunExit
<1>10. CASE RunPark
  BY <1>10 DEF RunPark
<1>11. CASE RunRecheck
  BY <1>11 DEF RunRecheck
<1>12. CASE RunUnlockAndPoll
  BY <1>12 DEF RunUnlockAndPoll, Running
<1>13. CASE PollReturns
  BY <1>13 DEF PollReturns
<1>14. CASE RunRelock
  BY <1>14 DEF RunRelock
<1>15. CASE HandlePollError
  BY <1>15 DEF HandlePollError
<1>16. CASE ReportPress
  BY <1>16 DEF ReportPress
<1>17. CASE HandleNoReport
  BY <1>17 DEF HandleNoReport, DrainAndArm
<1>18. CASE HandleReadFailure
  BY <1>18 DEF HandleReadFailure, DrainAndArm
<1>19. CASE SpuriousWakeup
  BY <1>19 DEF SpuriousWakeup
<1>20. CASE PollFails
  BY <1>20 DEF PollFails
<1>21. CASE FingerChange
  BY <1>21 DEF FingerChange
<1>22. CASE UNCHANGED vars
  BY <1>22 DEF vars
<1> QED
  BY <1>1, <1>2, <1>3, <1>4, <1>5, <1>6, <1>7, <1>8, <1>9, <1>10, <1>11, <1>12, <1>13,
     <1>14, <1>15, <1>16, <1>17, <1>18, <1>19, <1>20, <1>21, <1>22
     DEF Next, CallerStep, RunStep

(* Every behaviour of the detailed sensor is one of the abstract one-shot  *)
(* sensor, with Armed for its arming and posts for its events.             *)
THEOREM SensorIsOneShot == Spec => ImplementsOneShot
<1>1. Init /\ [][Next]_vars => OneShot!Init /\ [][OneShot!Next]_(OneShot!vars)
  BY InitOneShot, NextOneShot, PTL
<1> QED
  BY <1>1 DEF Spec, ImplementsOneShot, OneShot!Spec
=============================================================================
