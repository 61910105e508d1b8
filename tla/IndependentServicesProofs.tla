-------------------- MODULE IndependentServicesProofs ---------------------
(***************************************************************************)
(* Safety of the services that share no state, each for any values of its  *)
(* constants: TouchPanel, TfaAmplifier, IfaaService, FolioDaemon,          *)
(* LiveDisplay, RichTapVibrator and VibrationEffects with the              *)
(* CompletionThreads they share.  Each has an inductive invariant of its   *)
(* own.                                                                    *)
(***************************************************************************)
EXTENDS TouchPanel, TfaAmplifier, IfaaService, FolioDaemon, LiveDisplay,
        RichTapVibrator, VibrationEffects, SequenceTheorems, TLAPS

-----------------------------------------------------------------------------
(* TouchPanel *)

USE DEF Clients, Touch, Power

\* A client about to write agrees with what is acknowledged on every bit but its
\* own, those written since it read the node, and those already lost.
CopyInForce(c) ==
    pc[c] \in {"enable", "write"} =>
        /\ \A b \in Bits \ ({bit[c]} \cup stale[c] \cup lost) : b \in contents[c] <=> b \in asked
        /\ bit[c] \in contents[c] <=> on[c]

Owned(c) == IF c = Touch THEN Gestures ELSE {DOUBLE_TAP_GESTURE}

\* The two clients own different bits, and each asks for its own.
AsksForOwn == \A c \in Clients : bit[c] \in Owned(c) \/ pc[c] = "idle"

Inv ==
    /\ TypeOK
    /\ AsksForOwn
    /\ \A c \in Clients : CopyInForce(c)
    /\ AcknowledgedInForce

-----------------------------------------------------------------------------
\* The keycode conversions cancel out: a request changes the bit it names.
LEMMA BitOfIsBit ==
  ASSUME TypeOK, AsksForOwn, NEW c \in Clients, pc[c] # "idle"
  PROVE  BitOf(c) = bit[c]
<1>1. bit[c] \in Int
  <2>1. bit[c] \in Bits
    BY DEF TypeOK
  <2>2. Bits \subseteq Int
    BY ConstantsAssumption DEF Bits, kSupportedGestures, kGestureNames, DOUBLE_TAP_GESTURE
  <2> QED BY <2>1, <2>2
<1>2. c = Power => bit[c] = DOUBLE_TAP_GESTURE
  BY DEF AsksForOwn, Owned
<1> QED BY <1>1, <1>2 DEF BitOf, Bit, Keycode, kGestureStartKey

LEMMA WithType ==
  ASSUME NEW S, NEW x, NEW present, NEW T, S \subseteq T, x \in T
  PROVE  With(S, x, present) \subseteq T
  BY DEF With

LEMMA WithMember ==
  ASSUME NEW S, NEW x, NEW present \in BOOLEAN, NEW b
  PROVE  b \in With(S, x, present) <=> IF b = x THEN present ELSE b \in S
  BY DEF With

-----------------------------------------------------------------------------
LEMMA InitInv == Init => Inv
<1> SUFFICES ASSUME Init PROVE Inv
  OBVIOUS
<1>1. DOUBLE_TAP_GESTURE \in Bits /\ 0 \in 0 .. MaxRequests
  BY ConstantsAssumption DEF Bits
<1>2. TypeOK
  BY <1>1 DEF Init, TypeOK
<1>3. AsksForOwn /\ (\A c \in Clients : CopyInForce(c)) /\ AcknowledgedInForce
  BY DEF Init, AsksForOwn, CopyInForce, AcknowledgedInForce
<1> QED BY <1>2, <1>3 DEF Inv

\* Writing the node back: whatever the other client wrote since this one read it
\* is lost, and everything else is as acknowledged.
LEMMA WriteIndepKeepsInv ==
  ASSUME Inv, NEW c \in Clients, WriteIndep(c), UNCHANGED useOplusTouch
  PROVE  Inv'
<1> USE DEF Inv
<1>1. bit[c] \in Bits /\ on[c] \in BOOLEAN /\ contents[c] \subseteq Bits /\ stale[c] \subseteq Bits
  BY DEF TypeOK
<1>2. \A b : b \in asked' <=> IF b = bit[c] THEN on[c] ELSE b \in asked
  BY <1>1, WithMember DEF WriteIndep
<1>3. TypeOK'
  <2>1. asked' \subseteq Bits
    BY <1>1, WithType DEF WriteIndep, TypeOK
  <2>2. pc' \in [Clients -> {"idle", "read", "enable", "write"}]
    BY DEF WriteIndep, Goto, TypeOK
  <2>3. stale' \in [Clients -> SUBSET Bits] /\ lost' \subseteq Bits
    BY <1>1 DEF WriteIndep, TypeOK
  <2> QED BY <1>1, <2>1, <2>2, <2>3 DEF WriteIndep, switch, TypeOK
<1>4. AsksForOwn'
  BY DEF WriteIndep, Goto, AsksForOwn, TypeOK
<1>5. ASSUME NEW d \in Clients PROVE CopyInForce(d)'
  <2>1. CASE d = c
    BY <2>1 DEF WriteIndep, Goto, CopyInForce, TypeOK
  <2>2. CASE d # c
    <3>1. /\ pc'[d] = pc[d] /\ bit' = bit /\ on' = on /\ contents' = contents
          /\ stale'[d] = stale[d] \cup {bit[c]}
          /\ lost \subseteq lost' \cup {bit[c]}
      BY <2>2 DEF WriteIndep, Goto, TypeOK
    <3> QED BY <1>2, <2>2, <3>1 DEF CopyInForce
  <2> QED BY <2>1, <2>2
<1>6. AcknowledgedInForce'
  <2>1. indep' = contents[c] /\ stale[c] \subseteq lost' \cup {bit[c]} /\ lost \subseteq lost' \cup {bit[c]}
    BY DEF WriteIndep
  <2>2. pc[c] = "write" /\ CopyInForce(c)
    BY DEF WriteIndep
  <2>3. \A b \in Bits \ lost' : b \in indep' <=> b \in asked'
    BY <1>2, <2>1, <2>2 DEF CopyInForce
  <2>4. UNCHANGED <<switches, askedSwitches>>
    BY DEF WriteIndep, switch
  <2> QED BY <2>3, <2>4 DEF AcknowledgedInForce
<1> QED BY <1>3, <1>4, <1>5, <1>6

\* A failed write leaves the node alone; if it is acknowledged all the same, the
\* bit is counted as lost.
LEMMA WriteIndepFailsKeepsInv ==
  ASSUME Inv, NEW c \in Clients, WriteIndepFails(c), UNCHANGED useOplusTouch
  PROVE  Inv'
<1> USE DEF Inv
<1>1. bit[c] \in Bits /\ on[c] \in BOOLEAN
  BY DEF TypeOK
<1>2. \/ asked' = With(asked, bit[c], on[c]) /\ lost' = lost \cup {bit[c]}
      \/ UNCHANGED <<asked, lost>>
  BY DEF WriteIndepFails, Acknowledged
<1>3. \A b : b \notin lost' => (b \in asked' <=> b \in asked)
  BY <1>1, <1>2, WithMember
<1>4. TypeOK'
  <2>1. asked' \subseteq Bits /\ lost' \subseteq Bits
    BY <1>1, <1>2, WithType DEF TypeOK
  <2>2. pc' \in [Clients -> {"idle", "read", "enable", "write"}]
    BY DEF WriteIndepFails, Goto, TypeOK
  <2> QED BY <2>1, <2>2 DEF WriteIndepFails, node, switch, TypeOK
<1>5. AsksForOwn'
  BY DEF WriteIndepFails, Goto, AsksForOwn, TypeOK
<1>6. ASSUME NEW d \in Clients PROVE CopyInForce(d)'
  <2>1. /\ d # c => pc'[d] = pc[d]
        /\ d = c => pc'[d] = "idle"
        /\ UNCHANGED <<bit, on, contents, stale>> /\ lost \subseteq lost'
    BY <1>2 DEF WriteIndepFails, Goto, TypeOK
  <2> QED BY <1>3, <2>1 DEF CopyInForce
<1>7. AcknowledgedInForce'
  <2>1. UNCHANGED <<indep, switches, askedSwitches>> /\ lost \subseteq lost'
    BY <1>2 DEF WriteIndepFails, node, switch
  <2> QED BY <1>3, <2>1 DEF AcknowledgedInForce
<1> QED BY <1>4, <1>5, <1>6, <1>7

\* What a client reads is in force, and its own bit becomes what it was asked for.
LEMMA ReadKeepsInv ==
  ASSUME Inv, NEW c \in Clients, Read(c), UNCHANGED useOplusTouch
  PROVE  Inv'
<1> USE DEF Inv
<1>1. bit[c] \in Bits /\ on[c] \in BOOLEAN /\ BitOf(c) = bit[c]
  BY BitOfIsBit DEF TypeOK, Read
<1>2. contents'[c] = With(indep, bit[c], on[c]) /\ stale'[c] = {}
  BY <1>1 DEF Read, Changed, TypeOK
<1>3. TypeOK'
  <2>1. With(indep, bit[c], on[c]) \subseteq Bits
    BY <1>1, WithType DEF TypeOK
  <2>2. contents' \in [Clients -> SUBSET Bits]
    BY <1>1, <2>1 DEF Read, Changed, TypeOK
  <2>3. /\ pc' \in [Clients -> {"idle", "read", "enable", "write"}]
        /\ stale' \in [Clients -> SUBSET Bits]
    BY DEF Read, Goto, TypeOK
  <2> QED BY <2>2, <2>3 DEF Read, node, switch, TypeOK
<1>4. AsksForOwn'
  BY DEF Read, Goto, AsksForOwn, TypeOK
<1>5. ASSUME NEW d \in Clients PROVE CopyInForce(d)'
  <2>1. CASE d = c
    <3>1. \A b : b \in contents'[c] <=> IF b = bit[c] THEN on[c] ELSE b \in indep
      BY <1>1, <1>2, WithMember
    <3>2. UNCHANGED <<bit, on, asked, lost>>
      BY DEF Read
    <3> QED BY <1>1, <2>1, <3>1, <3>2 DEF CopyInForce, AcknowledgedInForce
  <2>2. CASE d # c
    BY <2>2 DEF Read, Goto, CopyInForce, TypeOK
  <2> QED BY <2>1, <2>2
<1>6. AcknowledgedInForce'
  BY DEF Read, node, switch, AcknowledgedInForce
<1> QED BY <1>3, <1>4, <1>5, <1>6

LEMMA RequestKeepsInv ==
  ASSUME Inv, NEW c \in Clients, NEW b \in Bits, b \in Owned(c), NEW want \in BOOLEAN,
         Request(c, b, want), UNCHANGED useOplusTouch
  PROVE  Inv'
<1> USE DEF Inv
<1>1. TypeOK'
  <2>1. requests' \in 0 .. MaxRequests
    BY ConstantsAssumption DEF Request, TypeOK
  <2>2. /\ pc' \in [Clients -> {"idle", "read", "enable", "write"}]
        /\ bit' \in [Clients -> Bits]
    BY DEF Request, Goto, TypeOK
  <2>3. on' \in [Clients -> BOOLEAN]
    BY DEF Request, TypeOK
  <2> QED BY <2>1, <2>2, <2>3 DEF Request, node, switch, history, TypeOK
<1>2. AsksForOwn'
  BY DEF Request, Goto, AsksForOwn, TypeOK
<1>3. ASSUME NEW d \in Clients PROVE CopyInForce(d)'
  <2>1. CASE d = c
    BY <2>1 DEF Request, Goto, CopyInForce, TypeOK
  <2>2. CASE d # c
    BY <2>2 DEF Request, Goto, CopyInForce, history, TypeOK
  <2> QED BY <2>1, <2>2
<1>4. AcknowledgedInForce'
  BY DEF Request, node, switch, history, AcknowledgedInForce
<1> QED BY <1>1, <1>2, <1>3, <1>4

\* A switch that is acknowledged over /proc was written.
LEMMA SetEnabledKeepsInv ==
  ASSUME Inv, NEW s \in Switches, NEW want \in BOOLEAN, SetEnabled(s, want),
         UNCHANGED useOplusTouch
  PROVE  Inv'
<1> USE DEF Inv
<1>1. With(switches, s, want) \subseteq Switches /\ With(askedSwitches, s, want) \subseteq Switches
  BY WithType DEF TypeOK
<1>2. switches' \subseteq Switches /\ askedSwitches' \subseteq Switches
  BY <1>1 DEF SetEnabled, TypeOK
<1>3. requests' \in 0 .. MaxRequests
  BY ConstantsAssumption DEF SetEnabled, TypeOK
<1>4. UNCHANGED <<node, pc, bit, on, contents, history>>
  BY DEF SetEnabled
<1>5. TypeOK'
  BY <1>2, <1>3, <1>4 DEF node, history, TypeOK
<1>6. AsksForOwn' /\ \A c \in Clients : CopyInForce(c)'
  BY <1>4 DEF history, AsksForOwn, CopyInForce
<1>7. AcknowledgedInForce'
  <2>1. \/ switches' = With(switches, s, want) /\ askedSwitches' = With(askedSwitches, s, want)
        \/ switches' = switches /\ (askedSwitches' = askedSwitches \/ useOplusTouch)
    BY Zenon DEF SetEnabled, Acknowledged, ViaOplusTouch
  <2> QED BY <1>4, <2>1 DEF node, history, AcknowledgedInForce
<1> QED BY <1>5, <1>6, <1>7

LEMMA NextInv == Inv /\ [Next]_vars => Inv'
<1> SUFFICES ASSUME Inv, [Next]_vars PROVE Inv'
  OBVIOUS
<1>1. ASSUME NEW want \in BOOLEAN, SetGestureEnabled(want), UNCHANGED useOplusTouch PROVE Inv'
  BY <1>1, RequestKeepsInv DEF SetGestureEnabled, Bits, Owned
<1>2. ASSUME NEW want \in BOOLEAN, SetDeviceSpecificMode(want), UNCHANGED useOplusTouch
      PROVE  Inv'
  BY <1>2, RequestKeepsInv DEF SetDeviceSpecificMode, Bits, Owned
<1>3. ASSUME NEW c \in Clients, ReadFails(c), UNCHANGED useOplusTouch PROVE Inv'
  <2>1. TypeOK'
    BY <1>3 DEF Inv, ReadFails, Goto, node, switch, history, TypeOK
  <2>2. AsksForOwn' /\ (\A d \in Clients : CopyInForce(d)')
    BY <1>3 DEF Inv, ReadFails, Goto, history, AsksForOwn, CopyInForce, TypeOK
  <2>3. AcknowledgedInForce'
    BY <1>3 DEF Inv, ReadFails, node, switch, history, AcknowledgedInForce
  <2> QED BY <2>1, <2>2, <2>3 DEF Inv
<1>4. ASSUME NEW c \in Clients, WriteEnable(c), UNCHANGED useOplusTouch PROVE Inv'
  <2>1. enable' \in BOOLEAN
    BY <1>4, Zenon DEF Inv, WriteEnable, TypeOK
  <2>2. pc' \in [Clients -> {"idle", "read", "enable", "write"}]
    BY <1>4 DEF Inv, WriteEnable, Goto, TypeOK
  <2>3. TypeOK'
    BY <1>4, <2>1, <2>2 DEF Inv, WriteEnable, switch, history, TypeOK
  <2>4. AsksForOwn' /\ (\A d \in Clients : CopyInForce(d)')
    BY <1>4 DEF Inv, WriteEnable, Goto, history, AsksForOwn, CopyInForce, TypeOK
  <2>5. AcknowledgedInForce'
    BY <1>4 DEF Inv, WriteEnable, switch, history, AcknowledgedInForce
  <2> QED BY <2>3, <2>4, <2>5 DEF Inv
<1>5. CASE UNCHANGED vars
  BY <1>5 DEF vars, node, switch, client, history, Inv, TypeOK, AsksForOwn, CopyInForce,
              AcknowledgedInForce
<1> QED BY <1>1, <1>2, <1>3, <1>4, <1>5, ReadKeepsInv, WriteIndepKeepsInv,
           WriteIndepFailsKeepsInv, SetEnabledKeepsInv
        DEF Next, SetGloveMode, SetHighTouchPollingRate, Switches

\* The model is well typed, and every gesture is as last acknowledged except those
\* that a write of the other process or a failure of IOplusTouch has undone.
THEOREM AcknowledgedStaysInForce == Spec => [](TypeOK /\ AcknowledgedInForce)
<1>1. Inv => TypeOK /\ AcknowledgedInForce
  BY DEF Inv
<1> QED BY <1>1, InitInv, NextInv, PTL DEF Spec

-----------------------------------------------------------------------------
(* TfaAmplifier *)

\* A feedback that runs; the device counts if it could be enabled.
Whole(device, route) ==
    [stream |-> TRUE, listed |-> 1, allocated |-> 1, device |-> device, route |-> route]

\* Between two calls of the HAL the feedback is whole or nothing.
Held ==
    \/ feedback = NoFeedback
    \/ \E device \in {0, 1}, route \in BOOLEAN :
          feedback = Whole(device, route) /\ (halfEnabled \/ (device = 1 /\ route))

\* A start that failed has left nothing; that several speakers are in use is
\* noted until the last of them goes.
SpeakersInv ==
    /\ shared => InUse(outputs) # {}
    /\ ~shared => \A d, e \in InUse(outputs) : d = e
    /\ failed \in BOOLEAN /\ (failed => ~feedback.stream)
    /\ FeedbackFollowsSpeaker

AmplifierInv == Held /\ SpeakersInv

LEMMA WholeOrNothing ==
  /\ Held => FeedbackAllOrNothing
  /\ ~NoFeedback.stream
  /\ \A device, route : Whole(device, route).stream
<1>1. feedback = NoFeedback => FeedbackAllOrNothing
  BY DEF FeedbackAllOrNothing, NoFeedback
<1>2. \A device \in {0, 1}, route \in BOOLEAN :
         feedback = Whole(device, route) /\ (halfEnabled \/ (device = 1 /\ route))
           => FeedbackAllOrNothing
  BY DEF FeedbackAllOrNothing, Whole
<1> QED BY <1>1, <1>2 DEF Held, NoFeedback, Whole

LEMMA AmplifierInitInv == AmplifierInit => AmplifierInv
  BY WholeOrNothing DEF AmplifierInit, AmplifierInv, Held, SpeakersInv, FeedbackFollowsSpeaker, InUse

\* What the start acquires is whole, and what an error path undoes is what the
\* start acquired.
LEMMA AcquiredIsWhole ==
  ASSUME NEW device \in BOOLEAN, NEW route \in BOOLEAN, NEW open \in BOOLEAN
  PROVE  Acquired(NoFeedback, device, route, open) =
           [stream |-> open, listed |-> 1, allocated |-> 1,
            device |-> IF device THEN 1 ELSE 0, route |-> route]
BY DEF Acquired, NoFeedback

LEMMA ReleasedIsNothing ==
  ASSUME NEW device \in {0, 1}, NEW route \in BOOLEAN, NEW open \in BOOLEAN
  PROVE  Undone([stream |-> open, listed |-> 1, allocated |-> 1,
                 device |-> device, route |-> route]) = NoFeedback
<1> DEFINE f == [stream |-> open, listed |-> 1, allocated |-> 1,
                 device |-> device, route |-> route]
<1>1. DeviceDisabled(device) = 0
  BY DEF DeviceDisabled
<1>2. f.listed = 1 /\ f.allocated = 1 /\ f.device = device
  OBVIOUS
<1> HIDE DEF f
<1>3. Undone(f) = [stream |-> FALSE, listed |-> 0, allocated |-> 0, device |-> 0, route |-> FALSE]
  BY <1>1, <1>2 DEF Undone, Released
<1> QED BY <1>3 DEF f, NoFeedback

LEMMA UndoneIsNothing ==
  ASSUME NEW device \in BOOLEAN, NEW route \in BOOLEAN, NEW open \in BOOLEAN
  PROVE  Undone(Acquired(NoFeedback, device, route, open)) = NoFeedback
<1>1. CASE device
  BY <1>1, AcquiredIsWhole, ReleasedIsNothing
<1>2. CASE ~device
  BY <1>2, AcquiredIsWhole, ReleasedIsNothing
<1> QED BY <1>1, <1>2

\* tfa98xx_start_feedback ends with everything or with nothing.
LEMMA StartHolds ==
  ASSUME AmplifierInv, NEW d, start_feedback(d)
  PROVE  /\ Held'
         /\ (failed \in BOOLEAN /\ (failed => ~feedback.stream))'
         /\ is_speaker(d) => feedback'.stream \/ failed'
         /\ ~is_speaker(d) => UNCHANGED <<feedback, failed>>
<1>1. CASE feedback.stream \/ ~is_speaker(d)
  BY <1>1 DEF AmplifierInv, start_feedback, Held, SpeakersInv
<1>2. CASE ~feedback.stream /\ is_speaker(d)
  <2>1. feedback = NoFeedback
    BY <1>2, WholeOrNothing DEF AmplifierInv, Held
  <2>2. CASE feedback' = feedback /\ failed' = TRUE
    BY <1>2, <2>1, <2>2 DEF Held
  <2>3. ASSUME NEW device \in BOOLEAN, NEW route \in BOOLEAN,
               feedback' = Acquired(feedback, device, route, TRUE),
               failed' = FALSE, halfEnabled' = ~(device /\ route)
        PROVE  Held' /\ feedback'.stream
    <3>1. CASE device
      <4>1. feedback' = Whole(1, route)
        BY <2>1, <2>3, <3>1, AcquiredIsWhole DEF Whole
      <4> QED BY <2>3, <3>1, <4>1, WholeOrNothing DEF Held
    <3>2. CASE ~device
      <4>1. feedback' = Whole(0, route)
        BY <2>1, <2>3, <3>2, AcquiredIsWhole DEF Whole
      <4> QED BY <2>3, <3>2, <4>1, WholeOrNothing DEF Held
    <3> QED BY <3>1, <3>2
  <2>4. ASSUME NEW device \in BOOLEAN, NEW route \in BOOLEAN, NEW open \in BOOLEAN,
               feedback' = Undone(Acquired(feedback, device, route, open))
        PROVE  Held' /\ ~feedback'.stream
    BY <2>1, <2>4, UndoneIsNothing, WholeOrNothing DEF Held
  <2>5. \/ feedback' = feedback /\ failed' = TRUE
        \/ \E device, route \in BOOLEAN :
              \/ /\ feedback' = Acquired(feedback, device, route, TRUE)
                 /\ failed' = FALSE /\ halfEnabled' = ~(device /\ route)
              \/ /\ \E open \in BOOLEAN :
                       feedback' = Undone(Acquired(feedback, device, route, open))
                 /\ failed' = TRUE
    BY <1>2, Zenon DEF start_feedback
  <2> QED BY <1>2, <2>2, <2>3, <2>4, <2>5
<1> QED BY <1>1, <1>2

\* tfa98xx_stop_feedback leaves nothing.
LEMMA StopReleases ==
  ASSUME AmplifierInv, NEW d, stop_feedback(d)
  PROVE  /\ is_speaker(d) => feedback' = NoFeedback /\ failed' = FALSE
         /\ ~is_speaker(d) => feedback' = feedback /\ failed' = failed
         /\ Held'
<1>1. CASE ~is_speaker(d)
  BY <1>1 DEF stop_feedback, Stops, AmplifierInv, Held, SpeakersInv
<1>2. CASE is_speaker(d) /\ feedback = NoFeedback
  <2>1. DeviceDisabled(0) = 0
    BY DEF DeviceDisabled
  <2>2. feedback.listed = 0 /\ feedback.allocated = 0 /\ feedback.device = 0 /\ feedback.route = FALSE
    BY <1>2 DEF NoFeedback
  <2>3. ~(feedback.listed > 0)
    BY <2>2
  <2>4. feedback' = [stream |-> FALSE, listed |-> feedback.listed,
                     allocated |-> feedback.allocated,
                     device |-> DeviceDisabled(feedback.device), route |-> feedback.route]
    BY <1>2, <2>3, Zenon DEF stop_feedback, Stops
  <2>5. feedback' = NoFeedback
    BY <2>1, <2>2, <2>4, Zenon DEF NoFeedback
  <2> QED BY <1>2, <2>5 DEF stop_feedback, Stops, NoFeedback, Held
<1>3. CASE is_speaker(d) /\ feedback # NoFeedback
  <2>1. PICK device \in {0, 1}, route \in BOOLEAN : feedback = Whole(device, route)
    BY <1>3 DEF AmplifierInv, Held
  <2>2. Undone(feedback) = NoFeedback
    BY <2>1, ReleasedIsNothing DEF Whole
  <2>3. feedback.listed > 0
    BY <2>1 DEF Whole
  <2> QED BY <1>3, <2>2, <2>3 DEF stop_feedback, Stops, Held
<1> QED BY <1>1, <1>2, <1>3

LEMMA AmplifierNextInv == ASSUME AmplifierInv, [AmplifierNext]_amplifierVars PROVE AmplifierInv'
<1>1. CASE amp_module_open \/ amp_dev_close
  BY <1>1 DEF AmplifierInv, amp_module_open, amp_dev_close, Held, SpeakersInv,
              FeedbackFollowsSpeaker
<1>2. ASSUME NEW d \in Speakers \cup Others, EnableOutput(d) PROVE AmplifierInv'
  <2>1. start_feedback(d) /\ outputs' = outputs \cup {d}
        /\ shared' = (shared \/ (is_speaker(d) /\ InUse(outputs) # {}))
    BY <1>2 DEF EnableOutput
  <2>2. InUse(outputs)' = IF is_speaker(d) THEN InUse(outputs) \cup {d} ELSE InUse(outputs)
    BY <2>1 DEF InUse, is_speaker
  <2>3. Held' /\ (failed \in BOOLEAN /\ (failed => ~feedback.stream))'
    BY <2>1, StartHolds
  <2>4. CASE is_speaker(d)
    <3>1. feedback'.stream \/ failed'
      BY <2>1, <2>4, StartHolds
    <3> QED BY <2>1, <2>2, <2>3, <2>4, <3>1 DEF AmplifierInv, SpeakersInv, FeedbackFollowsSpeaker
  <2>5. CASE ~is_speaker(d)
    <3>1. UNCHANGED <<feedback, failed>>
      BY <2>1, <2>5, StartHolds
    <3> QED BY <2>1, <2>2, <2>3, <2>5, <3>1 DEF AmplifierInv, SpeakersInv, FeedbackFollowsSpeaker
  <2> QED BY <2>4, <2>5
<1>3. ASSUME NEW d \in Speakers \cup Others, DisableOutput(d) PROVE AmplifierInv'
  <2>1. /\ stop_feedback(d) /\ d \in outputs /\ outputs' = outputs \ {d}
        /\ shared' = (shared /\ InUse(outputs)' # {})
    BY <1>3 DEF DisableOutput, InUse
  <2>2. InUse(outputs)' = IF is_speaker(d) THEN InUse(outputs) \ {d} ELSE InUse(outputs)
    BY <2>1 DEF InUse, is_speaker
  <2>3. is_speaker(d) => d \in InUse(outputs)
    BY <2>1 DEF InUse, is_speaker
  <2>4. Held'
    BY <2>1, StopReleases
  <2>5. CASE is_speaker(d)
    <3>1. ~feedback'.stream /\ failed' = FALSE
      BY <2>1, <2>5, StopReleases, WholeOrNothing
    <3> QED BY <2>1, <2>2, <2>3, <2>4, <2>5, <3>1 DEF AmplifierInv, SpeakersInv, FeedbackFollowsSpeaker
  <2>6. CASE ~is_speaker(d)
    <3>1. feedback' = feedback /\ failed' = failed
      BY <2>1, <2>6, StopReleases
    <3> QED BY <2>1, <2>2, <2>4, <2>6, <3>1 DEF AmplifierInv, SpeakersInv, FeedbackFollowsSpeaker
  <2> QED BY <2>5, <2>6
<1>4. CASE UNCHANGED amplifierVars
  BY <1>4 DEF AmplifierInv, amplifierVars, Held, SpeakersInv, FeedbackFollowsSpeaker, InUse
<1> QED BY <1>1, <1>2, <1>3, <1>4 DEF AmplifierNext

\* tfa98xx_start_feedback leaves nothing half started, whichever of its calls
\* fails, and the feedback runs while a speaker is enabled.
THEOREM FeedbackWholeWhileSpeaker == AmplifierSpec => []FeedbackIsSound
<1>1. AmplifierInv => FeedbackAllOrNothing
  BY WholeOrNothing DEF AmplifierInv
<1>2. AmplifierInv => FeedbackFollowsSpeaker
  BY DEF AmplifierInv, SpeakersInv
<1>3. AmplifierInv => FeedbackIsSound
  BY <1>1, <1>2 DEF FeedbackIsSound
<1> QED BY <1>3, AmplifierInitInv, AmplifierNextInv, PTL DEF AmplifierSpec

-----------------------------------------------------------------------------
(* IfaaService *)

\* Whoever has linked to a process's death is told of it before the links are
\* gone; the thread that is about to cache its proxy counts as told when gap
\* says so.
Told(p) == links[p] > 0 \/ p \in gap

ProxiesInv ==
    /\ hal \in Processes
    /\ links \in [Processes -> Nat]
    /\ ipc \in [BinderThreads -> {"idle", "link", "cache", "invoke"}]
    /\ it \in [BinderThreads -> {NoProxy} \cup Processes]
    /\ _fpPayService \in {NoProxy} \cup Processes
    /\ \A t \in BinderThreads : ipc[t] \in {"link", "cache"} => it[t] \in Processes
    /\ \A t \in BinderThreads : ipc[t] = "cache" => Told(it[t])
    /\ _fpPayService # NoProxy => Told(_fpPayService)

LEMMA IfaaInitInv == IfaaInit => ProxiesInv
<1>1. 1 \in Processes
  BY IfaaAssumption DEF Processes
<1> QED BY <1>1 DEF IfaaInit, ProxiesInv

LEMMA IfaaNextInv == ASSUME ProxiesInv, [IfaaNext]_ifaaVars PROVE ProxiesInv'
<1> USE DEF ProxiesInv, Told
<1>0. NoProxy \notin Processes /\ Processes \subseteq Nat
  BY IfaaAssumption DEF Processes, NoProxy
<1>1. ASSUME NEW t \in BinderThreads, getFpPayService(t) PROVE ProxiesInv'
  BY <1>0, <1>1 DEF getFpPayService, IfaaGoto
<1>2. ASSUME NEW t \in BinderThreads, linkToDeath(t) PROVE ProxiesInv'
  <2>1. it[t] \in Processes /\ UNCHANGED <<hal, _fpPayService, it, gap>>
    BY <1>2 DEF linkToDeath
  <2>2. CASE /\ ipc' = [ipc EXCEPT ![t] = "cache"]
             /\ links' = [links EXCEPT ![it[t]] = @ + 1]
    <3>1. /\ links' \in [Processes -> Nat] /\ links'[it[t]] > 0
          /\ \A p \in Processes : links[p] > 0 => links'[p] > 0
      BY <2>1, <2>2
    <3>2. ipc' \in [BinderThreads -> {"idle", "link", "cache", "invoke"}]
      BY <2>2
    <3>3. ASSUME NEW u \in BinderThreads, ipc'[u] = "cache" PROVE Told(it[u])'
      BY <2>1, <2>2, <3>1, <3>3
    <3> QED BY <1>0, <2>1, <2>2, <3>1, <3>2, <3>3
  <2>3. CASE ipc' = [ipc EXCEPT ![t] = "idle"] /\ links' = links
    BY <1>0, <2>1, <2>3
  <2> QED BY <1>2, <2>2, <2>3 DEF linkToDeath, IfaaGoto, AfterLink
<1>3. ASSUME NEW t \in BinderThreads, Cache(t) PROVE ProxiesInv'
  BY <1>0, <1>3 DEF Cache, IfaaGoto
<1>4. ASSUME NEW t \in BinderThreads, Invoke(t) PROVE ProxiesInv'
  BY <1>0, <1>4 DEF Invoke, IfaaGoto
\* The recipient of p's death: the cache is empty now, and a thread that has
\* linked to p and not yet cached it is noted in gap.
<1>5. CASE DeathRecipient
  <2>1. PICK p \in Processes :
          /\ links[p] > 0
          /\ links' = [links EXCEPT ![p] = @ - 1]
          /\ _fpPayService' = NoProxy
          /\ gap' = IF \E t \in BinderThreads : it[t] = p /\ ipc[t] = "cache"
                      THEN gap \cup {p} ELSE gap
          /\ UNCHANGED <<hal, halUp, ipc, it>>
    BY <1>5 DEF DeathRecipient
  <2>2. links' \in [Processes -> Nat]
    BY <2>1
  <2>3. ASSUME NEW t \in BinderThreads, ipc'[t] = "cache" PROVE Told(it[t])'
    <3>1. CASE it[t] = p
      BY <2>1, <2>3, <3>1
    <3>2. CASE it[t] # p
      BY <1>0, <2>1, <2>3, <3>2
    <3> QED BY <3>1, <3>2
  <2> QED BY <1>0, <2>1, <2>2, <2>3
<1>6. CASE HalDies
  BY <1>6 DEF HalDies
<1>7. CASE HalStarts
  BY <1>7, IfaaAssumption DEF HalStarts, Processes
<1>8. CASE UNCHANGED ifaaVars
  BY <1>8 DEF ifaaVars
<1> QED BY <1>1, <1>2, <1>3, <1>4, <1>5, <1>6, <1>7, <1>8 DEF IfaaNext

\* IfaaService keeps a dead proxy only until its death recipient runs, except
\* one whose HAL died between linkToDeath and the assignment of the cache.
THEOREM DeadProxyGoes == IfaaSpec => []DeadProxyIsCleared
<1>1. ProxiesInv => DeadProxyIsCleared
  BY DEF ProxiesInv, Told, DeadProxyIsCleared
<1> QED BY <1>1, IfaaInitInv, IfaaNextInv, PTL DEF IfaaSpec

-----------------------------------------------------------------------------
(* FolioDaemon *)

Sides == {"open", "closed"}

\* The value that the input system will have once all that is under way has
\* been forwarded.
Forwarding ==
    IF events # <<>> THEN events[Len(events)]
    ELSE IF fpc \in {"sw", "syn"} THEN isClosed ELSE lid

LidInv ==
    /\ fpc \in {"ended", "find", "register", "poll", "sw", "syn"}
    /\ events \in Seq(Sides)
    /\ magnet \in Sides
    /\ told \in BOOLEAN
    /\ ~Registered => events = <<>> /\ told = FALSE
    /\ fpc \in {"find", "register"} => lid = "open"
    /\ Registered /\ ~told => events = <<>> /\ fpc = "poll" /\ lid = "open"
    /\ Registered /\ told => Forwarding = magnet

LEMMA NothingQueued == <<>> \in Seq(Sides)
BY EmptySeq

LEMMA FolioInitInv == FolioInit => LidInv
BY NothingQueued DEF Sides, FolioInit, LidInv, Registered

LEMMA EndInv == ASSUME End, magnet' \in Sides PROVE LidInv'
BY NothingQueued DEF End, LidInv, Registered

LEMMA FolioNextInv == ASSUME LidInv, [FolioNext]_folioVars PROVE LidInv'
<1>1. CASE Setup
  BY <1>1 DEF Setup, LidInv, Registered
<1>2. CASE FindSensor
  BY <1>2, EndInv DEF FindSensor, LidInv, Registered
<1>3. CASE RegisterSensor
  <2>1. CASE /\ fpc = "register" /\ fpc' = "poll"
             /\ events' = <<magnet>> /\ told' = TRUE
             /\ UNCHANGED <<isClosed, lid, magnet>>
    <3>1. /\ events' \in Seq(Sides) /\ events' # <<>>
          /\ Len(events') = 1 /\ events'[1] = magnet
      BY <2>1 DEF LidInv
    <3> QED BY <2>1, <3>1 DEF LidInv, Registered, Forwarding
  <2>2. CASE /\ fpc = "register" /\ fpc' = "poll"
             /\ UNCHANGED <<events, told, isClosed, lid, magnet>>
    BY <2>2 DEF LidInv, Registered, Forwarding
  <2> QED BY <1>3, <2>1, <2>2, EndInv DEF RegisterSensor, LidInv
<1>4. CASE TakeEvent
  <2>1. CASE /\ events # <<>> /\ fpc = "poll"
             /\ isClosed' = Head(events) /\ events' = Tail(events)
             /\ fpc' = "sw" /\ UNCHANGED <<attemptCount, lid, told, zygote, sensorThere, magnet>>
    <3>1. told
      BY <2>1 DEF LidInv, Registered
    <3>2. events[Len(events)] = magnet
      BY <2>1, <3>1 DEF LidInv, Registered, Forwarding
    <3>3. CASE Len(events) = 1
      <4>1. events' = <<>> /\ isClosed' = magnet
        BY <2>1, <3>2, <3>3, HeadTailProperties, EmptySeq DEF LidInv
      <4> QED BY <2>1, <3>1, <4>1 DEF LidInv, Registered, Forwarding
    <3>4. CASE Len(events) # 1
      <4>1. /\ Len(events) \in Nat /\ Len(events) > 1
            /\ events' \in Seq(Sides)
            /\ Len(events') = Len(events) - 1 /\ events' # <<>>
            /\ events'[Len(events')] = events[Len(events)]
        <5>1. Len(events) \in Nat \ {0}
          BY <2>1, EmptySeq DEF LidInv
        <5>2. /\ events' \in Seq(Sides) /\ Len(events') = Len(events) - 1
              /\ \A i \in 1 .. Len(events') : events'[i] = events[i + 1]
          BY <2>1, HeadTailProperties DEF LidInv
        <5>3. Len(events') \in 1 .. Len(events')
          BY <3>4, <5>1, <5>2
        <5>4. events' # <<>>
          BY <5>1, <5>2, <3>4, EmptySeq
        <5> QED BY <3>4, <5>1, <5>2, <5>3, <5>4
      <4> QED BY <2>1, <3>1, <3>2, <4>1 DEF LidInv, Registered, Forwarding
    <3> QED BY <3>3, <3>4
  <2> QED BY <1>4, <2>1, EndInv DEF TakeEvent, Rest, LidInv
<1>5. CASE WriteSw
  BY <1>5, EndInv DEF WriteSw, LidInv, Registered, Forwarding
<1>6. CASE WriteSyn
  BY <1>6, EndInv DEF WriteSyn, LidInv, Registered, Forwarding
<1>7. CASE ZygoteStarts \/ SensorAppears
  BY <1>7 DEF ZygoteStarts, SensorAppears, LidInv, Registered, Forwarding
<1>8. CASE ZygoteStops
  BY <1>8, EndInv DEF ZygoteStops, LidInv
<1>9. CASE MagnetMoves
  <2>1. magnet' \in Sides
    BY <1>9 DEF MagnetMoves, Sides
  <2>2. CASE Registered
    <3>1. /\ events' = Append(events, magnet') /\ told' = TRUE
          /\ UNCHANGED <<fpc, isClosed, lid>>
      BY <1>9, <2>2 DEF MagnetMoves
    <3>2. events' \in Seq(Sides) /\ events' # <<>> /\ events'[Len(events')] = magnet'
      BY <2>1, <3>1, AppendProperties DEF LidInv
    <3> QED BY <2>1, <2>2, <3>1, <3>2 DEF LidInv, Registered, Forwarding
  <2>3. CASE ~Registered
    BY <1>9, <2>1, <2>3 DEF MagnetMoves, LidInv, Registered
  <2> QED BY <2>2, <2>3
<1>10. CASE UNCHANGED folioVars
  BY <1>10 DEF folioVars, LidInv, Registered, Forwarding
<1> QED BY <1>1, <1>2, <1>3, <1>4, <1>5, <1>6, <1>7, <1>8, <1>9, <1>10 DEF FolioNext

\* When the folio daemon has forwarded all, the lid is where the magnet is.
THEOREM LidIsWhereMagnetIs == FolioSpec => []LidFollowsMagnet
<1>1. LidInv => LidFollowsMagnet
  BY DEF LidInv, LidFollowsMagnet, Registered, Forwarding
<1> QED BY <1>1, FolioInitInv, FolioNextInv, PTL DEF FolioSpec

-----------------------------------------------------------------------------
(* LiveDisplay *)

Args == [mode : Modes, makeDefault : BOOLEAN, feature : Features, on : BOOLEAN, was : BOOLEAN]
Labels == {"idle", "seed", "display", "current", "open", "default", "close", "switch", "reply"}

LiveTypeOK ==
    /\ lpc \in [LiveThreads -> Labels]
    /\ arg \in [LiveThreads -> Args]
    /\ torn \in [LiveThreads -> BOOLEAN]
    /\ serving \in BOOLEAN /\ mixed \in BOOLEAN /\ among \in BOOLEAN /\ unsaved \in BOOLEAN
    /\ ~serving => \A t \in LiveThreads : lpc[t] = "idle"

InSeed(id) == seedMissed \/ seed = kModeMap[id].seed
InDisplay(id) == displayMissed \/ display = kModeMap[id].display
InMode(id) == InSeed(id) /\ InDisplay(id)

\* A call whose writes were not mixed with another's has written what it was
\* given so far, but for what was refused; with none under way the panel has the
\* current mode.
ModeInv ==
    /\ \A t \in LiveThreads : lpc[t] \in Setting /\ ~torn[t] => InSeed(arg[t].mode)
    /\ \A t \in LiveThreads : lpc[t] = "current" /\ ~torn[t] => InDisplay(arg[t].mode)
    /\ serving /\ (\A t \in LiveThreads : lpc[t] \notin Setting) => mixed \/ InMode(mCurrentModeId)

\* While a call has the file open it is unsaved; if no other one has, the
\* default is already what it is about to write.
DefaultInv ==
    /\ \A t \in LiveThreads : Saving(t) => unsaved
    /\ ~among => \A t, u \in LiveThreads : Saving(t) /\ Saving(u) => t = u
    /\ ~among => \A t \in LiveThreads : lpc[t] = "close" => mDefaultModeId = arg[t].mode
    /\ DefaultSurvives

IsOn(f) == FirstSupported(f) \in control

\* Calls for one feature at a time are all torn.  One that is not torn has still
\* before it what it read, and behind it what it was asked for; and a feature is
\* as was answered, unless that is doubtful or a call has switched it and is
\* about to answer.
FeatureInv ==
    /\ answered \in [Features -> {"nothing", "on", "off"}]
    /\ \A t \in LiveThreads : lpc[t] = "switch" /\ ~torn[t] => (arg[t].was <=> IsOn(arg[t].feature))
    /\ \A t \in LiveThreads : lpc[t] = "reply" /\ ~torn[t] => (arg[t].on <=> IsOn(arg[t].feature))
    /\ \A t, u \in LiveThreads :
          t # u /\ Switching(t, arg[t].feature) /\ Switching(u, arg[t].feature) => torn[t]
    /\ \A f \in Features \ doubtful :
          (\A t \in LiveThreads : lpc[t] = "reply" /\ arg[t].feature = f => arg[t].was = arg[t].on)
            => (answered[f] # "nothing" => (answered[f] = "on" <=> IsOn(f)))

LiveInv == LiveTypeOK /\ ModeInv /\ DefaultInv /\ FeatureInv

LEMMA ModesAreNumbers == Modes = 0 .. 3 /\ NoDefault \notin Modes
BY DEF Modes, kModeMap, NoDefault

LEMMA ArgTypes ==
  /\ NoCall \in Args
  /\ \A a \in Args : a.mode \in Modes /\ a.feature \in Features /\ a.on \in BOOLEAN /\ a.was \in BOOLEAN
  /\ \A id \in Modes, d \in BOOLEAN : ModeArg(id, d) \in Args
  /\ \A f \in Features, to \in BOOLEAN, was \in BOOLEAN :
        /\ FeatureArg(f, to, was) \in Args
        /\ FeatureArg(f, to, was).feature = f /\ FeatureArg(f, to, was).was = was
<1>1. 0 \in Modes /\ "AntiFlicker" \in Features
  BY DEF Modes, kModeMap, Features, Controls
<1>2. \A a \in Args : a.mode \in Modes /\ a.feature \in Features /\ a.on \in BOOLEAN /\ a.was \in BOOLEAN
  BY DEF Args
<1>3. \A id \in Modes, d \in BOOLEAN : ModeArg(id, d) \in Args
  BY <1>1 DEF Args, ModeArg
<1>4. \A f \in Features, to \in BOOLEAN, was \in BOOLEAN : FeatureArg(f, to, was) \in Args
  BY <1>1 DEF Args, FeatureArg
<1>5. \A f, to, was : FeatureArg(f, to, was).feature = f /\ FeatureArg(f, to, was).was = was
  BY DEF FeatureArg
<1>6. NoCall \in Args
  BY <1>1, <1>3, Zenon DEF NoCall
<1> QED BY <1>2, <1>3, <1>4, <1>5, <1>6

\* No control switches two features.
ControlsOf(f) == CASE f = "AntiFlicker" -> {"PWM_PULSE", "PWM_TURBO", "DIMLAYER_BL_EN"}
                   [] f = "SunlightEnhancement" -> {"HBM"}
                   [] f = "AdaptiveBacklight" -> {"CABC"}

LEMMA ReachesOwn ==
  ASSUME NEW f \in Features
  PROVE  /\ Reachable(f) \subseteq ControlsOf(f)
         /\ FirstSupported(f) \in Reachable(f) \cup {"none"}
<1>1. Features = {"AntiFlicker", "SunlightEnhancement", "AdaptiveBacklight"}
  BY DEF Features, Controls
<1>2. DOMAIN Controls[f] \subseteq {1, 2, 3}
      /\ \A k \in DOMAIN Controls[f] : Controls[f][k] \in ControlsOf(f)
  <2>1. CASE f = "AntiFlicker"
    BY <2>1 DEF Controls, ControlsOf
  <2>2. CASE f = "SunlightEnhancement"
    BY <2>2 DEF Controls, ControlsOf
  <2>3. CASE f = "AdaptiveBacklight"
    BY <2>3 DEF Controls, ControlsOf
  <2> QED BY <1>1, <2>1, <2>2, <2>3
<1>3. Places(f) \subseteq {1, 2, 3} /\ Places(f) \subseteq DOMAIN Controls[f]
  BY <1>2 DEF Places
<1>4. Places(f) # {} => \E k \in Places(f) : \A j \in Places(f) : k <= j
  BY <1>3
<1>5. Reachable(f) \subseteq ControlsOf(f)
  BY <1>2, <1>3 DEF Reachable
<1>6. Places(f) # {} => FirstSupported(f) \in Reachable(f)
  BY <1>4 DEF FirstSupported, Reachable
<1> QED BY <1>5, <1>6 DEF FirstSupported

LEMMA OthersUntouched ==
  ASSUME NEW f \in Features, NEW g \in Features, f # g, NEW c \in Reachable(f)
  PROVE  FirstSupported(g) # c
<1>1. Features = {"AntiFlicker", "SunlightEnhancement", "AdaptiveBacklight"}
  BY DEF Features, Controls
<1>2. ControlsOf(f) \cap (ControlsOf(g) \cup {"none"}) = {}
  BY <1>1 DEF ControlsOf
<1>3. Reachable(f) \subseteq ControlsOf(f)
  BY ReachesOwn
<1>4. FirstSupported(g) \in ControlsOf(g) \cup {"none"}
  BY ReachesOwn
<1> QED BY <1>2, <1>3, <1>4

LEMMA LiveInitInv == LiveInit => LiveInv
<1> SUFFICES ASSUME LiveInit PROVE LiveInv
  OBVIOUS
<1>1. LiveTypeOK
  BY ArgTypes DEF LiveInit, LiveTypeOK, Labels
<1>2. ModeInv /\ DefaultInv
  BY DEF LiveInit, ModeInv, DefaultInv, DefaultSurvives, Setting, Saving
<1>3. FeatureInv
  BY DEF LiveInit, FeatureInv, Switching
<1> QED BY <1>1, <1>2, <1>3 DEF LiveInv

\* Where a thread goes, within a call, into one and out of it, and that the
\* others stay.
LEMMA ThreadGoes ==
  ASSUME LiveTypeOK, NEW t \in LiveThreads, NEW label \in Labels, LiveGoto(t, label)
  PROVE  /\ lpc' \in [LiveThreads -> Labels] /\ arg' \in [LiveThreads -> Args]
         /\ lpc'[t] = label /\ arg' = arg
         /\ \A u \in LiveThreads \ {t} : lpc'[u] = lpc[u] /\ arg'[u] = arg[u]
BY DEF LiveTypeOK, LiveGoto

LEMMA ThreadTakes ==
  ASSUME LiveTypeOK, NEW t \in LiveThreads, NEW label \in Labels, NEW a \in Args,
         lpc' = [lpc EXCEPT ![t] = label], arg' = [arg EXCEPT ![t] = a]
  PROVE  /\ lpc' \in [LiveThreads -> Labels] /\ arg' \in [LiveThreads -> Args]
         /\ lpc'[t] = label /\ arg'[t] = a
         /\ \A u \in LiveThreads \ {t} : lpc'[u] = lpc[u] /\ arg'[u] = arg[u]
BY DEF LiveTypeOK

LEMMA ThreadReturns ==
  ASSUME LiveTypeOK, NEW t \in LiveThreads, Return(t)
  PROVE  /\ lpc' \in [LiveThreads -> Labels] /\ arg' \in [LiveThreads -> Args]
         /\ lpc'[t] = "idle"
         /\ \A u \in LiveThreads \ {t} : lpc'[u] = lpc[u] /\ arg'[u] = arg[u]
BY ArgTypes, ThreadTakes DEF Return, Labels

\* A step that leaves a part of the state alone, and each call where that part of
\* the invariant speaks of it, preserves that part.
Stays(u) == lpc'[u] = lpc[u] /\ arg'[u] = arg[u] /\ torn'[u] = torn[u]

LEMMA ModeKept ==
  ASSUME ModeInv, UNCHANGED mode, serving' = serving,
         \A u \in LiveThreads : lpc[u] \in Setting \/ lpc'[u] \in Setting => Stays(u)
  PROVE  ModeInv'
<1>1. \A u \in LiveThreads : lpc'[u] = "current" => lpc'[u] \in Setting
  BY DEF Setting
<1>2. UNCHANGED <<seed, display, mCurrentModeId, mixed, seedMissed, displayMissed>>
  BY DEF mode
<1>3. \A id : InSeed(id)' = InSeed(id) /\ InDisplay(id)' = InDisplay(id)
  BY <1>2 DEF InSeed, InDisplay
<1> QED BY <1>1, <1>2, <1>3 DEF ModeInv, InMode, InSeed, InDisplay, Stays

LEMMA DefaultKept ==
  ASSUME DefaultInv, UNCHANGED default,
         \A u \in LiveThreads : lpc'[u] \in {"default", "close"} => Stays(u)
  PROVE  DefaultInv'
BY DEF DefaultInv, DefaultSurvives, default, Saving, Stays

LEMMA FeatureKept ==
  ASSUME FeatureInv, UNCHANGED feature, UNCHANGED supported,
         \A u \in LiveThreads : lpc'[u] \in {"switch", "reply"} => Stays(u),
         \A u \in LiveThreads : lpc[u] = "reply" => Stays(u)
  PROVE  FeatureInv'
<1>1. UNCHANGED <<control, answered, doubtful>>
  BY DEF feature
<1>2. \A f : IsOn(f)' = IsOn(f)
  BY <1>1 DEF IsOn, FirstSupported, Places
<1>3. \A u \in LiveThreads :
         /\ lpc'[u] = "switch" => lpc[u] = "switch" /\ Stays(u)
         /\ lpc'[u] = "reply" <=> lpc[u] = "reply"
         /\ lpc'[u] = "reply" => Stays(u)
  BY DEF Stays
<1> QED BY <1>1, <1>2, <1>3 DEF FeatureInv, Stays, Switching, IsOn

-----------------------------------------------------------------------------
LEMMA StartInv == ASSUME LiveInv, Start PROVE LiveInv'
<1>1. \A t \in LiveThreads : lpc[t] = "idle" /\ lpc'[t] = "idle" /\ Stays(t)
  BY DEF LiveInv, LiveTypeOK, Start, Stays
<1>2. LiveTypeOK'
  BY DEF LiveInv, LiveTypeOK, Start
<1>3. ModeInv'
  BY <1>1 DEF Start, PutSeed, PutDisplay, ModeInv, InMode, InSeed, InDisplay, Setting
<1>4. DefaultInv'
  BY <1>1 DEF Start, DefaultInv, DefaultSurvives, Saving
<1>5. FeatureInv'
  BY <1>1, FeatureKept DEF LiveInv, Start
<1> QED BY <1>2, <1>3, <1>4, <1>5 DEF LiveInv

\* A feature that was switched, and not answered, becomes doubtful.
LEMMA DiesInv == ASSUME LiveInv, Dies PROVE LiveInv'
<1>1. \A t \in LiveThreads : lpc'[t] = "idle"
  BY DEF Dies
<1>2. LiveTypeOK'
  BY <1>1, ArgTypes DEF LiveInv, LiveTypeOK, Dies, default, mode, Labels
<1>3. ModeInv'
  BY <1>1 DEF Dies, ModeInv, Setting
<1>4. DefaultInv'
  BY <1>1, DefaultKept DEF LiveInv, Dies, default
<1>5. FeatureInv'
  <2>1. \A f : IsOn(f)' = IsOn(f)
    BY DEF IsOn, FirstSupported, Places, Dies
  <2>2. doubtful \subseteq doubtful' /\ answered' = answered
    BY DEF Dies
  <2>3. \A f \in Features \ doubtful', t \in LiveThreads :
           lpc[t] = "reply" /\ arg[t].feature = f => arg[t].was = arg[t].on
    BY DEF Dies
  <2>4. \A f \in Features \ doubtful' : answered[f] # "nothing" => (answered[f] = "on" <=> IsOn(f))
    BY <2>2, <2>3 DEF LiveInv, FeatureInv
  <2> QED BY <1>1, <2>1, <2>2, <2>4 DEF LiveInv, FeatureInv, Switching
<1> QED BY <1>2, <1>3, <1>4, <1>5 DEF LiveInv

\* Calls of setDisplayMode.
LEMMA ModeStepInv ==
  ASSUME LiveInv, NEW t \in LiveThreads,
         setDisplayMode(t) \/ SetSeed(t) \/ SetActiveDisplayMode(t) \/ SetCurrent(t)
  PROVE  LiveInv'
<1> USE DEF LiveInv
<1>1. CASE setDisplayMode(t)
  <2>1. PICK id \in Modes, d \in BOOLEAN : Call(t, "seed", ModeArg(id, d))
    BY <1>1 DEF setDisplayMode
  <2>2. /\ lpc' \in [LiveThreads -> Labels] /\ arg' \in [LiveThreads -> Args]
        /\ lpc[t] = "idle" /\ lpc'[t] = "seed"
        /\ \A u \in LiveThreads \ {t} : lpc'[u] = lpc[u] /\ arg'[u] = arg[u]
    <3>1. "seed" \in Labels /\ ModeArg(id, d) \in Args
      BY ArgTypes DEF Labels
    <3>2. /\ lpc[t] = "idle" /\ lpc' = [lpc EXCEPT ![t] = "seed"]
          /\ arg' = [arg EXCEPT ![t] = ModeArg(id, d)]
      BY <2>1 DEF Call
    <3> QED BY <3>1, <3>2, ThreadTakes
  <2>3. UNCHANGED <<torn, mode, default, feature>> /\ UNCHANGED <<supported, serving>> /\ serving
    BY <1>1, <2>1 DEF setDisplayMode, Call
  <2>4. LiveTypeOK'
    BY <2>2, <2>3 DEF LiveTypeOK, mode, default
  <2>5. \A u \in LiveThreads \ {t} : Stays(u)
    BY <2>2, <2>3 DEF Stays
  <2> QED BY <2>2, <2>3, <2>4, <2>5, ModeKept, DefaultKept, FeatureKept DEF Setting
<1>2. CASE SetSeed(t)
  <2>0. lpc[t] = "seed" /\ LiveGoto(t, "display") /\ "display" \in Labels
    BY <1>2 DEF SetSeed, Labels
  <2>1. /\ lpc' \in [LiveThreads -> Labels] /\ arg' = arg
        /\ lpc[t] = "seed" /\ lpc'[t] = "display"
        /\ \A u \in LiveThreads \ {t} : lpc'[u] = lpc[u]
    BY <2>0, ThreadGoes
  <2>2. /\ torn' = [u \in LiveThreads |-> IF u = t THEN FALSE ELSE torn[u] \/ lpc[u] \in Setting]
        /\ torn' \in [LiveThreads -> BOOLEAN]
    BY <1>2 DEF SetSeed, Tear, LiveTypeOK
  <2>3. /\ UNCHANGED <<supported, serving, display, displayMissed, mCurrentModeId, mixed>>
        /\ UNCHANGED default /\ UNCHANGED feature
    BY <1>2 DEF SetSeed
  <2>4. LiveTypeOK'
    BY <2>1, <2>2, <2>3 DEF LiveTypeOK, default
  <2>5. InSeed(arg[t].mode)'
    BY <1>2, <2>1 DEF SetSeed, PutSeed, InSeed
  <2>6. ModeInv'
    BY <2>1, <2>2, <2>5 DEF ModeInv, Setting
  <2>7. \A u \in LiveThreads \ {t} : lpc[u] \in Setting \/ Stays(u)
    BY <2>1, <2>2 DEF Stays, LiveTypeOK
  <2> QED BY <2>1, <2>3, <2>4, <2>6, <2>7, DefaultKept, FeatureKept
          DEF Setting, DefaultInv, DefaultSurvives, default, Saving
<1>3. CASE SetActiveDisplayMode(t)
  <2>0. lpc[t] = "display" /\ LiveGoto(t, "current") /\ "current" \in Labels
    BY <1>3 DEF SetActiveDisplayMode, Labels
  <2>1. /\ lpc' \in [LiveThreads -> Labels] /\ arg' = arg
        /\ lpc[t] = "display" /\ lpc'[t] = "current"
        /\ \A u \in LiveThreads \ {t} : lpc'[u] = lpc[u]
    BY <2>0, ThreadGoes
  <2>2. /\ torn' = [u \in LiveThreads |-> IF u = t THEN torn[t] ELSE torn[u] \/ lpc[u] \in Setting]
        /\ torn' \in [LiveThreads -> BOOLEAN]
    BY <1>3 DEF SetActiveDisplayMode, Tear, LiveTypeOK
  <2>3. /\ UNCHANGED <<supported, serving, seed, seedMissed, mCurrentModeId, mixed>>
        /\ UNCHANGED default /\ UNCHANGED feature
    BY <1>3 DEF SetActiveDisplayMode
  <2>4. LiveTypeOK'
    BY <2>1, <2>2, <2>3 DEF LiveTypeOK, default
  <2>5. InDisplay(arg[t].mode)' /\ (~torn[t] => InSeed(arg[t].mode)')
    BY <1>3, <2>1, <2>3 DEF SetActiveDisplayMode, PutDisplay, InDisplay, InSeed, ModeInv, Setting
  <2>6. ModeInv'
    BY <2>1, <2>2, <2>5 DEF ModeInv, Setting
  <2>7. \A u \in LiveThreads \ {t} : lpc[u] \in Setting \/ Stays(u)
    BY <2>1, <2>2 DEF Stays, LiveTypeOK
  <2> QED BY <2>1, <2>3, <2>4, <2>6, <2>7, DefaultKept, FeatureKept
          DEF Setting, DefaultInv, DefaultSurvives, default, Saving
<1>4. CASE SetCurrent(t)
  <2>1. /\ lpc' \in [LiveThreads -> Labels] /\ arg' \in [LiveThreads -> Args]
        /\ lpc[t] = "current" /\ lpc'[t] \in {"open", "idle"}
        /\ \A u \in LiveThreads \ {t} : lpc'[u] = lpc[u] /\ arg'[u] = arg[u]
    <3>1. lpc[t] = "current" /\ (LiveGoto(t, "open") \/ Return(t)) /\ "open" \in Labels
      BY <1>4 DEF SetCurrent, Labels
    <3> QED BY <3>1, ThreadGoes, ThreadReturns
  <2>2. /\ torn' = [u \in LiveThreads |-> IF u = t THEN FALSE ELSE torn[u] \/ lpc[u] \in Setting]
        /\ torn' \in [LiveThreads -> BOOLEAN]
    BY <1>4 DEF SetCurrent, Tear, LiveTypeOK
  <2>3. /\ UNCHANGED <<supported, serving, seed, seedMissed, display, displayMissed>>
        /\ UNCHANGED default /\ UNCHANGED feature
        /\ mCurrentModeId' = arg[t].mode /\ mixed' = torn[t]
    BY <1>4 DEF SetCurrent
  <2>4. LiveTypeOK'
    BY <2>1, <2>2, <2>3 DEF LiveTypeOK, default
  <2>5. mixed' \/ InMode(mCurrentModeId)'
    BY <2>1, <2>3 DEF InMode, InSeed, InDisplay, ModeInv, Setting
  <2>6. ModeInv'
    BY <2>1, <2>2, <2>5 DEF ModeInv, Setting
  <2>7. \A u \in LiveThreads \ {t} : lpc[u] \in Setting \/ Stays(u)
    BY <2>1, <2>2 DEF Stays, LiveTypeOK
  <2> QED BY <2>1, <2>3, <2>4, <2>6, <2>7, DefaultKept, FeatureKept
          DEF Setting, DefaultInv, DefaultSurvives, default, Saving
<1> QED BY <1>1, <1>2, <1>3, <1>4

\* The default mode's file: alone with it or not, from its opening on it is
\* unsaved; what is written is the default, unless another call had it open too.
LEMMA DefaultStepInv ==
  ASSUME LiveInv, NEW t \in LiveThreads, OpenDefaultFile(t) \/ SetDefault(t) \/ CloseDefaultFile(t)
  PROVE  LiveInv'
<1> USE DEF LiveInv
<1>1. /\ lpc' \in [LiveThreads -> Labels] /\ arg' \in [LiveThreads -> Args]
      /\ lpc[t] \in {"open", "default", "close"} /\ lpc'[t] \in {"default", "close", "idle"}
      /\ \A u \in LiveThreads \ {t} : lpc'[u] = lpc[u] /\ arg'[u] = arg[u]
  <2>1. /\ lpc[t] \in {"open", "default", "close"}
        /\ LiveGoto(t, "default") \/ LiveGoto(t, "close") \/ Return(t)
        /\ "default" \in Labels /\ "close" \in Labels
    BY DEF OpenDefaultFile, SetDefault, CloseDefaultFile, Labels
  <2> QED BY <2>1, ThreadGoes, ThreadReturns
<1>2. UNCHANGED <<supported, serving, torn, mode, feature>>
  BY DEF OpenDefaultFile, SetDefault, CloseDefaultFile
<1>3. among' \in BOOLEAN /\ unsaved' \in BOOLEAN
  BY DEF OpenDefaultFile, SetDefault, CloseDefaultFile, LiveTypeOK
<1>4. LiveTypeOK'
  BY <1>1, <1>2, <1>3 DEF LiveTypeOK, mode
<1>5. \A u \in LiveThreads \ {t} : Stays(u)
  BY <1>1, <1>2 DEF Stays
<1>6. ModeInv' /\ FeatureInv'
  BY <1>1, <1>2, <1>5, ModeKept, FeatureKept DEF Setting
<1>7. DefaultInv'
  <2>1. CASE OpenDefaultFile(t)
    <3>1. CASE /\ lpc'[t] = "default" /\ defaultFile' = NoDefault
               /\ among' = (\E u \in LiveThreads \ {t} : Saving(u)) /\ unsaved' = TRUE
      BY <1>1, <3>1 DEF DefaultInv, DefaultSurvives, Saving
    <3>2. CASE lpc'[t] = "idle" /\ UNCHANGED <<defaultFile, among, unsaved>>
      BY <1>5, <2>1, <3>2, DefaultKept DEF OpenDefaultFile, default
    <3> QED BY <2>1, <3>1, <3>2 DEF OpenDefaultFile, LiveGoto, Return, LiveTypeOK
  <2>2. CASE SetDefault(t)
    <3>1. lpc[t] = "default" /\ lpc'[t] = "close" /\ arg' = arg
      BY <2>2 DEF SetDefault, LiveGoto, LiveTypeOK
    <3> QED BY <1>1, <2>2, <3>1 DEF SetDefault, DefaultInv, DefaultSurvives, Saving
  <2>3. CASE CloseDefaultFile(t)
    <3>1. lpc[t] = "close" /\ lpc'[t] = "idle"
      BY <2>3 DEF CloseDefaultFile, Return, LiveTypeOK
    <3>2. CASE defaultFile' = arg[t].mode /\ unsaved' = among
      <4>1. arg[t].mode # NoDefault
        <5>1. arg[t] \in Args
          BY DEF LiveTypeOK
        <5> QED BY <5>1, ArgTypes, ModesAreNumbers
      <4>2. mDefaultModeId' = mDefaultModeId /\ among' = among /\ defaultFile' # NoDefault
        BY <2>3, <3>2, <4>1 DEF CloseDefaultFile
      <4>3. unsaved' \/ mDefaultModeId' = defaultFile'
        BY <3>1, <3>2, <4>2 DEF DefaultInv
      <4>4. \A u \in LiveThreads : Saving(u)' => u # t /\ Saving(u) /\ lpc'[u] = lpc[u] /\ arg'[u] = arg[u]
        BY <1>1, <3>1 DEF Saving
      <4>5. \A u \in LiveThreads : Saving(u)' => unsaved'
        <5>1. \A u \in LiveThreads : Saving(u)' => among
          BY <3>1, <4>4 DEF DefaultInv, Saving
        <5> QED BY <3>2, <5>1
      <4> QED BY <4>2, <4>3, <4>4, <4>5 DEF DefaultInv, DefaultSurvives, Saving
    <3>3. CASE UNCHANGED <<defaultFile, unsaved>>
      BY <1>5, <2>3, <3>1, <3>3, DefaultKept DEF CloseDefaultFile, default
    <3> QED BY <2>3, <3>2, <3>3 DEF CloseDefaultFile, FileText
  <2> QED BY <2>1, <2>2, <2>3
<1> QED BY <1>4, <1>6, <1>7

\* A call reads what the feature's first control is while it has the feature for
\* itself, or it is torn.
LEMMA EnableInv == ASSUME LiveInv, NEW t \in LiveThreads, setEnabled(t) PROVE LiveInv'
<1> USE DEF LiveInv
<1>1. UNCHANGED <<mode, default, feature>>
  BY DEF setEnabled
<1>2. PICK f \in Features, to \in BOOLEAN :
         \/ Call(t, "idle", NoCall) /\ UNCHANGED torn
         \/ \E c \in Reachable(f) : /\ Call(t, "switch", FeatureArg(f, to, c \in control))
                                    /\ Cross(t, f, c = FirstSupported(f))
  BY DEF setEnabled
<1>3. CASE Call(t, "idle", NoCall) /\ UNCHANGED torn
  <2>1. /\ lpc' \in [LiveThreads -> Labels] /\ arg' \in [LiveThreads -> Args]
        /\ lpc[t] = "idle" /\ lpc'[t] = "idle"
        /\ \A u \in LiveThreads \ {t} : lpc'[u] = lpc[u] /\ arg'[u] = arg[u]
    <3>1. "idle" \in Labels /\ NoCall \in Args
      BY ArgTypes DEF Labels
    <3>2. /\ lpc[t] = "idle" /\ lpc' = [lpc EXCEPT ![t] = "idle"]
          /\ arg' = [arg EXCEPT ![t] = NoCall]
      BY <1>3 DEF Call
    <3> QED BY <3>1, <3>2, ThreadTakes
  <2>2. UNCHANGED <<supported, serving>> /\ serving
    BY <1>3 DEF Call
  <2>3. LiveTypeOK'
    BY <1>1, <1>3, <2>1, <2>2 DEF LiveTypeOK, mode, default
  <2>4. \A u \in LiveThreads \ {t} : Stays(u)
    BY <1>3, <2>1 DEF Stays
  <2> QED BY <1>1, <2>1, <2>2, <2>3, <2>4, ModeKept, DefaultKept, FeatureKept DEF Setting
<1>4. ASSUME NEW c \in Reachable(f), Call(t, "switch", FeatureArg(f, to, c \in control)),
             Cross(t, f, c = FirstSupported(f))
      PROVE  LiveInv'
  <2> DEFINE was == c \in control
  <2>1. /\ FeatureArg(f, to, was) \in Args
        /\ FeatureArg(f, to, was).feature = f /\ FeatureArg(f, to, was).was = was
    <3>1. was \in BOOLEAN
      OBVIOUS
    <3> HIDE DEF was
    <3> QED BY <3>1, ArgTypes
  <2>2. /\ lpc' = [lpc EXCEPT ![t] = "switch"] /\ arg' = [arg EXCEPT ![t] = FeatureArg(f, to, was)]
        /\ lpc[t] = "idle" /\ UNCHANGED <<supported, serving>> /\ serving
    BY <1>4 DEF Call
  <2>3. c = FirstSupported(f) => was = IsOn(f)
    BY DEF IsOn
  <2> HIDE DEF was
  <2>4. /\ lpc' \in [LiveThreads -> Labels] /\ arg' \in [LiveThreads -> Args]
        /\ lpc'[t] = "switch" /\ arg'[t].feature = f /\ arg'[t].was = was
        /\ \A u \in LiveThreads \ {t} : lpc'[u] = lpc[u] /\ arg'[u] = arg[u]
    <3>1. "switch" \in Labels
      BY DEF Labels
    <3> HIDE DEF FeatureArg
    <3> QED BY <2>1, <2>2, <3>1, ThreadTakes
  <2>5. /\ torn' \in [LiveThreads -> BOOLEAN]
        /\ ~torn'[t] => c = FirstSupported(f) /\ \A u \in LiveThreads \ {t} : ~Switching(u, f)
        /\ \A u \in LiveThreads \ {t} : torn'[u] = (torn[u] \/ Switching(u, f))
    BY <1>4 DEF Cross, LiveTypeOK
  <2>6. LiveTypeOK'
    BY <1>1, <2>2, <2>4, <2>5 DEF LiveTypeOK, mode, default
  <2>7. \A u \in LiveThreads \ {t} : lpc[u] \notin {"switch", "reply"} => Stays(u)
    BY <2>4, <2>5 DEF Stays, Switching, LiveTypeOK
  <2>8. ModeInv'
    BY <1>1, <2>2, <2>4, <2>7, ModeKept DEF Setting
  <2>9. DefaultInv'
    BY <1>1, <2>2, <2>4, <2>7, DefaultKept
  <2>10. \A g : IsOn(g)' = IsOn(g)
    BY <1>1, <2>2 DEF IsOn, FirstSupported, Places, feature
  <2>11. UNCHANGED <<answered, doubtful>>
    BY <1>1 DEF feature
  <2>12. \A u, v \in LiveThreads :
            u # v /\ Switching(u, arg[u].feature)' /\ Switching(v, arg[u].feature)' => torn'[u]
    <3> SUFFICES ASSUME NEW u \in LiveThreads, NEW v \in LiveThreads, u # v,
                        Switching(u, arg[u].feature)', Switching(v, arg[u].feature)'
                 PROVE  torn'[u]
      OBVIOUS
    <3>1. CASE u = t
      BY <2>4, <2>5, <3>1 DEF Switching
    <3>2. CASE v = t
      BY <2>4, <2>5, <3>2 DEF Switching
    <3>3. CASE u # t /\ v # t
      BY <2>4, <2>5, <3>3 DEF Switching, FeatureInv
    <3> QED BY <3>1, <3>2, <3>3
  <2>13. \A u \in LiveThreads :
            /\ lpc'[u] = "switch" /\ ~torn'[u] => (arg'[u].was <=> IsOn(arg'[u].feature))
            /\ lpc'[u] = "reply" /\ ~torn'[u] => (arg'[u].on <=> IsOn(arg'[u].feature))
    BY <2>3, <2>4, <2>5 DEF FeatureInv
  <2>14. \A u \in LiveThreads : lpc[u] = "reply" => lpc'[u] = "reply" /\ arg'[u] = arg[u]
    BY <2>2, <2>4
  <2>15. FeatureInv'
    BY <2>10, <2>11, <2>12, <2>13, <2>14 DEF FeatureInv
  <2> QED BY <2>6, <2>8, <2>9, <2>15
<1> QED BY <1>2, <1>3, <1>4

\* What a call may do to its feature before it answers.
LEMMA SwitchInv == ASSUME LiveInv, NEW t \in LiveThreads, Switch(t) PROVE LiveInv'
<1> USE DEF LiveInv
<1>0. PICK f \in Features : f = arg[t].feature
  BY ArgTypes DEF LiveTypeOK
<1>1. /\ lpc' \in [LiveThreads -> Labels] /\ arg' \in [LiveThreads -> Args]
      /\ lpc[t] = "switch" /\ lpc'[t] \in {"reply", "idle"}
      /\ \A u \in LiveThreads \ {t} : lpc'[u] = lpc[u] /\ arg'[u] = arg[u]
      /\ lpc'[t] = "reply" => arg'[t] = arg[t]
  <2>1. lpc[t] = "switch" /\ (LiveGoto(t, "reply") \/ Return(t)) /\ "reply" \in Labels
    BY DEF Switch, Labels
  <2> QED BY <2>1, ThreadGoes, ThreadReturns
<1>2. /\ UNCHANGED <<supported, serving, mode, default>>
      /\ UNCHANGED <<answered, doubtful>>
  BY DEF Switch
<1>3. torn' \in [LiveThreads -> BOOLEAN] /\ \A u \in LiveThreads \ {t} : torn'[u] = torn[u]
  BY DEF Switch, LiveTypeOK
<1>4. LiveTypeOK'
  BY <1>1, <1>2, <1>3 DEF LiveTypeOK, mode, default
<1>5. \A u \in LiveThreads \ {t} : Stays(u)
  BY <1>1, <1>3 DEF Stays
<1>6. ModeInv' /\ DefaultInv'
  BY <1>1, <1>2, <1>5, ModeKept, DefaultKept DEF Setting
<1>7. \A u \in LiveThreads : arg[u] \in Args /\ arg[u].feature \in Features
                             /\ arg[u].on \in BOOLEAN /\ arg[u].was \in BOOLEAN
  BY ArgTypes DEF LiveTypeOK
<1>8. \A g : FirstSupported(g)' = FirstSupported(g)
  BY <1>2 DEF FirstSupported, Places
<1>9. \A g \in Features \ {f} : IsOn(g)' = IsOn(g)
  <2>1. control' = control \/ \E c \in Reachable(f) : control' = control \cup {c} \/ control' = control \ {c}
    BY <1>0 DEF Switch
  <2>2. \A c \in Reachable(f), g \in Features \ {f} : FirstSupported(g) # c
    BY <1>7, OthersUntouched
  <2> QED BY <1>8, <2>1, <2>2 DEF IsOn
<1>10. lpc'[t] = "reply" /\ ~torn'[t] => (arg[t].on <=> IsOn(f)') /\ ~torn[t]
  <2>1. CASE arg[t].was = arg[t].on /\ UNCHANGED <<control, torn>>
    BY <1>0, <1>1, <1>8, <2>1 DEF FeatureInv, IsOn
  <2>2. ASSUME NEW c \in Reachable(f),
               control' = IF arg[t].on THEN control \cup {c} ELSE control \ {c},
               torn' = [torn EXCEPT ![t] = torn[t] \/ c # SetThrough(f)]
        PROVE  ~torn'[t] => (arg[t].on <=> IsOn(f)') /\ ~torn[t]
    <3>1. torn'[t] = (torn[t] \/ c # FirstSupported(f))
      BY <2>2 DEF SetThrough, LiveTypeOK
    <3> QED BY <1>7, <1>8, <2>2, <3>1 DEF IsOn
  <2>3. CASE lpc'[t] = "idle"
    BY <2>3
  <2>4. \/ arg[t].was = arg[t].on /\ UNCHANGED <<control, torn>>
        \/ \E c \in Reachable(f) :
              /\ control' = IF arg[t].on THEN control \cup {c} ELSE control \ {c}
              /\ torn' = [torn EXCEPT ![t] = torn[t] \/ c # SetThrough(f)]
        \/ Return(t)
    BY <1>0 DEF Switch
  <2>5. Return(t) => lpc'[t] = "idle"
    BY DEF Return, LiveTypeOK
  <2> QED BY <2>1, <2>2, <2>3, <2>4, <2>5
<1>11. \/ lpc'[t] = "reply" /\ arg'[t].was # arg'[t].on
       \/ control' = control
  <2>1. CASE control' # control
    <3>1. arg[t].was # arg[t].on /\ LiveGoto(t, "reply")
      BY <2>1 DEF Switch
    <3> QED BY <3>1 DEF LiveGoto, LiveTypeOK
  <2> QED BY <2>1
<1>12. FeatureInv'
  <2>1. \A u \in LiveThreads : lpc'[u] \in {"switch", "reply"} =>
           /\ lpc[u] \in {"switch", "reply"} /\ arg'[u] = arg[u]
           /\ u # t => lpc'[u] = lpc[u] /\ torn'[u] = torn[u]
    BY <1>1, <1>3
  <2>2. torn[t] => lpc'[t] = "idle" \/ torn'[t]
    BY <1>1, <1>10
  <2>3. \A u, v \in LiveThreads :
           u # v /\ Switching(u, arg[u].feature)' /\ Switching(v, arg[u].feature)' => torn'[u]
    <3> SUFFICES ASSUME NEW u \in LiveThreads, NEW v \in LiveThreads, u # v,
                        Switching(u, arg[u].feature)', Switching(v, arg[u].feature)'
                 PROVE  torn'[u]
      OBVIOUS
    <3>1. torn[u]
      BY <2>1 DEF Switching, FeatureInv
    <3> QED BY <2>1, <2>2, <3>1 DEF Switching
  <2>4. \A u \in LiveThreads \ {t} : ~torn[u] /\ lpc[u] \in {"switch", "reply"} => arg[u].feature # f
    BY <1>0, <1>1 DEF FeatureInv, Switching
  <2>5. \A u \in LiveThreads :
           /\ (lpc[u] = "switch" /\ ~torn[u] => (arg[u].was <=> IsOn(arg[u].feature)))'
           /\ (lpc[u] = "reply" /\ ~torn[u] => (arg[u].on <=> IsOn(arg[u].feature)))'
    <3> TAKE u \in LiveThreads
    <3>1. CASE u = t
      BY <1>0, <1>1, <1>10, <3>1 DEF IsOn
    <3>2. CASE u # t
      <4>1. CASE lpc'[u] \in {"switch", "reply"} /\ ~torn'[u]
        <5>1. /\ lpc'[u] = lpc[u] /\ arg'[u] = arg[u] /\ ~torn[u]
              /\ arg[u].feature \in Features \ {f}
          BY <1>7, <2>1, <2>4, <3>2, <4>1
        <5>2. (IsOn(arg[u].feature))' = IsOn(arg[u].feature)
          BY <1>9, <5>1 DEF IsOn
        <5> QED BY <5>1, <5>2 DEF FeatureInv
      <4> QED BY <4>1
    <3> QED BY <3>1, <3>2
  <2>6. \A g \in Features \ doubtful :
          (\A u \in LiveThreads : lpc'[u] = "reply" /\ arg'[u].feature = g => arg'[u].was = arg'[u].on)
            => (answered[g] # "nothing" => (answered[g] = "on" <=> IsOn(g)'))
    <3> TAKE g \in Features \ doubtful
    <3> HAVE \A u \in LiveThreads : lpc'[u] = "reply" /\ arg'[u].feature = g => arg'[u].was = arg'[u].on
    <3>1. \A u \in LiveThreads : lpc[u] = "reply" => u # t /\ lpc'[u] = "reply" /\ arg'[u] = arg[u]
      BY <1>1
    <3>2. answered[g] # "nothing" => (answered[g] = "on" <=> IsOn(g))
      BY <3>1 DEF FeatureInv
    <3>3. IsOn(g)' = IsOn(g)
      <4>1. CASE g = f
        BY <1>0, <1>1, <1>8, <1>11, <4>1 DEF IsOn
      <4> QED BY <1>9, <4>1
    <3> QED BY <3>2, <3>3
  <2> QED BY <1>2, <2>3, <2>5, <2>6 DEF FeatureInv
<1> QED BY <1>4, <1>6, <1>12

\* An answer that is not torn is right, whatever was doubtful before.
LEMMA ReplyInv == ASSUME LiveInv, NEW t \in LiveThreads, ReplyOk(t) PROVE LiveInv'
<1> USE DEF LiveInv
<1> DEFINE f == arg[t].feature
<1>1. /\ lpc' \in [LiveThreads -> Labels] /\ arg' \in [LiveThreads -> Args]
      /\ lpc[t] = "reply" /\ lpc'[t] = "idle"
      /\ \A u \in LiveThreads \ {t} : lpc'[u] = lpc[u] /\ arg'[u] = arg[u]
  BY ThreadReturns DEF ReplyOk
<1>2. /\ UNCHANGED <<supported, serving, mode, default, control>>
      /\ answered' = [answered EXCEPT ![f] = IF arg[t].on THEN "on" ELSE "off"]
      /\ doubtful' = IF torn[t] THEN doubtful \cup {f} ELSE doubtful \ {f}
  BY DEF ReplyOk
<1>3. torn' \in [LiveThreads -> BOOLEAN] /\ \A u \in LiveThreads \ {t} : torn'[u] = torn[u]
  BY DEF ReplyOk, LiveTypeOK
<1>4. LiveTypeOK'
  BY <1>1, <1>2, <1>3 DEF LiveTypeOK, mode, default
<1>5. \A u \in LiveThreads \ {t} : Stays(u)
  BY <1>1, <1>3 DEF Stays
<1>6. ModeInv' /\ DefaultInv'
  BY <1>1, <1>2, <1>5, ModeKept, DefaultKept DEF Setting
<1>7. f \in Features /\ arg[t].on \in BOOLEAN
  BY ArgTypes DEF LiveTypeOK
<1>8. \A g : IsOn(g)' = IsOn(g)
  BY <1>2 DEF IsOn, FirstSupported, Places
<1>9. ~torn[t] => (arg[t].on <=> IsOn(f))
  BY <1>1 DEF FeatureInv
<1> HIDE DEF f
<1>10. FeatureInv'
  <2>1. \A u \in LiveThreads : lpc'[u] \in {"switch", "reply"} =>
           u # t /\ lpc'[u] = lpc[u] /\ arg'[u] = arg[u] /\ torn'[u] = torn[u]
    BY <1>1, <1>3
  <2>2. answered' \in [Features -> {"nothing", "on", "off"}]
    BY <1>2 DEF FeatureInv
  <2>3. \A g \in Features \ doubtful' :
          (\A u \in LiveThreads : lpc'[u] = "reply" /\ arg'[u].feature = g => arg'[u].was = arg'[u].on)
            => (answered'[g] # "nothing" => (answered'[g] = "on" <=> IsOn(g)))
    <3> TAKE g \in Features \ doubtful'
    <3>1. CASE g = f
      BY <1>2, <1>7, <1>9, <3>1 DEF FeatureInv
    <3>2. CASE g # f
      <4>1. g \in Features \ doubtful /\ answered'[g] = answered[g]
        BY <1>2, <3>2 DEF FeatureInv
      <4>2. \A u \in LiveThreads :
               lpc[u] = "reply" /\ arg[u].feature = g => lpc'[u] = "reply" /\ arg'[u] = arg[u]
        BY <1>1, <3>2 DEF f
      <4> QED BY <4>1, <4>2 DEF FeatureInv
    <3> QED BY <3>1, <3>2
  <2> QED BY <1>8, <2>1, <2>2, <2>3 DEF FeatureInv, Switching
<1> QED BY <1>4, <1>6, <1>10

LEMMA LiveNextInv == ASSUME LiveInv, [LiveNext]_liveVars PROVE LiveInv'
<1>1. CASE UNCHANGED liveVars
  <2>1. UNCHANGED <<supported, serving, lpc, arg, torn, mode, default, feature>>
    BY <1>1 DEF liveVars
  <2>2. LiveTypeOK'
    BY <2>1 DEF LiveInv, LiveTypeOK, mode, default
  <2> QED BY <2>1, <2>2, ModeKept, DefaultKept, FeatureKept DEF LiveInv, Stays
<1> QED BY <1>1, StartInv, DiesInv, ModeStepInv, DefaultStepInv, EnableInv, SwitchInv, ReplyInv
        DEF LiveNext

-----------------------------------------------------------------------------
LEMMA LiveSafe == LiveSpec => []LiveInv
BY LiveInitInv, LiveNextInv, PTL DEF LiveSpec

\* DisplayModes and the feature classes: whatever the panel and the controller
\* refuse, wherever the process dies, they are as was last answered, unless the
\* answer was a torn call's or was not given any more.
THEOREM PanelStaysAsAnswered == LiveSpec => []PanelAsAnswered
<1>1. LiveInv => PanelAsAnswered
  BY DEF LiveInv, ModeInv, InMode, InSeed, InDisplay, FeatureInv, IsOn, PanelAsAnswered, Setting
<1> QED BY <1>1, LiveSafe, PTL

\* The default mode of setDisplayMode outlives the process wherever it dies, but
\* for a death while the file is open.
THEOREM DefaultModeSurvives == LiveSpec => []DefaultSurvives
<1>1. LiveInv => DefaultSurvives
  BY DEF LiveInv, DefaultInv
<1> QED BY <1>1, LiveSafe, PTL

-----------------------------------------------------------------------------
(* CompletionThreads *)

\* A thread of a vibration that goes on will sleep until it is over; n is the
\* last vibration that was asked for.
SleepsLongEnough ==
    \A t \in sleeping : t.of \notin unmeasured /\ Vibrates(t.of) => motor.until <= t.until

ThreadsInv(n) ==
    /\ ThreadsTypeOK
    /\ motor.of <= n /\ (\A t \in sleeping : t.of <= n) /\ (\A v \in completed : v <= n)
    /\ SleepsLongEnough
    /\ NotToldWhileItLasts

LEMMA ThreadsStart == ASSUME NEW n \in Nat, ThreadsInit PROVE ThreadsInv(n)
<1>1. ThreadsTypeOK
  BY DEF ThreadsInit, ThreadsTypeOK
<1>2. motor.of <= n /\ (\A t \in sleeping : t.of <= n) /\ (\A v \in completed : v <= n)
  BY DEF ThreadsInit
<1>3. SleepsLongEnough /\ NotToldWhileItLasts
  BY DEF ThreadsInit, SleepsLongEnough, NotToldWhileItLasts
<1> QED BY <1>1, <1>2, <1>3 DEF ThreadsInv

LEMMA ThreadsUnchanged ==
  ASSUME NEW n \in Nat, NEW m \in Nat, n <= m, ThreadsInv(n), UNCHANGED threads
  PROVE  ThreadsInv(m)'
<1>1. UNCHANGED <<now, motor, sleeping, completed, unmeasured>>
  BY DEF threads
<1>2. ThreadsTypeOK' /\ SleepsLongEnough' /\ NotToldWhileItLasts'
  BY <1>1 DEF ThreadsInv, ThreadsTypeOK, SleepsLongEnough, NotToldWhileItLasts, Vibrates
<1>3. (motor.of <= m /\ (\A t \in sleeping : t.of <= m) /\ (\A v \in completed : v <= m))'
  BY <1>1 DEF ThreadsInv, ThreadsTypeOK
<1> QED BY <1>2, <1>3 DEF ThreadsInv

\* A thread wakes up after its vibration, and time does not run backwards.
LEMMA ThreadStepKeepsInv ==
  ASSUME NEW n \in Nat, ThreadsInv(n), ThreadStep
  PROVE  ThreadsInv(n)'
<1> USE DEF ThreadsInv
<1>1. ASSUME NEW t \in sleeping, OnComplete(t) PROVE ThreadsInv(n)'
  <2>1. t \in [of : Nat, until : Nat] /\ t.of <= n /\ t.of \in Nat
    BY DEF ThreadsTypeOK
  <2>2. /\ UNCHANGED <<now, motor, unmeasured>> /\ sleeping' \subseteq sleeping
        /\ completed' = completed \cup {t.of} /\ now >= t.until
    BY <1>1 DEF OnComplete
  <2>3. ThreadsTypeOK'
    BY <2>1, <2>2 DEF ThreadsTypeOK
  <2>4. (motor.of <= n /\ (\A u \in sleeping : u.of <= n) /\ (\A v \in completed : v <= n))'
    BY <2>1, <2>2
  <2>5. SleepsLongEnough'
    BY <2>2 DEF SleepsLongEnough, Vibrates
  <2>6. t.of \notin unmeasured => ~Vibrates(t.of)
    BY <2>1, <2>2 DEF SleepsLongEnough, Vibrates, ThreadsTypeOK
  <2>7. NotToldWhileItLasts'
    BY <2>2, <2>6 DEF NotToldWhileItLasts, Vibrates
  <2> QED BY <2>3, <2>4, <2>5, <2>7
<1>2. ASSUME NEW t \in Soon, Elapse(t) PROVE ThreadsInv(n)'
  <2>1. UNCHANGED <<motor, sleeping, completed, unmeasured>> /\ now' = t /\ t > now
    BY <1>2 DEF Elapse
  <2>2. \A x \in Moments : x \in Nat
    BY DEF Moments, ThreadsTypeOK
  <2>3. t \in Int
    BY <2>2 DEF Soon
  <2>4. now' \in Nat /\ now' > now
    BY <2>1, <2>3 DEF ThreadsTypeOK
  <2>5. ThreadsTypeOK'
    BY <2>1, <2>4 DEF ThreadsTypeOK
  <2>6. (motor.of <= n /\ (\A u \in sleeping : u.of <= n) /\ (\A v \in completed : v <= n))'
    BY <2>1
  <2>7. \A v : Vibrates(v)' => Vibrates(v)
    BY <2>1, <2>4 DEF Vibrates, ThreadsTypeOK
  <2>8. SleepsLongEnough' /\ NotToldWhileItLasts'
    BY <2>1, <2>7 DEF SleepsLongEnough, NotToldWhileItLasts
  <2> QED BY <2>5, <2>6, <2>8
<1> QED BY <1>1, <1>2 DEF ThreadStep

LEMMA UsleepIsLength ==
  ASSUME NEW ms \in Nat
  PROVE  Usleep(ms) \in Nat /\ (ms * 1000 < UintMod => Usleep(ms) = ms * 1000)
  BY WidthAssumption DEF Usleep

\* A call, with a number of its own, that starts or stops a vibration or does
\* not touch it, and calls back no earlier than what it starts is over.
CallsBackInTime(v, ms, us) ==
    /\ sleeping' = sleeping \cup {[of |-> v, until |-> now + Usleep(ms)]}
    /\ unmeasured \subseteq unmeasured' /\ unmeasured' \subseteq unmeasured \cup {v}
    /\ us <= Usleep(ms) \/ v \in unmeasured'

LEMMA CallKeepsInv ==
  ASSUME NEW n \in Nat, ThreadsInv(n), NEW ms \in Nat, NEW us \in Nat,
         UNCHANGED <<now, completed>>,
         Starts(n + 1, us) \/ Silenced \/ UNCHANGED motor,
         NobodyCalledBack \/ CallsBackInTime(n + 1, ms, us)
  PROVE  ThreadsInv(n + 1)'
<1> DEFINE T == [of |-> n + 1, until |-> now + Usleep(ms)]
<1> USE DEF ThreadsInv
<1>0. now \in Nat /\ motor \in [of : Nat, until : Nat] /\ motor.of \in Nat /\ motor.until \in Nat
  BY DEF ThreadsTypeOK
<1>1. Usleep(ms) \in Nat /\ (ms * 1000 < UintMod => Usleep(ms) = ms * 1000)
  BY UsleepIsLength
<1>2. T \in [of : Nat, until : Nat] /\ T.of = n + 1 /\ T.until = now + Usleep(ms)
  BY <1>0, <1>1
<1>3. /\ unmeasured \subseteq unmeasured' /\ unmeasured' \subseteq unmeasured \cup {n + 1}
      /\ \/ sleeping' = sleeping
         \/ sleeping' = sleeping \cup {T} /\ (us <= Usleep(ms) \/ n + 1 \in unmeasured')
  BY DEF NobodyCalledBack, CallsBackInTime
<1>4. /\ motor' \in [of : Nat, until : Nat]
      /\ \/ motor'.of = n + 1 /\ motor'.until = now + us
         \/ motor'.of = motor.of /\ motor'.until = now
         \/ motor' = motor
  <2>1. CASE Starts(n + 1, us)
    BY <1>0, <2>1 DEF Starts
  <2>2. CASE Silenced
    <3>1. motor' = [motor EXCEPT !.until = now]
      BY <2>2 DEF Silenced
    <3> QED BY <1>0, <3>1
  <2>3. CASE UNCHANGED motor
    BY <1>0, <2>3
  <2> QED BY <2>1, <2>2, <2>3
<1> HIDE DEF T
<1>5. ThreadsTypeOK'
  BY <1>0, <1>2, <1>3, <1>4 DEF ThreadsTypeOK
<1>6. \A t \in sleeping : t \in [of : Nat, until : Nat] /\ t.of <= n
  BY DEF ThreadsTypeOK
<1>7. (motor.of <= n + 1 /\ (\A t \in sleeping : t.of <= n + 1) /\ (\A v \in completed : v <= n + 1))'
  <2>1. motor'.of <= n + 1
    BY <1>0, <1>4
  <2>2. \A t \in sleeping' : t.of <= n + 1
    BY <1>2, <1>3, <1>6
  <2>3. \A v \in completed' : v <= n + 1
    BY DEF ThreadsTypeOK
  <2> QED BY <2>1, <2>2, <2>3
<1>8. \A v \in Nat : v <= n /\ Vibrates(v)' => Vibrates(v) /\ motor' = motor
  BY <1>0, <1>4 DEF Vibrates
<1>9. SleepsLongEnough'
  <2> SUFFICES ASSUME NEW t \in sleeping', t.of \notin unmeasured', Vibrates(t.of)'
               PROVE  motor'.until <= t.until
    BY DEF SleepsLongEnough
  <2>1. CASE t \in sleeping
    BY <1>3, <1>6, <1>8, <2>1 DEF SleepsLongEnough
  <2>2. CASE t \notin sleeping
    <3>1. t = T /\ us <= Usleep(ms)
      BY <1>2, <1>3, <2>2
    <3>2. motor'.of = n + 1 /\ now < motor'.until
      BY <1>2, <3>1 DEF Vibrates
    <3>3. motor'.until = now + us
      BY <1>0, <1>4, <3>2
    <3> QED BY <1>0, <1>1, <1>2, <3>1, <3>3
  <2> QED BY <2>1, <2>2
<1>10. NotToldWhileItLasts'
  BY <1>3, <1>8 DEF NotToldWhileItLasts, ThreadsTypeOK
<1> QED BY <1>5, <1>7, <1>9, <1>10

\* A call that starts no vibration and calls nobody back.
LEMMA QuietCallKeepsInv ==
  ASSUME NEW n \in Nat, ThreadsInv(n), UNCHANGED <<now, completed>>,
         Silenced \/ UNCHANGED motor, NobodyCalledBack
  PROVE  ThreadsInv(n + 1)'
<1>1. 0 \in Nat
  OBVIOUS
<1>2. /\ Starts(n + 1, 0) \/ Silenced \/ UNCHANGED motor
      /\ NobodyCalledBack \/ CallsBackInTime(n + 1, 0, 0)
  OBVIOUS
<1> QED BY <1>1, <1>2, CallKeepsInv

-----------------------------------------------------------------------------
(* RichTapVibrator *)

RichTapInv == served \in Nat /\ ThreadsInv(served)

LEMMA RefuseKeepsInv ==
  ASSUME RichTapInv, NEW returned, Refuse(returned)
  PROVE  RichTapInv'
<1>1. PICK n \in Nat : n = served
  BY DEF RichTapInv
<1>2. served' = n + 1 /\ UNCHANGED <<now, completed>> /\ UNCHANGED motor /\ NobodyCalledBack
  BY <1>1 DEF Refuse, Serve
<1>3. ThreadsInv(n + 1)'
  BY <1>1, <1>2, QuietCallKeepsInv DEF RichTapInv
<1> QED BY <1>2, <1>3 DEF RichTapInv

LEMMA AcceptKeepsInv ==
  ASSUME RichTapInv, NEW ms \in Nat, Accept(ms)
  PROVE  RichTapInv'
<1>1. PICK n \in Nat : n = served
  BY DEF RichTapInv
<1>2. served' = n + 1 /\ UNCHANGED <<now, completed>>
  BY <1>1 DEF Accept, Serve
<1>3. /\ Starts(n + 1, ms * 1000) \/ Silenced \/ UNCHANGED motor
      /\ NobodyCalledBack \/ CallsBackInTime(n + 1, ms, ms * 1000)
  <2>1. CASE NobodyCalledBack
    BY <1>2, <2>1 DEF Accept
  <2>2. CASE CallsBackAfter(served', ms, TRUE)
    <3>1. CallsBackInTime(n + 1, ms, ms * 1000)
      BY <1>2, <2>2, UsleepIsLength DEF CallsBackAfter, CallsBackInTime
    <3> QED BY <1>2, <3>1 DEF Accept
  <2> QED BY <2>1, <2>2 DEF Accept
<1>4. ThreadsInv(n + 1)'
  <2>1. ms * 1000 \in Nat /\ ThreadsInv(n)
    BY <1>1 DEF RichTapInv
  <2> QED BY <1>2, <1>3, <2>1, CallKeepsInv
<1> QED BY <1>2, <1>4 DEF RichTapInv

LEMMA RichTapKeepsInv == RichTapInv /\ [RichTapNext]_richTapVars => RichTapInv'
<1> SUFFICES ASSUME RichTapInv, [RichTapNext]_richTapVars PROVE RichTapInv'
  OBVIOUS
<1>0. PICK n \in Nat : n = served
  BY DEF RichTapInv
<1>1. ASSUME NEW ms \in Lengths, RichTapOn(ms) PROVE RichTapInv'
  BY <1>1, AcceptKeepsInv, RefuseKeepsInv, RichTapAssumption DEF RichTapOn
<1>2. ASSUME NEW effect \in Effects, RichTapPerform(effect) PROVE RichTapInv'
  BY <1>2, AcceptKeepsInv, RefuseKeepsInv, RichTapAssumption DEF RichTapPerform
<1>3. CASE RichTapOff
  <2>1. CASE Serve("ok") /\ Silenced /\ NobodyCalledBack
    <3>1. served' = n + 1 /\ UNCHANGED <<now, completed>>
      BY <1>0, <2>1 DEF Serve
    <3>2. ThreadsInv(n + 1)'
      BY <1>0, <2>1, <3>1, QuietCallKeepsInv DEF RichTapInv
    <3> QED BY <3>1, <3>2 DEF RichTapInv
  <2> QED BY <1>3, <2>1, RefuseKeepsInv DEF RichTapOff
<1>4. ASSUME NEW level \in {0, 255}, RichTapSetAmplitude(level) PROVE RichTapInv'
  <2>1. CASE Serve("ok") /\ UNCHANGED motor /\ NobodyCalledBack
    <3>1. served' = n + 1 /\ UNCHANGED <<now, completed>>
      BY <1>0, <2>1 DEF Serve
    <3>2. ThreadsInv(n + 1)'
      BY <1>0, <2>1, <3>1, QuietCallKeepsInv DEF RichTapInv
    <3> QED BY <3>1, <3>2 DEF RichTapInv
  <2> QED BY <1>4, <2>1, RefuseKeepsInv DEF RichTapSetAmplitude
<1>5. CASE RichTapUnsupported
  BY <1>5, RefuseKeepsInv DEF RichTapUnsupported
<1>6. CASE ThreadStep /\ UNCHANGED <<looper, amplitude, served, status>>
  BY <1>0, <1>6, ThreadStepKeepsInv DEF RichTapInv
<1>7. CASE UNCHANGED richTapVars
  <2>1. UNCHANGED threads /\ served' = n
    BY <1>0, <1>7 DEF richTapVars
  <2>2. ThreadsInv(n)'
    BY <1>0, <2>1, ThreadsUnchanged DEF RichTapInv
  <2> QED BY <2>1, <2>2 DEF RichTapInv
<1> QED BY <1>1, <1>2, <1>3, <1>4, <1>5, <1>6, <1>7 DEF RichTapNext

\* However calls of the RichTap service, its failures and the threads of earlier
\* calls interleave, no client is told that its vibration is over too early.
THEOREM RichTapToldInTime == RichTapSpec => []NotToldWhileItLasts
<1>1. RichTapInit => RichTapInv
  BY ThreadsStart, 0 \in Nat DEF RichTapInit, RichTapInv
<1>2. RichTapInv => NotToldWhileItLasts
  BY DEF RichTapInv, ThreadsInv
<1> QED BY <1>1, <1>2, RichTapKeepsInv, PTL DEF RichTapSpec

-----------------------------------------------------------------------------
(* VibrationEffects *)

Streams == [effect_id : Nat, play_rate_hz : Nat, length : Nat]

LEMMA UsableIsStream == {entry \in Entries : Usable(entry)} \subseteq Streams
  BY DEF Entries, Usable, Streams

LEMMA BuiltInStreams ==
  /\ BuiltIn \subseteq Streams
  /\ SupportedEffects \subseteq Performable
  /\ \A effect \in SupportedEffects : \E s \in BuiltIn : Of(effect, BuiltIn) = {s}
<1> DEFINE Names == {"CLICK", "DOUBLE_CLICK", "TICK", "THUD", "POP", "HEAVY_CLICK"}
           Stream(e) == [effect_id |-> Number[e], play_rate_hz |-> 24000,
                         length |-> ArraySize[Waveform[e]]]
<1>1. DOMAIN Waveform = Names /\ DOMAIN Number = Names
  BY DEF Waveform, Number
<1>2. \A e \in Names : Number[e] \in 0 .. 5 /\ Waveform[e] \in 1 .. 4
  BY DEF Waveform, Number
<1>3. \A w \in 1 .. 4 : ArraySize[w] \in Nat
  BY DEF ArraySize
<1>4. \A d, e \in Names : Number[d] = Number[e] => d = e
  BY DEF Number
<1>5. BuiltIn = {Stream(e) : e \in Names}
  BY <1>1 DEF BuiltIn
<1>6. \A e \in Names : Stream(e) \in Streams /\ Stream(e).effect_id = Number[e]
  BY <1>2, <1>3 DEF Streams
<1>7. SupportedEffects \subseteq Performable
  BY <1>1, <1>2 DEF SupportedEffects, Performable, Number
<1> HIDE DEF Names, Stream
<1>8. ASSUME NEW effect \in SupportedEffects
      PROVE  \E s \in BuiltIn : Of(effect, BuiltIn) = {s}
  <2>1. PICK e \in Names : effect = Number[e]
    BY <1>1 DEF SupportedEffects
  <2>2. Stream(e) \in Of(effect, BuiltIn)
    BY <1>5, <1>6, <2>1 DEF Of
  <2>3. \A s \in Of(effect, BuiltIn) : s = Stream(e)
    BY <1>4, <1>5, <1>6, <2>1 DEF Of
  <2>4. Of(effect, BuiltIn) = {Stream(e)} /\ Stream(e) \in BuiltIn
    BY <2>2, <2>3 DEF Of
  <2> QED BY <2>4
<1>9. BuiltIn \subseteq Streams
  BY <1>5, <1>6
<1> QED BY <1>7, <1>8, <1>9

\* The length play() reports is never less than what the samples last, whatever
\* the division by the rate cuts off.
LEMMA PlayLengthCovers ==
  ASSUME NEW s \in Streams
  PROVE  /\ PlayLength(s) \in Nat /\ SamplesLast(s) \in Nat
         /\ s.play_rate_hz # 0 /\ s.length * 1000 < UintMod
               => SamplesLast(s) <= PlayLength(s) * 1000
<1>1. s.play_rate_hz \in Nat /\ s.length \in Nat
  BY DEF Streams
<1> DEFINE r == s.play_rate_hz
           a == s.length * 1000
<1>2. a \in Nat /\ r \in Nat
  BY <1>1
<1>3. CASE r = 0
  BY <1>3, EffectsAssumption DEF PlayLength, SamplesLast
<1>4. CASE r # 0
  <2>1. PlayLength(s) = (a % UintMod) \div r + 1
    BY <1>4 DEF PlayLength
  <2>2. SamplesLast(s) = (a \div r) * 1000 + ((a % r) * 1000) \div r
    BY <1>4 DEF SamplesLast
  <2> HIDE DEF a, r
  <2>3. a % UintMod \in Nat /\ (a < UintMod => a % UintMod = a)
    BY <1>2, WidthAssumption
  <2>4. (a % UintMod) \div r \in Nat /\ a \div r \in Nat /\ a % r \in 0 .. r - 1
    BY <1>2, <1>4, <2>3
  <2>5. ((a % r) * 1000) \div r \in 0 .. 1000
    <3> DEFINE x == (a % r) * 1000
               q == x \div r
    <3>1. x \in Nat /\ x < r * 1000
      BY <1>2, <1>4, <2>4
    <3> HIDE DEF x
    <3>2. q \in Nat /\ r * q <= x
      BY <1>2, <1>4, <3>1
    <3> HIDE DEF q
    <3>3. r * q < r * 1000
      BY <1>2, <3>1, <3>2
    <3>4. q < 1000
      BY <1>2, <1>4, <3>2, <3>3
    <3> QED BY <3>2, <3>4 DEF x, q
  <2>6. PlayLength(s) \in Nat /\ SamplesLast(s) \in Nat
    BY <2>1, <2>2, <2>4, <2>5
  <2>7. a < UintMod => SamplesLast(s) <= PlayLength(s) * 1000
    BY <2>1, <2>2, <2>3, <2>4, <2>5
  <2> QED BY <2>6, <2>7 DEF a
<1> QED BY <1>3, <1>4

\* The streams are those of the first p entries, of which the first whole one for
\* each effect is kept.
Keeps(entries, p, streams) ==
    /\ \A s \in streams : \E i \in 1 .. p :
          /\ s = entries[i] /\ Usable(s)
          /\ \A j \in 1 .. i - 1 : Usable(entries[j]) => entries[j].effect_id # s.effect_id
    /\ \A i \in 1 .. p : Usable(entries[i]) => \E s \in streams : s.effect_id = entries[i].effect_id
    /\ \A s, t \in streams : s.effect_id = t.effect_id => s = t

\* What is left of whole after its first m elements.
Left(left, whole, m) ==
    /\ m \in 0 .. Len(whole) /\ Len(left) = Len(whole) - m
    /\ \A i \in 1 .. Len(left) : left[i] = whole[m + i]

EmptyBefore(m) == \A j \in 1 .. m : config[j] = <<>>

Searching == \E m \in 0 .. Len(config) : EmptyBefore(m) /\ Left(members, config, m)

FoundIn(k) ==
    /\ EmptyBefore(k - 1) /\ config[k] # <<>>
    /\ \E p \in 0 .. Len(config[k]) : Left(unread, config[k], p) /\ Keeps(config[k], p, effect_map)

LoadInv ==
    /\ config \in Seq(Seq(Entries)) /\ members \in Seq(Seq(Entries)) /\ unread \in Seq(Entries)
    /\ effect_map \subseteq {entry \in Entries : Usable(entry)}
    /\ members # <<>> => Searching /\ unread = <<>> /\ effect_map = {}
    /\ members = <<>> => \/ EmptyBefore(Len(config)) /\ unread = <<>> /\ effect_map = {}
                         \/ \E k \in 1 .. Len(config) : FoundIn(k)

LEMMA RestPops ==
  ASSUME NEW X, NEW left \in Seq(X), NEW whole \in Seq(X), NEW m \in Nat,
         left # <<>>, Left(left, whole, m)
  PROVE  /\ m + 1 \in 1 .. Len(whole) /\ Head(left) = whole[m + 1]
         /\ Tail(left) \in Seq(X) /\ Left(Tail(left), whole, m + 1)
<1>1. /\ Head(left) = left[1] /\ Tail(left) \in Seq(X) /\ Len(Tail(left)) = Len(left) - 1
      /\ \A i \in 1 .. Len(Tail(left)) : Tail(left)[i] = left[i + 1]
  BY HeadTailProperties
<1>2. Len(left) \in Nat \ {0} /\ Len(whole) \in Nat
  BY EmptySeq, LenProperties
<1>3. m + 1 \in 1 .. Len(whole) /\ left[1] = whole[m + 1]
  BY <1>2 DEF Left
<1>4. Left(Tail(left), whole, m + 1)
  <2>1. Len(Tail(left)) = Len(whole) - (m + 1)
    BY <1>1, <1>2 DEF Left
  <2>2. ASSUME NEW i \in 1 .. Len(Tail(left)) PROVE Tail(left)[i] = whole[m + 1 + i]
    <3>1. i + 1 \in 1 .. Len(left) /\ Tail(left)[i] = left[i + 1]
      BY <1>1, <1>2
    <3>2. left[i + 1] = whole[m + (i + 1)]
      BY <3>1 DEF Left
    <3>3. m + (i + 1) = m + 1 + i
      BY <1>1, <1>2
    <3> QED BY <3>1, <3>2, <3>3
  <2> QED BY <1>3, <2>1, <2>2 DEF Left
<1> QED BY <1>1, <1>3, <1>4

LEMMA KeepsNext ==
  ASSUME NEW entries \in Seq(Entries), NEW p \in Nat, p + 1 \in 1 .. Len(entries),
         NEW streams \in SUBSET {entry \in Entries : Usable(entry)}, Keeps(entries, p, streams)
  PROVE  Keeps(entries, p + 1, IF Usable(entries[p + 1]) THEN Emplace(streams, entries[p + 1])
                                                          ELSE streams)
<1> DEFINE e == entries[p + 1]
           kept == IF Usable(e) THEN Emplace(streams, e) ELSE streams
<1>1. ASSUME NEW s \in kept
      PROVE  \E i \in 1 .. p + 1 :
                /\ s = entries[i] /\ Usable(s)
                /\ \A j \in 1 .. i - 1 : Usable(entries[j]) => entries[j].effect_id # s.effect_id
  <2>1. CASE s \in streams
    BY <2>1 DEF Keeps
  <2>2. CASE s \notin streams
    <3>1. Usable(e) /\ s = e /\ \A t \in streams : t.effect_id # e.effect_id
      BY <2>2 DEF Emplace
    <3>2. \A j \in 1 .. p : Usable(entries[j]) => entries[j].effect_id # s.effect_id
      BY <3>1 DEF Keeps
    <3>3. p + 1 - 1 = p /\ p + 1 \in 1 .. p + 1
      OBVIOUS
    <3> QED BY <3>1, <3>2, <3>3
  <2> QED BY <2>1, <2>2
<1>2. ASSUME NEW i \in 1 .. p + 1, Usable(entries[i])
      PROVE  \E s \in kept : s.effect_id = entries[i].effect_id
  <2>1. CASE i \in 1 .. p
    <3>1. PICK s \in streams : s.effect_id = entries[i].effect_id
      BY <1>2, <2>1 DEF Keeps
    <3>2. s \in kept
      BY <3>1 DEF Emplace
    <3> QED BY <3>1, <3>2
  <2>2. CASE i = p + 1
    BY <1>2, <2>2 DEF Emplace
  <2> QED BY <2>1, <2>2
<1>3. \A s, t \in kept : s.effect_id = t.effect_id => s = t
  BY DEF Keeps, Emplace
<1> HIDE DEF kept
<1>4. Keeps(entries, p + 1, kept)
  BY <1>1, <1>2, <1>3 DEF Keeps
<1> QED BY <1>4 DEF kept

LEMMA LoadStart == EffectsInit => LoadInv
<1> SUFFICES ASSUME EffectsInit PROVE LoadInv
  OBVIOUS
<1>1. /\ config \in Seq(Seq(Entries)) /\ members = config
      /\ unread = <<>> /\ unread \in Seq(Entries) /\ effect_map = {}
  BY EffectsAssumption, EmptySeq DEF EffectsInit
<1>2. Len(config) \in Nat
  BY <1>1, LenProperties
<1>3. EmptyBefore(0) /\ Left(members, config, 0)
  BY <1>1, <1>2 DEF EmptyBefore, Left
<1>4. Searching
  BY <1>2, <1>3 DEF Searching
<1>5. members = <<>> => EmptyBefore(Len(config))
  BY <1>1, EmptySeq DEF EmptyBefore
<1> QED BY <1>1, <1>4, <1>5 DEF LoadInv

LEMMA ParseKeepsLoadInv == LoadInv /\ parseEffectJson => LoadInv'
<1> SUFFICES ASSUME LoadInv, parseEffectJson PROVE LoadInv'
  OBVIOUS
<1>0. /\ members # <<>> /\ unread = <<>> /\ effect_map = {} /\ UNCHANGED <<config, effect_map>>
      /\ Searching /\ config \in Seq(Seq(Entries)) /\ members \in Seq(Seq(Entries))
  BY DEF parseEffectJson, LoadInv
<1>1. PICK m \in 0 .. Len(config) : EmptyBefore(m) /\ Left(members, config, m)
  BY <1>0 DEF Searching
<1>2. /\ m \in Nat /\ m + 1 \in 1 .. Len(config) /\ Head(members) = config[m + 1]
      /\ Tail(members) \in Seq(Seq(Entries)) /\ Left(Tail(members), config, m + 1)
  <2>1. m \in Nat
    BY <1>1
  <2> QED BY <1>0, <1>1, <2>1, RestPops
<1>3. CASE Head(members) = <<>>
  <2>1. members' = Tail(members) /\ unread' = <<>>
    BY <1>0, <1>3 DEF parseEffectJson
  <2>2. EmptyBefore(m + 1)'
    <3> SUFFICES ASSUME NEW j \in 1 .. m + 1 PROVE config[j] = <<>>
      BY <1>0 DEF EmptyBefore
    <3>1. CASE j \in 1 .. m
      BY <1>1, <3>1 DEF EmptyBefore
    <3>2. CASE j = m + 1
      BY <1>2, <1>3, <3>2
    <3> QED BY <1>2, <3>1, <3>2
  <2>3. Left(members, config, m + 1)'
    BY <1>0, <1>2, <2>1 DEF Left
  <2>4. Searching'
    BY <1>0, <1>2, <2>2, <2>3 DEF Searching
  <2>5. members' = <<>> => EmptyBefore(Len(config))'
    <3>1. Len(config) \in Nat
      BY <1>0, LenProperties
    <3>2. members' = <<>> => Len(config) = m + 1
      <4>1. Len(Tail(members)) = Len(config) - (m + 1)
        BY <1>2 DEF Left
      <4>2. Tail(members) = <<>> => Len(Tail(members)) = 0
        BY EmptySeq
      <4>3. \A l, r \in Nat : l = 0 /\ l = r - (m + 1) => r = m + 1
        BY <1>2
      <4>4. Len(Tail(members)) \in Nat
        BY <1>2, LenProperties
      <4> QED BY <2>1, <3>1, <4>1, <4>2, <4>3, <4>4
    <3> QED BY <1>0, <2>2, <3>2 DEF EmptyBefore
  <2>6. unread' \in Seq(Entries)
    BY <2>1, EmptySeq
  <2> QED BY <1>0, <1>2, <2>1, <2>4, <2>5, <2>6 DEF LoadInv
<1>4. CASE Head(members) # <<>>
  <2>1. members' = <<>> /\ unread' = config[m + 1]
    BY <1>0, <1>2, <1>4 DEF parseEffectJson
  <2>2. config[m + 1] \in Seq(Entries) /\ Len(config[m + 1]) \in Nat /\ members' \in Seq(Seq(Entries))
    BY <1>0, <1>2, <2>1, ElementOfSeq, LenProperties, EmptySeq
  <2>3. Left(unread, config[m + 1], 0)'
    BY <1>0, <2>1, <2>2 DEF Left
  <2>4. Keeps(config[m + 1], 0, effect_map)'
    BY <1>0 DEF Keeps
  <2>5. EmptyBefore(m + 1 - 1)'
    BY <1>0, <1>1, <1>2 DEF EmptyBefore
  <2>6. FoundIn(m + 1)'
    <3>1. config'[m + 1] # <<>> /\ 0 \in 0 .. Len(config'[m + 1])
      BY <1>0, <1>2, <1>4, <2>2
    <3> QED BY <2>3, <2>4, <2>5, <3>1 DEF FoundIn
  <2> QED BY <1>0, <1>2, <2>1, <2>2, <2>6 DEF LoadInv
<1> QED BY <1>3, <1>4

LEMMA LoadKeepsLoadInv == LoadInv /\ loadEffects => LoadInv'
<1> SUFFICES ASSUME LoadInv, loadEffects PROVE LoadInv'
  OBVIOUS
<1>0. /\ members = <<>> /\ unread # <<>> /\ UNCHANGED <<config, members>> /\ unread' = Tail(unread)
      /\ config \in Seq(Seq(Entries)) /\ unread \in Seq(Entries)
      /\ effect_map \in SUBSET {entry \in Entries : Usable(entry)}
  BY DEF loadEffects, LoadInv
<1>1. PICK k \in 1 .. Len(config) : FoundIn(k)
  BY <1>0 DEF LoadInv
<1>2. config[k] \in Seq(Entries) /\ EmptyBefore(k - 1) /\ config[k] # <<>>
  BY <1>0, <1>1, ElementOfSeq DEF FoundIn
<1>3. PICK p \in 0 .. Len(config[k]) : Left(unread, config[k], p) /\ Keeps(config[k], p, effect_map)
  BY <1>1 DEF FoundIn
<1>4. p \in Nat
  BY <1>3
<1>5. /\ p + 1 \in 1 .. Len(config[k]) /\ Head(unread) = config[k][p + 1]
      /\ Tail(unread) \in Seq(Entries) /\ Left(Tail(unread), config[k], p + 1)
  BY <1>0, <1>2, <1>3, <1>4, RestPops
<1>6. effect_map' = IF Usable(config[k][p + 1]) THEN Emplace(effect_map, config[k][p + 1])
                                                ELSE effect_map
  BY <1>5 DEF loadEffects
<1>7. Keeps(config[k], p + 1, effect_map')
  BY <1>0, <1>2, <1>3, <1>4, <1>5, <1>6, KeepsNext
<1>8. effect_map' \subseteq {entry \in Entries : Usable(entry)}
  <2>1. config[k][p + 1] \in Entries
    BY <1>2, <1>5, ElementOfSeq
  <2> QED BY <1>0, <1>6, <2>1 DEF Emplace
<1>9. FoundIn(k)'
  <2>1. EmptyBefore(k - 1)' /\ config'[k] # <<>>
    BY <1>0, <1>2 DEF EmptyBefore
  <2>2. p + 1 \in 0 .. Len(config'[k]) /\ Left(unread', config'[k], p + 1)
        /\ Keeps(config'[k], p + 1, effect_map')
    BY <1>0, <1>5, <1>7
  <2> QED BY <2>1, <2>2 DEF FoundIn
<1> QED BY <1>0, <1>1, <1>5, <1>8, <1>9 DEF LoadInv

LEMMA LoadUnchanged ==
  LoadInv /\ UNCHANGED <<config, members, unread, effect_map>> => LoadInv'
<1> SUFFICES ASSUME LoadInv, UNCHANGED <<config, members, unread, effect_map>> PROVE LoadInv'
  OBVIOUS
<1>1. \A m : EmptyBefore(m)' <=> EmptyBefore(m)
  BY DEF EmptyBefore
<1>2. Searching' <=> Searching
  BY <1>1 DEF Searching
<1>3. \A k : FoundIn(k)' <=> FoundIn(k)
  BY <1>1 DEF FoundIn
<1> QED BY <1>1, <1>2, <1>3 DEF LoadInv

LEMMA LoadStep == LoadInv /\ [EffectsNext]_effectVars => LoadInv'
<1> SUFFICES ASSUME LoadInv, [EffectsNext]_effectVars PROVE LoadInv'
  OBVIOUS
<1>1. ASSUME NEW effect \in SupportedEffects \cup {6},
             EffectRefused(effect) \/ EffectFails(effect) \/ EffectPlays(effect)
      PROVE  UNCHANGED <<config, members, unread, effect_map>>
  BY <1>1 DEF EffectRefused, EffectFails, EffectPlays, PerformReturns
<1>2. UNCHANGED effectVars => UNCHANGED <<config, members, unread, effect_map>>
  BY DEF effectVars
<1> QED BY <1>1, <1>2, ParseKeepsLoadInv, LoadKeepsLoadInv, LoadUnchanged DEF EffectsNext

LEMMA LoadedIsRight == LoadInv => EveryEffectHasItsStream
<1> SUFFICES ASSUME LoadInv, Loaded, NEW effect \in SupportedEffects
             PROVE  \E s \in get_effect_stream(effect) :
                       /\ get_effect_stream(effect) = {s}
                       /\ FromFile(s, effect) \/ (NotInFile(effect) /\ s \in BuiltIn)
  BY BuiltInStreams DEF EveryEffectHasItsStream
<1>0. members = <<>> /\ unread = <<>> /\ config \in Seq(Seq(Entries)) /\ DOMAIN config = 1 .. Len(config)
  BY LenProperties DEF LoadInv, Loaded
<1>1. CASE EmptyBefore(Len(config)) /\ effect_map = {}
  <2>1. get_effect_stream(effect) = Of(effect, BuiltIn)
    BY <1>1 DEF get_effect_stream, Of
  <2>2. \A k \in DOMAIN config : DOMAIN config[k] = {}
    BY <1>0, <1>1 DEF EmptyBefore
  <2>3. NotInFile(effect)
    BY <2>2 DEF NotInFile
  <2> QED BY <2>1, <2>3, BuiltInStreams
<1>2. ASSUME NEW k \in 1 .. Len(config), FoundIn(k)
      PROVE  \E s \in get_effect_stream(effect) :
                /\ get_effect_stream(effect) = {s}
                /\ FromFile(s, effect) \/ (NotInFile(effect) /\ s \in BuiltIn)
  <2>1. config[k] \in Seq(Entries) /\ Len(config[k]) \in Nat /\ DOMAIN config[k] = 1 .. Len(config[k])
    BY <1>0, ElementOfSeq, LenProperties
  <2>2. Keeps(config[k], Len(config[k]), effect_map) /\ EmptyBefore(k - 1) /\ config[k] # <<>>
    <3>1. PICK p \in 0 .. Len(config[k]) : Left(unread, config[k], p) /\ Keeps(config[k], p, effect_map)
      BY <1>2 DEF FoundIn
    <3>2. Len(unread) = 0
      BY <1>0, EmptySeq
    <3>3. p = Len(config[k])
      BY <2>1, <3>1, <3>2 DEF Left
    <3> QED BY <1>2, <3>1, <3>3 DEF FoundIn
  <2>3. CASE Of(effect, effect_map) # {}
    <3>1. PICK s \in effect_map : s.effect_id = effect
      BY <2>3 DEF Of
    <3>2. get_effect_stream(effect) = {s}
      <4>1. \A t \in Of(effect, effect_map) : t = s
        BY <2>2, <3>1 DEF Keeps, Of
      <4> QED BY <3>1, <4>1 DEF get_effect_stream, Of
    <3>3. PICK i \in 1 .. Len(config[k]) :
             /\ s = config[k][i] /\ Usable(s)
             /\ \A j \in 1 .. i - 1 : Usable(config[k][j]) => config[k][j].effect_id # s.effect_id
      BY <2>2, <3>1 DEF Keeps
    <3>4. Candidate(effect, k, i)
      BY <2>2, <3>1, <3>3 DEF Candidate, EmptyBefore
    <3>5. \A j \in 1 .. i - 1 : ~Candidate(effect, k, j)
      BY <3>1, <3>3 DEF Candidate
    <3>6. FromFile(s, effect)
      BY <1>0, <2>1, <3>3, <3>4, <3>5 DEF FromFile
    <3> QED BY <3>2, <3>6
  <2>4. CASE Of(effect, effect_map) = {}
    <3>1. ASSUME NEW l \in DOMAIN config, NEW i \in DOMAIN config[l], Candidate(effect, l, i)
          PROVE  FALSE
      <4>1. CASE l < k
        BY <1>0, <2>2, <3>1, <4>1 DEF EmptyBefore
      <4>2. CASE l > k
        BY <1>0, <2>2, <3>1, <4>2 DEF Candidate
      <4>3. CASE l = k
        BY <2>1, <2>2, <2>4, <3>1, <4>3 DEF Candidate, Keeps, Of
      <4> QED BY <1>0, <4>1, <4>2, <4>3
    <3>2. NotInFile(effect)
      BY <3>1 DEF NotInFile
    <3>3. get_effect_stream(effect) = Of(effect, BuiltIn)
      BY <2>4 DEF get_effect_stream
    <3> QED BY <3>2, <3>3, BuiltInStreams DEF Of
  <2> QED BY <2>3, <2>4
<1> QED BY <1>0, <1>1, <1>2 DEF LoadInv

\* Whatever the configuration file holds, every supported effect has one stream
\* when the library is loaded, and the right one.
THEOREM EffectsHaveStreams == EffectsSpec => []EveryEffectHasItsStream
  BY LoadStart, LoadStep, LoadedIsRight, PTL DEF EffectsSpec

-----------------------------------------------------------------------------
\* The streams that play are whole, so that their lengths are known.
LEMMA StreamsAreWhole ==
  ASSUME LoadInv, NEW effect, NEW s \in get_effect_stream(effect)
  PROVE  s \in Streams
  BY UsableIsStream, BuiltInStreams DEF LoadInv, get_effect_stream, Of

PerformInv == performed \in Nat /\ ThreadsInv(performed)

LEMMA PerformStep == LoadInv /\ PerformInv /\ [EffectsNext]_effectVars => PerformInv'
<1> SUFFICES ASSUME LoadInv, PerformInv, [EffectsNext]_effectVars PROVE PerformInv'
  OBVIOUS
<1>0. PICK n \in Nat : n = performed
  BY DEF PerformInv
<1>1. ASSUME UNCHANGED <<threads, performed>> PROVE PerformInv'
  <2>1. ThreadsInv(n)'
    BY <1>0, <1>1, ThreadsUnchanged DEF PerformInv
  <2> QED BY <1>0, <1>1, <2>1 DEF PerformInv
<1>2. ASSUME NEW returned, PerformReturns(returned), Silenced \/ UNCHANGED motor, NobodyCalledBack
      PROVE  PerformInv'
  <2>1. performed' = n + 1 /\ UNCHANGED <<now, completed>>
    BY <1>0, <1>2 DEF PerformReturns
  <2>2. ThreadsInv(n + 1)'
    BY <1>0, <1>2, <2>1, QuietCallKeepsInv DEF PerformInv
  <2> QED BY <2>1, <2>2 DEF PerformInv
<1>3. ASSUME NEW effect, EffectPlays(effect) PROVE PerformInv'
  <2>1. PICK s \in get_effect_stream(effect) :
           /\ PerformReturns("ok")
           /\ Starts(performed', SamplesLast(s)) \/ Silenced
           /\ \/ NobodyCalledBack
              \/ CallsBackAfter(performed', PlayLength(s),
                                s.play_rate_hz # 0 /\ s.length * 1000 < UintMod)
    BY <1>3 DEF EffectPlays
  <2>2. performed' = n + 1 /\ UNCHANGED <<now, completed>>
    BY <1>0, <2>1 DEF PerformReturns
  <2>3. /\ PlayLength(s) \in Nat /\ SamplesLast(s) \in Nat
        /\ s.play_rate_hz # 0 /\ s.length * 1000 < UintMod
               => SamplesLast(s) <= PlayLength(s) * 1000
    BY <2>1, StreamsAreWhole, PlayLengthCovers
  <2>4. NobodyCalledBack \/ CallsBackInTime(n + 1, PlayLength(s), SamplesLast(s))
    <3>1. CASE CallsBackAfter(performed', PlayLength(s),
                              s.play_rate_hz # 0 /\ s.length * 1000 < UintMod)
      BY <2>2, <2>3, <3>1, UsleepIsLength DEF CallsBackAfter, CallsBackInTime
    <3> QED BY <2>1, <3>1
  <2>5. Starts(n + 1, SamplesLast(s)) \/ Silenced \/ UNCHANGED motor
    BY <2>1, <2>2
  <2>6. ThreadsInv(n + 1)'
    BY <1>0, <2>2, <2>3, <2>4, <2>5, CallKeepsInv DEF PerformInv
  <2> QED BY <2>2, <2>6 DEF PerformInv
<1>4. CASE parseEffectJson \/ loadEffects
  BY <1>1, <1>4 DEF parseEffectJson, loadEffects
<1>5. ASSUME NEW effect \in SupportedEffects \cup {6}, EffectRefused(effect) \/ EffectFails(effect)
      PROVE  PerformInv'
  BY <1>2, <1>5 DEF EffectRefused, EffectFails
<1>6. CASE ThreadStep /\ UNCHANGED <<config, members, unread, effect_map, performed, answer>>
  BY <1>0, <1>6, ThreadStepKeepsInv DEF PerformInv
<1>7. CASE UNCHANGED effectVars
  BY <1>1, <1>7 DEF effectVars
<1> QED BY <1>3, <1>4, <1>5, <1>6, <1>7 DEF EffectsNext

\* The length that play() works out covers the samples, so that the client of a
\* predefined effect is not told too early either.
THEOREM EffectsToldInTime == EffectsSpec => []NotToldWhileItLasts
<1>1. EffectsInit => PerformInv
  BY ThreadsStart, 0 \in Nat DEF EffectsInit, PerformInv
<1>2. PerformInv => NotToldWhileItLasts
  BY DEF PerformInv, ThreadsInv
<1> QED BY <1>1, <1>2, LoadStart, LoadStep, PerformStep, PTL DEF EffectsSpec
=============================================================================
