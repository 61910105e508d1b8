------------------------ MODULE FingerprintHalProofs ------------------------
(***************************************************************************)
(* Safety of FingerprintHal for any number of calls, queued callbacks and  *)
(* deaths.                                                                 *)
(***************************************************************************)
EXTENDS FingerprintHal, SequenceTheorems, TLAPS

USE ConstantsAssumption

\* Will a callback in the queue put the light out?
OffIn(q) == \E k \in 1 .. Len(q) : q[k] \in SwitchesOff

\* Without an optical sensor the panel is never touched.
PanelOnlyIfUdfps == ~isUdfps => hbm = 0 /\ press = 0

\* A service that was not found yet has no call and left no light on of its own.
NotFoundYet ==
    ~mClientCallback => call = "none" /\ ~enrolling /\ ~fresh /\ (hbm = 0 \/ stuck)

\* Every light has somebody who will put it out, or a failure to blame.
LightHasCause ==
    hbm = 0 \/ enrolling \/ stuck \/ call = "authenticate" \/ session = "authenticate"
        \/ OffIn(queue)

PressHasFinger == press = 0 \/ finger

\* An orderly framework starts a session with the light on and nothing to come
\* that puts it out.
OrderlyLight ==
    isUdfps /\ ~disorderly =>
      /\ session # "none" => ~OffIn(queue) /\ (hbm = 1 \/ call = "cancel")
      /\ call \in {"authenticate", "enroll"} => Quiet /\ hbm = 1
      /\ fresh => Quiet /\ hbm = 1 /\ call \in {"none", "preEnroll"}

QueueRoom == call # "none" => Len(queue) <= MaxPending

Inv ==
    /\ TypeOK /\ QueueRoom
    /\ PanelOnlyIfUdfps /\ NotFoundYet /\ LightHasCause /\ PressHasFinger /\ OrderlyLight

-----------------------------------------------------------------------------
\* The type invariant in two parts: what is true or false, and the rest.
Flags ==
    /\ isUdfps \in BOOLEAN /\ mClientCallback \in BOOLEAN /\ finger \in BOOLEAN
    /\ enrolling \in BOOLEAN /\ fresh \in BOOLEAN
    /\ disorderly \in BOOLEAN /\ stuck \in BOOLEAN

Values ==
    /\ hbm \in {0, 1} /\ press \in {0, 1}
    /\ call \in {"none", "preEnroll", "enroll", "postEnroll", "cancel", "authenticate"}
    /\ queue \in Seq(Callbacks) /\ Len(queue) <= MaxPending + 1
    /\ session \in {"none", "authenticate", "enroll"}
    /\ calls \in 0 .. MaxCalls /\ deaths \in 0 .. MaxDeaths
    /\ QueueRoom

LEMMA TypeParts == TypeOK /\ QueueRoom <=> Flags /\ Values
  BY Zenon DEF TypeOK, Flags, Values

\* What it means that a group of variables is left alone.
LEMMA GroupsUnchanged ==
  /\ UNCHANGED panel => UNCHANGED <<hbm, press>>
  /\ UNCHANGED framework => UNCHANGED <<finger, calls, deaths>>
  /\ UNCHANGED history => UNCHANGED <<enrolling, fresh, disorderly, stuck>>
  /\ UNCHANGED vars =>
       UNCHANGED <<isUdfps, panel, mClientCallback, call, queue, session, framework, history>>
  BY DEF panel, framework, history, vars

LEMMA CallbackTypes ==
  /\ "error" \in Callbacks /\ "accepted" \in Callbacks
  /\ "rejected" \in Callbacks /\ "other" \in Callbacks
  /\ "error" \in SwitchesOff /\ "accepted" \in SwitchesOff
  /\ "rejected" \notin SwitchesOff /\ "other" \notin SwitchesOff
  BY DEF Callbacks, SwitchesOff

\* The queue after a callback was posted, taken, or all were dropped.
LEMMA PostOff ==
  ASSUME NEW q \in Seq(Callbacks), NEW c \in Callbacks
  PROVE  /\ Append(q, c) \in Seq(Callbacks)
         /\ Len(Append(q, c)) = Len(q) + 1
         /\ OffIn(Append(q, c)) <=> OffIn(q) \/ c \in SwitchesOff
<1>1. /\ Len(q) \in Nat /\ Append(q, c) \in Seq(Callbacks)
      /\ Len(Append(q, c)) = Len(q) + 1
      /\ \A k \in 1 .. Len(q) : Append(q, c)[k] = q[k]
      /\ Append(q, c)[Len(q) + 1] = c
  OBVIOUS
<1>2. 1 .. Len(q) + 1 = (1 .. Len(q)) \cup {Len(q) + 1}
  BY <1>1
<1> QED BY <1>1, <1>2, Zenon DEF OffIn

LEMMA TakeOff ==
  ASSUME NEW q \in Seq(Callbacks), q # <<>>
  PROVE  /\ Head(q) \in Callbacks /\ Tail(q) \in Seq(Callbacks)
         /\ Len(q) \in Nat \ {0} /\ Len(Tail(q)) = Len(q) - 1
         /\ OffIn(q) <=> Head(q) \in SwitchesOff \/ OffIn(Tail(q))
<1>1. Len(q) \in Nat \ {0}
  BY EmptySeq
<1>2. /\ Head(q) \in Callbacks /\ Tail(q) \in Seq(Callbacks)
      /\ Len(Tail(q)) = Len(q) - 1
      /\ \A k \in 1 .. Len(Tail(q)) : Tail(q)[k] = q[k + 1]
  BY HeadTailProperties
<1>3. Head(q) = q[1]
  BY <1>1
<1>4. \A k \in 1 .. Len(q) : k = 1 \/ (k - 1 \in 1 .. Len(Tail(q)) /\ q[k] = Tail(q)[k - 1])
  BY <1>1, <1>2
<1>5. \A k \in 1 .. Len(Tail(q)) : k + 1 \in 1 .. Len(q)
  BY <1>1, <1>2
<1>6. 1 \in 1 .. Len(q)
  BY <1>1
<1>7. OffIn(q) => Head(q) \in SwitchesOff \/ OffIn(Tail(q))
  BY <1>3, <1>4, Zenon DEF OffIn
<1>8. Head(q) \in SwitchesOff => OffIn(q)
  BY <1>3, <1>6, Zenon DEF OffIn
<1>9. OffIn(Tail(q)) => OffIn(q)
  BY <1>2, <1>5, Zenon DEF OffIn
<1> QED BY <1>1, <1>2, <1>7, <1>8, <1>9

LEMMA NoneOff ==
  /\ <<>> \in Seq(Callbacks) /\ Len(<<>>) = 0 /\ ~OffIn(<<>>)
<1>1. Len(<<>>) = 0 /\ <<>> \in Seq(Callbacks)
  BY EmptySeq
<1>2. 1 .. Len(<<>>) = {}
  BY <1>1
<1> QED BY <1>1, <1>2, Zenon DEF OffIn

LEMMA InitInv == Init => Inv
<1> SUFFICES ASSUME Init PROVE Inv
  OBVIOUS
<1>1. Flags
  BY Zenon DEF Init, Flags
<1>2. Values
  BY NoneOff DEF Init, Values, QueueRoom
<1>3. PanelOnlyIfUdfps /\ NotFoundYet /\ LightHasCause /\ PressHasFinger
  BY Zenon DEF Init, PanelOnlyIfUdfps, NotFoundYet, LightHasCause, PressHasFinger
<1>4. OrderlyLight
  BY Zenon DEF Init, OrderlyLight
<1> QED BY <1>1, <1>2, <1>3, <1>4, TypeParts DEF Inv

-----------------------------------------------------------------------------
LEMMA FlagsKept == ASSUME Flags, [Next]_vars PROVE Flags'
<1> USE DEF Flags
<1>1. isUdfps' = isUdfps
  BY GroupsUnchanged DEF Next
<1>2. CASE SetNotify
  BY <1>1, <1>2, GroupsUnchanged DEF SetNotify
<1>3. CASE Calls
  <2>1. /\ UNCHANGED <<mClientCallback, finger>> /\ disorderly' \in BOOLEAN
    BY <1>3, Zenon DEF Calls, PreEnroll, Enroll, PostEnroll, Authenticate, Cancel, Serve
  <2>2. enrolling' \in BOOLEAN /\ fresh' \in BOOLEAN /\ stuck' \in BOOLEAN
    BY <1>3, Zenon DEF Calls, PreEnroll, Enroll, PostEnroll, Authenticate, Cancel
  <2> QED BY <1>1, <2>1, <2>2
<1>4. ASSUME NEW down \in BOOLEAN, OnFinger(down) PROVE Flags'
  BY <1>1, <1>4, GroupsUnchanged DEF OnFinger
<1>5. CASE VendorAnswers \/ VendorReports
  BY <1>1, <1>5, GroupsUnchanged DEF VendorAnswers, VendorReports
<1>6. CASE VendorRefuses
  <2>1. stuck' \in BOOLEAN /\ disorderly' \in BOOLEAN
    BY <1>6, Zenon DEF VendorRefuses
  <2> QED BY <1>1, <1>6, <2>1, GroupsUnchanged DEF VendorRefuses
<1>7. CASE OnCallback
  <2>1. stuck' \in BOOLEAN
    BY <1>7, Zenon DEF OnCallback, Perform
  <2> QED BY <1>1, <1>7, <2>1, GroupsUnchanged DEF OnCallback
<1>8. CASE CallbackTooEarly
  <2>1. stuck' \in BOOLEAN
    BY <1>8, Zenon DEF CallbackTooEarly, Perform
  <2> QED BY <1>1, <1>8, <2>1 DEF CallbackTooEarly, Restart
<1>9. CASE Die
  <2>1. stuck' \in BOOLEAN /\ disorderly' \in BOOLEAN
    BY <1>9, Zenon DEF Die
  <2> QED BY <1>1, <1>9, <2>1 DEF Die, Restart
<1>10. CASE UNCHANGED vars
  BY <1>10, GroupsUnchanged
<1> QED BY <1>2, <1>3, <1>4, <1>5, <1>6, <1>7, <1>8, <1>9, <1>10, Zenon DEF Next

LEMMA PerformValues ==
  ASSUME Values, NEW c, Perform(c) PROVE hbm' \in {0, 1} /\ press' \in {0, 1}
  BY DEF Values, Perform, SetDimlayerHbm, SetFpPress

LEMMA ValuesKept == ASSUME Values, [Next]_vars PROVE Values'
<1> USE DEF Values, QueueRoom
<1>1. Len(queue) \in Nat
  OBVIOUS
<1>2. CASE SetNotify
  BY <1>2, GroupsUnchanged DEF SetNotify
<1>3. CASE Calls
  <2>1. hbm' \in {0, 1}
    BY <1>3 DEF Calls, PreEnroll, Enroll, PostEnroll, Authenticate, Cancel, SetDimlayerHbm
  <2>2. /\ call' \in {"preEnroll", "enroll", "postEnroll", "cancel", "authenticate"}
        /\ calls < MaxCalls /\ calls' = calls + 1 /\ Len(queue) <= MaxPending
        /\ UNCHANGED <<press, queue, session, deaths>>
    BY <1>3, Zenon DEF Calls, PreEnroll, Enroll, PostEnroll, Authenticate, Cancel, Serve
  <2> QED BY <2>1, <2>2
<1>4. ASSUME NEW down \in BOOLEAN, OnFinger(down) PROVE Values'
  BY <1>4, GroupsUnchanged DEF OnFinger, SetFpPress
<1>5. CASE VendorAnswers
  <2>1. queue' = queue \/ queue' = Append(queue, "error")
    BY <1>5 DEF VendorAnswers, EndSession, Post
  <2>2. queue' \in Seq(Callbacks) /\ Len(queue') <= MaxPending + 1
    <3>1. Len(queue) <= MaxPending
      BY <1>5 DEF VendorAnswers
    <3>2. /\ Append(queue, "error") \in Seq(Callbacks)
          /\ Len(Append(queue, "error")) = Len(queue) + 1
      BY PostOff, CallbackTypes
    <3> QED BY <1>1, <2>1, <3>1, <3>2
  <2>3. session' \in {"none", "authenticate", "enroll"} /\ call' = "none"
    BY <1>5 DEF VendorAnswers
  <2> QED BY <1>5, <2>2, <2>3, GroupsUnchanged DEF VendorAnswers
<1>6. CASE VendorRefuses
  BY <1>6, GroupsUnchanged DEF VendorRefuses
<1>7. CASE VendorReports
  <2>1. \E c \in Callbacks : queue' = Append(queue, c)
    BY <1>7, CallbackTypes DEF VendorReports, Post
  <2>2. queue' \in Seq(Callbacks) /\ Len(queue') <= MaxPending
    BY <1>1, <1>7, <2>1, PostOff DEF VendorReports
  <2>3. session' \in {"none", "authenticate", "enroll"}
    BY <1>7 DEF VendorReports
  <2> QED BY <1>1, <1>7, <2>2, <2>3, GroupsUnchanged DEF VendorReports
<1>8. CASE OnCallback
  <2>1. queue' \in Seq(Callbacks) /\ Len(queue') <= MaxPending
    BY <1>1, <1>8, TakeOff DEF OnCallback
  <2>2. hbm' \in {0, 1} /\ press' \in {0, 1}
    BY <1>8, PerformValues DEF OnCallback
  <2> QED BY <1>8, <2>1, <2>2, GroupsUnchanged DEF OnCallback
<1>9. CASE CallbackTooEarly \/ Die
  <2>1. hbm' \in {0, 1} /\ press' \in {0, 1}
    BY <1>9, PerformValues, GroupsUnchanged DEF CallbackTooEarly, Die
  <2>2. Restart
    BY <1>9 DEF CallbackTooEarly, Die
  <2> QED BY <2>1, <2>2, NoneOff DEF Restart
<1>10. CASE UNCHANGED vars
  BY <1>10, GroupsUnchanged
<1> QED BY <1>2, <1>3, <1>4, <1>5, <1>6, <1>7, <1>8, <1>9, <1>10, Zenon DEF Next

-----------------------------------------------------------------------------
LEMMA PanelKept == ASSUME PanelOnlyIfUdfps, [Next]_vars PROVE PanelOnlyIfUdfps'
<1> USE DEF PanelOnlyIfUdfps
<1>1. isUdfps' = isUdfps
  BY GroupsUnchanged DEF Next
<1>2. CASE Calls
  BY <1>1, <1>2, Zenon
     DEF Calls, PreEnroll, Enroll, PostEnroll, Authenticate, Cancel, Serve, SetDimlayerHbm
<1>3. ASSUME NEW down \in BOOLEAN, OnFinger(down) PROVE PanelOnlyIfUdfps'
  BY <1>1, <1>3, Zenon DEF OnFinger, SetFpPress
<1>4. CASE OnCallback \/ CallbackTooEarly
  <2>1. PICK c : Perform(c)
    BY <1>4 DEF OnCallback, CallbackTooEarly
  <2> QED BY <1>1, <2>1, Zenon DEF Perform, SetDimlayerHbm, SetFpPress
<1>5. CASE SetNotify \/ VendorAnswers \/ VendorRefuses \/ VendorReports \/ Die
  <2>1. UNCHANGED <<hbm, press>>
    BY <1>5, GroupsUnchanged
       DEF SetNotify, VendorAnswers, VendorRefuses, VendorReports, Die
  <2> QED BY <1>1, <2>1, Zenon
<1>6. CASE UNCHANGED vars
  <2>1. UNCHANGED <<hbm, press>>
    BY <1>6, GroupsUnchanged
  <2> QED BY <1>1, <2>1, Zenon
<1> QED BY <1>2, <1>3, <1>4, <1>5, <1>6, Zenon DEF Next

LEMMA NotFoundKept ==
  ASSUME Values, PanelOnlyIfUdfps, NotFoundYet, [Next]_vars PROVE NotFoundYet'
<1> USE DEF NotFoundYet
<1>1. CASE SetNotify
  BY <1>1, Zenon DEF SetNotify
<1>2. CASE Calls
  <2>1. mClientCallback /\ UNCHANGED mClientCallback
    BY <1>2, Zenon DEF Calls, PreEnroll, Enroll, PostEnroll, Authenticate, Cancel, Serve
  <2> QED BY <2>1, Zenon
<1>3. ASSUME NEW down \in BOOLEAN, OnFinger(down) PROVE NotFoundYet'
  <2>1. mClientCallback /\ UNCHANGED mClientCallback
    BY <1>3, Zenon DEF OnFinger
  <2> QED BY <2>1, Zenon
<1>4. CASE VendorAnswers \/ VendorRefuses
  <2>1. call # "none" /\ UNCHANGED mClientCallback
    BY <1>4, Zenon DEF VendorAnswers, VendorRefuses
  <2> QED BY <2>1, Zenon
<1>5. CASE VendorReports
  <2>1. UNCHANGED <<mClientCallback, call, enrolling, fresh, hbm, stuck>>
    BY <1>5, GroupsUnchanged DEF VendorReports
  <2> QED BY <2>1, Zenon
<1>6. CASE OnCallback
  <2>1. mClientCallback /\ UNCHANGED mClientCallback
    BY <1>6, Zenon DEF OnCallback
  <2> QED BY <2>1, Zenon
<1>7. CASE CallbackTooEarly
  <2>1. ~mClientCallback /\ call' = "none" /\ ~enrolling' /\ ~fresh'
    BY <1>7, Zenon DEF CallbackTooEarly, Restart
  <2>2. hbm' = 0 \/ (UNCHANGED <<hbm, stuck>>)
    BY <1>7, Zenon DEF CallbackTooEarly, Perform, SetDimlayerHbm, PanelOnlyIfUdfps
  <2> QED BY <2>1, <2>2, Zenon
<1>8. CASE Die
  <2>1. call' = "none" /\ ~enrolling' /\ ~fresh' /\ stuck' = (stuck \/ hbm = 1)
    BY <1>8, Zenon DEF Die, Restart
  <2>2. hbm' = 0 \/ (hbm' = hbm /\ hbm = 1)
    BY <1>8, GroupsUnchanged DEF Die, Values
  <2> QED BY <2>1, <2>2, Zenon
<1>9. CASE UNCHANGED vars
  <2>1. UNCHANGED <<mClientCallback, call, enrolling, fresh, hbm, stuck>>
    BY <1>9, GroupsUnchanged
  <2> QED BY <2>1, Zenon
<1> QED BY <1>1, <1>2, <1>3, <1>4, <1>5, <1>6, <1>7, <1>8, <1>9, Zenon DEF Next

LEMMA PressKept ==
  ASSUME PanelOnlyIfUdfps, PressHasFinger, [Next]_vars PROVE PressHasFinger'
<1> USE DEF PressHasFinger
<1>1. CASE Calls
  <2>1. UNCHANGED <<press, finger>>
    BY <1>1, Zenon DEF Calls, PreEnroll, Enroll, PostEnroll, Authenticate, Cancel, Serve
  <2> QED BY <2>1, Zenon
<1>2. ASSUME NEW down \in BOOLEAN, OnFinger(down) PROVE PressHasFinger'
  BY <1>2, Zenon DEF OnFinger, SetFpPress, PanelOnlyIfUdfps
<1>3. CASE OnCallback \/ CallbackTooEarly
  <2>1. UNCHANGED finger
    BY <1>3, GroupsUnchanged DEF OnCallback, CallbackTooEarly, Restart
  <2>2. PICK c : Perform(c)
    BY <1>3 DEF OnCallback, CallbackTooEarly
  <2>3. press' = 0 \/ press' = press
    BY <2>2, Zenon DEF Perform, SetFpPress
  <2> QED BY <2>1, <2>3, Zenon
<1>4. CASE SetNotify \/ VendorAnswers \/ VendorRefuses \/ VendorReports \/ Die
  <2>1. UNCHANGED <<press, finger>>
    BY <1>4, GroupsUnchanged
       DEF SetNotify, VendorAnswers, VendorRefuses, VendorReports, Die, Restart
  <2> QED BY <2>1, Zenon
<1>5. CASE UNCHANGED vars
  <2>1. UNCHANGED <<press, finger>>
    BY <1>5, GroupsUnchanged
  <2> QED BY <2>1, Zenon
<1> QED BY <1>1, <1>2, <1>3, <1>4, <1>5, Zenon DEF Next

LEMMA LightKept ==
  ASSUME Values, PanelOnlyIfUdfps, NotFoundYet, LightHasCause, [Next]_vars
  PROVE  LightHasCause'
<1> USE DEF LightHasCause
<1>1. queue \in Seq(Callbacks)
  BY DEF Values
<1>2. CASE SetNotify
  <2>1. UNCHANGED <<hbm, enrolling, stuck, call, session, queue>>
    BY <1>2, GroupsUnchanged DEF SetNotify
  <2> QED BY <2>1, Zenon DEF OffIn
<1>3. CASE Calls
  <2>1. call = "none" /\ UNCHANGED <<session, queue>>
    BY <1>3, Zenon DEF Calls, PreEnroll, Enroll, PostEnroll, Authenticate, Cancel, Serve
  <2>2. OffIn(queue)' <=> OffIn(queue)
    BY <2>1, Zenon DEF OffIn
  <2>3. CASE PreEnroll \/ Authenticate
    <3>1. enrolling' \/ call' = "authenticate"
      BY <2>3, Zenon DEF PreEnroll, Authenticate, Serve
    <3> QED BY <3>1, Zenon
  <2>4. CASE PostEnroll \/ Cancel
    <3>1. hbm' = 0
      BY <2>4, Zenon DEF PostEnroll, Cancel, SetDimlayerHbm, PanelOnlyIfUdfps
    <3> QED BY <3>1, Zenon
  <2>5. CASE Enroll
    <3>1. UNCHANGED <<hbm, enrolling, stuck>> /\ call = "none"
      BY <2>1, <2>5 DEF Enroll
    <3> QED BY <2>1, <2>2, <3>1, Zenon
  <2> QED BY <1>3, <2>3, <2>4, <2>5, Zenon DEF Calls
<1>4. ASSUME NEW down \in BOOLEAN, OnFinger(down) PROVE LightHasCause'
  <2>1. UNCHANGED <<hbm, enrolling, stuck, call, session, queue>>
    BY <1>4, GroupsUnchanged DEF OnFinger
  <2> QED BY <2>1, Zenon DEF OffIn
<1>5. CASE VendorAnswers
  <2>1. UNCHANGED <<hbm, enrolling, stuck>>
    BY <1>5, GroupsUnchanged DEF VendorAnswers
  <2>2. \/ UNCHANGED queue
        \/ queue' = Append(queue, "error")
    BY <1>5 DEF VendorAnswers, EndSession, Post
  <2>3. OffIn(queue) => OffIn(queue)'
    BY <1>1, <2>2, PostOff, CallbackTypes, Zenon
  <2>4. session = "authenticate" => OffIn(queue)' \/ UNCHANGED session
    <3>1. session = "authenticate" => queue' = Append(queue, "error") \/ UNCHANGED session
      BY <1>5 DEF VendorAnswers, EndSession, Post
    <3> QED BY <1>1, <3>1, PostOff, CallbackTypes, Zenon
  <2>5. call = "authenticate" => session' = "authenticate"
    BY <1>5 DEF VendorAnswers
  <2> QED BY <2>1, <2>3, <2>4, <2>5, Zenon
<1>6. CASE VendorRefuses
  <2>1. UNCHANGED <<hbm, enrolling, session, queue>>
    BY <1>6, GroupsUnchanged DEF VendorRefuses
  <2>2. stuck' = (stuck \/ call = "authenticate")
    BY <1>6, Zenon DEF VendorRefuses
  <2> QED BY <2>1, <2>2, Zenon DEF OffIn
<1>7. CASE VendorReports
  <2>1. UNCHANGED <<hbm, enrolling, stuck, call>>
    BY <1>7, GroupsUnchanged DEF VendorReports
  <2>2. \E c \in Callbacks :
          /\ queue' = Append(queue, c)
          /\ session = "authenticate" => c \in SwitchesOff \/ session' = "authenticate"
    BY <1>7, CallbackTypes DEF VendorReports, Post
  <2>3. /\ OffIn(queue) => OffIn(queue)'
        /\ session = "authenticate" => OffIn(queue)' \/ session' = "authenticate"
    BY <1>1, <2>2, PostOff, Zenon
  <2> QED BY <2>1, <2>3, Zenon
<1>8. CASE OnCallback
  <2>1. UNCHANGED <<enrolling, call, session>>
    BY <1>8, GroupsUnchanged DEF OnCallback
  <2>2. /\ queue # <<>> /\ queue' = Tail(queue) /\ Perform(Head(queue))
    BY <1>8, Zenon DEF OnCallback
  <2>3. CASE Head(queue) \in SwitchesOff
    <3>1. hbm' = 0
      BY <2>2, <2>3, Zenon DEF Perform, SetDimlayerHbm, PanelOnlyIfUdfps
    <3> QED BY <3>1, Zenon
  <2>4. CASE Head(queue) \notin SwitchesOff
    <3>1. UNCHANGED <<hbm, stuck>>
      BY <2>2, <2>4, Zenon DEF Perform
    <3>2. OffIn(queue)' <=> OffIn(queue)
      <4>1. OffIn(queue) <=> OffIn(Tail(queue))
        BY <1>1, <2>2, <2>4, TakeOff, Zenon
      <4> QED BY <2>2, <4>1, Zenon DEF OffIn
    <3> QED BY <2>1, <3>1, <3>2, Zenon
  <2> QED BY <2>3, <2>4
<1>9. CASE CallbackTooEarly
  <2>1. hbm' = 0 \/ (UNCHANGED <<hbm, stuck>>)
    BY <1>9, Zenon DEF CallbackTooEarly, Perform, SetDimlayerHbm, PanelOnlyIfUdfps
  <2>2. ~mClientCallback
    BY <1>9, Zenon DEF CallbackTooEarly
  <2> QED BY <2>1, <2>2, Zenon DEF NotFoundYet
<1>10. CASE Die
  <2>1. hbm' = hbm /\ stuck' = (stuck \/ hbm = 1)
    BY <1>10, GroupsUnchanged, Zenon DEF Die
  <2>2. hbm = 0 \/ hbm = 1
    BY DEF Values
  <2> QED BY <2>1, <2>2, Zenon
<1>11. CASE UNCHANGED vars
  <2>1. UNCHANGED <<hbm, enrolling, stuck, call, session, queue>>
    BY <1>11, GroupsUnchanged
  <2> QED BY <2>1, Zenon DEF OffIn
<1> QED BY <1>2, <1>3, <1>4, <1>5, <1>6, <1>7, <1>8, <1>9, <1>10, <1>11, Zenon DEF Next

LEMMA OrderlyKept ==
  ASSUME Values, NotFoundYet, OrderlyLight, [Next]_vars
  PROVE  OrderlyLight'
<1> SUFFICES ASSUME isUdfps', ~disorderly' PROVE
      /\ session' # "none" => ~OffIn(queue)' /\ (hbm' = 1 \/ call' = "cancel")
      /\ call' \in {"authenticate", "enroll"} => Quiet' /\ hbm' = 1
      /\ fresh' => Quiet' /\ hbm' = 1 /\ call' \in {"none", "preEnroll"}
  BY Zenon DEF OrderlyLight
<1>1. isUdfps
  <2>1. isUdfps' = isUdfps
    BY GroupsUnchanged DEF Next
  <2> QED BY <2>1, Zenon
<1>2. queue \in Seq(Callbacks)
  BY DEF Values
<1>3. disorderly \/
      /\ session # "none" => ~OffIn(queue) /\ (hbm = 1 \/ call = "cancel")
      /\ call \in {"authenticate", "enroll"} => Quiet /\ hbm = 1
      /\ fresh => Quiet /\ hbm = 1 /\ call \in {"none", "preEnroll"}
  BY <1>1, Zenon DEF OrderlyLight
<1>4. CASE SetNotify \/ UNCHANGED vars \/ \E down \in BOOLEAN : OnFinger(down)
  <2>1. UNCHANGED <<hbm, call, session, queue, fresh, disorderly>>
    BY <1>4, GroupsUnchanged DEF SetNotify, OnFinger
  <2> QED BY <1>3, <2>1, Zenon DEF OffIn, Quiet
<1>5. CASE Calls
  <2>1. /\ call = "none" /\ UNCHANGED <<session, queue>> /\ ~disorderly
        /\ ~Cancel => Quiet
    BY <1>5, Zenon DEF Calls, PreEnroll, Enroll, PostEnroll, Authenticate, Cancel, Serve
  <2>2. Quiet' <=> Quiet
    BY <2>1, Zenon DEF Quiet
  <2>3. OffIn(queue)' <=> OffIn(queue)
    BY <2>1, Zenon DEF OffIn
  <2>4. CASE PreEnroll
    <3>1. call' = "preEnroll" /\ hbm' = 1 /\ Quiet
      BY <1>1, <2>4, Zenon DEF PreEnroll, Serve, SetDimlayerHbm
    <3> QED BY <2>2, <3>1 DEF Quiet
  <2>5. CASE Enroll
    <3>1. call' = "enroll" /\ UNCHANGED hbm /\ ~fresh' /\ Quiet /\ fresh
      BY <2>5, Zenon DEF Enroll, Serve
    <3>2. hbm' = 1 /\ Quiet'
      BY <1>3, <2>1, <2>2, <3>1, Zenon
    <3> QED BY <2>1, <3>1, <3>2, Zenon DEF Quiet
  <2>6. CASE PostEnroll
    <3>1. call' = "postEnroll" /\ ~fresh' /\ Quiet
      BY <2>6, Zenon DEF PostEnroll, Serve
    <3> QED BY <2>2, <3>1 DEF Quiet
  <2>7. CASE Authenticate
    <3>1. call' = "authenticate" /\ hbm' = 1 /\ ~fresh' /\ Quiet
      BY <1>1, <2>7, Zenon DEF Authenticate, Serve, SetDimlayerHbm
    <3> QED BY <2>2, <3>1, Zenon DEF Quiet
  <2>8. CASE Cancel
    <3>1. call' = "cancel" /\ ~fresh'
      BY <2>8, Zenon DEF Cancel, Serve
    <3> QED BY <1>3, <2>1, <2>3, <3>1
  <2> QED BY <1>5, <2>4, <2>5, <2>6, <2>7, <2>8, Zenon DEF Calls
<1>6. CASE VendorAnswers
  <2>1. UNCHANGED <<hbm, fresh, disorderly>> /\ call' = "none"
    BY <1>6, GroupsUnchanged DEF VendorAnswers
  <2>2. CASE call \in {"authenticate", "enroll"}
    <3>1. Quiet /\ hbm = 1 /\ ~fresh
      BY <1>3, <2>1, <2>2
    <3>2. queue' = <<>>
      BY <1>6, <2>2, <3>1 DEF VendorAnswers, EndSession, Quiet
    <3>3. ~OffIn(queue)'
      BY <3>2, NoneOff, Zenon
    <3> QED BY <2>1, <3>1, <3>3, Zenon
  <2>3. CASE call = "cancel"
    <3>1. session' = "none" /\ ~fresh
      BY <1>3, <1>6, <2>1, <2>3 DEF VendorAnswers
    <3> QED BY <2>1, <3>1, Zenon
  <2>4. CASE call \notin {"authenticate", "enroll", "cancel"}
    <3>1. UNCHANGED <<session, queue>>
      BY <1>6, <2>4 DEF VendorAnswers
    <3>2. call # "cancel"
      BY <2>4
    <3> QED BY <1>3, <2>1, <3>1, <3>2, Zenon DEF OffIn, Quiet
  <2> QED BY <2>2, <2>3, <2>4
<1>7. CASE VendorRefuses
  <2>1. /\ UNCHANGED <<hbm, fresh, session, queue>> /\ call' = "none"
        /\ call \in {"authenticate", "enroll"} /\ ~disorderly
    BY <1>7, Zenon DEF VendorRefuses, panel
  <2>2. ~fresh /\ session = "none"
    BY <1>3, <2>1 DEF Quiet
  <2> QED BY <2>1, <2>2, Zenon
<1>8. CASE VendorReports
  <2>1. UNCHANGED <<hbm, call, fresh, disorderly>> /\ session # "none"
    BY <1>8, GroupsUnchanged DEF VendorReports
  <2>2. ~fresh /\ call \notin {"authenticate", "enroll"} /\ ~OffIn(queue)
    BY <1>3, <2>1, Zenon DEF Quiet
  <2>3. PICK c \in Callbacks :
          queue' = Append(queue, c) /\ (c \in SwitchesOff => session' = "none")
    BY <1>8, CallbackTypes DEF VendorReports, Post
  <2>4. session' # "none" => ~OffIn(queue)'
    <3>1. OffIn(Append(queue, c)) <=> OffIn(queue) \/ c \in SwitchesOff
      BY <1>2, PostOff
    <3>2. OffIn(queue)' <=> OffIn(Append(queue, c))
      BY <2>3, Zenon DEF OffIn
    <3> QED BY <2>2, <2>3, <3>1, <3>2, Zenon
  <2> QED BY <1>3, <2>1, <2>2, <2>4, Zenon
<1>9. CASE OnCallback
  <2>1. UNCHANGED <<call, session, fresh, disorderly>>
    BY <1>9, GroupsUnchanged DEF OnCallback
  <2>2. call = "none" /\ queue # <<>> /\ queue' = Tail(queue) /\ Perform(Head(queue))
    BY <1>9, Zenon DEF OnCallback
  <2>3. ~fresh
    BY <1>3, <2>1, <2>2, Zenon DEF Quiet
  <2>4. session # "none" => hbm' = 1 /\ ~OffIn(queue)'
    <3> SUFFICES ASSUME session # "none" PROVE hbm' = 1 /\ ~OffIn(queue)'
      OBVIOUS
    <3>1. ~OffIn(queue) /\ hbm = 1
      BY <1>3, <2>1, <2>2, Zenon
    <3>2. Head(queue) \notin SwitchesOff /\ ~OffIn(Tail(queue))
      BY <1>2, <2>2, <3>1, TakeOff, Zenon
    <3>3. UNCHANGED hbm
      BY <2>2, <3>2, Zenon DEF Perform
    <3> QED BY <2>2, <3>1, <3>2, <3>3, Zenon
  <2> QED BY <2>1, <2>2, <2>3, <2>4, Zenon
<1>10. CASE CallbackTooEarly \/ Die
  <2>1. /\ UNCHANGED session /\ queue' = <<>> /\ call' = "none" /\ ~fresh'
        /\ ~disorderly
    <3>1. Restart
      BY <1>10, Zenon DEF CallbackTooEarly, Die
    <3>2. disorderly' = disorderly \/ disorderly' = (disorderly \/ call = "cancel")
      BY <1>10, Zenon DEF CallbackTooEarly, Die
    <3>3. ~disorderly
      BY <3>2, Zenon
    <3> QED BY <3>1, <3>3, Zenon DEF Restart
  <2>2. ~OffIn(queue)'
    BY <2>1, NoneOff, Zenon
  <2>3. session # "none" => hbm' = 1
    <3> SUFFICES ASSUME session # "none" PROVE hbm' = 1
      OBVIOUS
    <3>1. ~OffIn(queue) /\ (hbm = 1 \/ call = "cancel")
      BY <1>3, <2>1, Zenon
    <3>2. CASE CallbackTooEarly
      <4>1. call = "none" /\ queue # <<>> /\ Perform(Head(queue))
        BY <3>2, Zenon DEF CallbackTooEarly, NotFoundYet
      <4>2. Head(queue) \notin SwitchesOff
        BY <1>2, <3>1, <4>1, TakeOff, Zenon
      <4>3. UNCHANGED hbm
        BY <4>1, <4>2, Zenon DEF Perform
      <4> QED BY <3>1, <4>1, <4>3
    <3>3. CASE Die
      <4>1. call # "cancel"
        BY <3>3, Zenon DEF Die
      <4>2. UNCHANGED hbm
        BY <3>3, GroupsUnchanged, Zenon DEF Die
      <4> QED BY <3>1, <4>1, <4>2
    <3> QED BY <1>10, <3>2, <3>3
  <2> QED BY <2>1, <2>2, <2>3, Zenon
<1> QED BY <1>4, <1>5, <1>6, <1>7, <1>8, <1>9, <1>10, Zenon DEF Next

LEMMA NextInv == ASSUME Inv, [Next]_vars PROVE Inv'
<1>1. TypeOK' /\ QueueRoom'
  <2>1. TypeOK' /\ QueueRoom' <=> Flags' /\ Values'
    BY Zenon DEF TypeOK, Flags, Values
  <2> QED BY <2>1, TypeParts, FlagsKept, ValuesKept, Zenon DEF Inv
<1> QED BY <1>1, TypeParts, PanelKept, NotFoundKept, PressKept, LightKept, OrderlyKept, Zenon
       DEF Inv

-----------------------------------------------------------------------------
\* For all bounds: at rest the panel is dark, and shows no press without a
\* finger, whatever was refused, cancelled or died, except for a light that a
\* refused authenticate or a death left on.
THEOREM AlwaysDarkAtRest == Spec => [](TypeOK /\ DarkAtRest)
<1>1. ASSUME Inv PROVE TypeOK /\ DarkAtRest
  <2>1. Quiet => ~OffIn(queue)
    BY NoneOff, Zenon DEF Quiet
  <2>2. LightHasCause /\ PressHasFinger
    BY <1>1 DEF Inv
  <2>3. DarkAtRest
    BY <2>1, <2>2, Zenon DEF DarkAtRest, LightHasCause, PressHasFinger, Quiet
  <2> QED BY <1>1, <2>3 DEF Inv
<1> QED BY <1>1, InitInv, NextInv, PTL DEF Spec

\* For all bounds: an orderly framework gets the panel lit for as long as the
\* vendor looks for a finger.
THEOREM AlwaysLitWhileSensing == Spec => []LitWhileSensing
<1>1. Inv => LitWhileSensing
  BY Zenon DEF Inv, OrderlyLight, LitWhileSensing
<1> QED BY <1>1, InitInv, NextInv, PTL DEF Spec
=============================================================================
