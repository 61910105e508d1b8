--------------------------- MODULE FingerprintHal ---------------------------
(***************************************************************************)
(* The HIDL fingerprint service (hidl/fingerprint).  It stands between the *)
(* framework and the vendor's HAL and, with an optical sensor under the    *)
(* display, lights the panel (the dim layer) while a finger is looked for  *)
(* and tells it of a press.  Its only binder thread serves the framework's *)
(* calls, which wait for the vendor, and the vendor's one-way callbacks,   *)
(* which therefore queue up behind a call.  The process may die; the panel *)
(* and the vendor's HAL keep their state then.                             *)
(***************************************************************************)
EXTENDS Naturals, Sequences

CONSTANTS MaxCalls,    \* bound: calls of the framework
          MaxPending,  \* bound: callbacks queued while sessions go on
          MaxDeaths    \* bound: deaths of the service

ASSUME ConstantsAssumption ==
    MaxCalls \in Nat /\ MaxPending \in Nat \ {0} /\ MaxDeaths \in Nat

VARIABLES
    isUdfps,          \* persist.vendor.fingerprint.sensor_type is optical
    hbm, press,       \* the panel: dim layer and finger press, 0 or 1
    mClientCallback,  \* whether the framework has set it
    call,             \* the vendor's method that the thread is about to call
    queue,            \* the vendor's callbacks to come
    session,          \* the vendor: what it looks for a finger for
    finger,           \* what the framework last said: finger down?
    calls, deaths,
    enrolling,        \* history: between preEnroll and postEnroll
    fresh,            \* history: preEnroll was the last call
    disorderly,       \* history: the framework did not wait, or cancel failed
    stuck             \* history: the light was left on by a failure or a death

panel     == <<hbm, press>>
framework == <<finger, calls, deaths>>
history   == <<enrolling, fresh, disorderly, stuck>>
vars == <<isUdfps, panel, mClientCallback, call, queue, session, framework, history>>

Callbacks == {"error", "accepted", "rejected", "other"}

TypeOK ==
    /\ isUdfps \in BOOLEAN /\ hbm \in {0, 1} /\ press \in {0, 1}
    /\ mClientCallback \in BOOLEAN
    /\ call \in {"none", "preEnroll", "enroll", "postEnroll", "cancel", "authenticate"}
    /\ queue \in Seq(Callbacks) /\ Len(queue) <= MaxPending + 1
    /\ session \in {"none", "authenticate", "enroll"}
    /\ finger \in BOOLEAN /\ calls \in 0 .. MaxCalls /\ deaths \in 0 .. MaxDeaths
    /\ enrolling \in BOOLEAN /\ fresh \in BOOLEAN
    /\ disorderly \in BOOLEAN /\ stuck \in BOOLEAN

Init ==
    /\ isUdfps \in BOOLEAN /\ hbm = 0 /\ press = 0
    /\ mClientCallback = FALSE /\ call = "none" /\ queue = <<>> /\ session = "none"
    /\ finger = FALSE /\ calls = 0 /\ deaths = 0
    /\ enrolling = FALSE /\ fresh = FALSE /\ disorderly = FALSE /\ stuck = FALSE

-----------------------------------------------------------------------------
SetDimlayerHbm(value) == hbm' = IF isUdfps THEN value ELSE hbm
SetFpPress(value) == press' = IF isUdfps THEN value ELSE press

\* A new client callback, when the framework has found the service.
SetNotify ==
    /\ call = "none" /\ ~mClientCallback
    /\ mClientCallback' = TRUE
    /\ UNCHANGED <<panel, call, queue, session, framework, history>>

\* The thread takes a call; in an orderly framework nothing else is under way.
Serve(method, orderly) ==
    /\ call = "none" /\ mClientCallback
    /\ calls < MaxCalls /\ Len(queue) <= MaxPending
    /\ call' = method
    /\ calls' = calls + 1
    /\ disorderly' = (disorderly \/ ~orderly)
    /\ UNCHANGED <<press, mClientCallback, queue, session, finger, deaths>>

Quiet == session = "none" /\ queue = <<>>

PreEnroll ==
    /\ Serve("preEnroll", Quiet)
    /\ SetDimlayerHbm(1)
    /\ enrolling' = TRUE /\ fresh' = TRUE /\ UNCHANGED stuck

Enroll ==
    /\ enrolling
    /\ Serve("enroll", Quiet /\ fresh)
    /\ fresh' = FALSE /\ UNCHANGED <<hbm, enrolling, stuck>>

\* Seeded fault: the light stays on after an enrolment.
PostEnrollLit ==
    /\ enrolling
    /\ Serve("postEnroll", Quiet)
    /\ enrolling' = FALSE /\ fresh' = FALSE /\ UNCHANGED <<hbm, stuck>>

PostEnroll ==
    /\ enrolling
    /\ Serve("postEnroll", Quiet)
    /\ SetDimlayerHbm(0)
    /\ enrolling' = FALSE /\ fresh' = FALSE /\ stuck' = FALSE

Authenticate ==
    /\ Serve("authenticate", Quiet)
    /\ SetDimlayerHbm(1)
    /\ fresh' = FALSE /\ UNCHANGED <<enrolling, stuck>>

Cancel ==
    /\ Serve("cancel", TRUE)
    /\ SetDimlayerHbm(0)
    /\ fresh' = FALSE /\ stuck' = FALSE /\ UNCHANGED enrolling

\* onFingerDown, onFingerUp; what is forwarded does not move a session.
OnFinger(down) ==
    /\ call = "none" /\ mClientCallback /\ finger # down
    /\ SetFpPress(IF down THEN 1 ELSE 0)
    /\ finger' = down
    /\ UNCHANGED <<hbm, mClientCallback, call, queue, session, calls, deaths, history>>

-----------------------------------------------------------------------------
\* The vendor's HAL, external.  A session that ends says so in a callback.
Post(callback) == queue' = Append(queue, callback)

EndSession == IF session = "none" THEN UNCHANGED queue ELSE Post("error")

\* The vendor's answer to the call that the thread waits in.
VendorAnswers ==
    /\ call # "none" /\ call' = "none"
    /\ CASE call \in {"authenticate", "enroll"} -> session' = call /\ EndSession
         [] call = "cancel"                     -> session' = "none" /\ EndSession
         [] OTHER                               -> UNCHANGED <<session, queue>>
    /\ UNCHANGED <<panel, mClientCallback, framework, history>>

\* ... or it refuses; the status is handed to the framework, and nothing undone.
VendorRefuses ==
    /\ call \in {"authenticate", "enroll", "cancel"} /\ call' = "none"
    /\ stuck' = (stuck \/ call = "authenticate")
    /\ disorderly' = (disorderly \/ call = "cancel")
    /\ UNCHANGED <<panel, mClientCallback, queue, session, framework, enrolling, fresh>>

VendorReports ==
    /\ Len(queue) < MaxPending
    /\ \/ session = "authenticate" /\ Post("accepted") /\ session' = "none"
       \/ session = "authenticate" /\ Post("rejected") /\ UNCHANGED session
       \/ session # "none" /\ Post("error") /\ session' = "none"
       \/ session = "enroll" /\ Post("other") /\ session' \in {"enroll", "none"}
    /\ UNCHANGED <<panel, mClientCallback, call, framework, history>>

-----------------------------------------------------------------------------
\* Callbacks that put the light out.  Seeded faults: onError does not; a
\* finger that was not recognised does, too.
OffButOnError == {"accepted"}
OffOnAnyResult == {"error", "accepted", "rejected"}
SwitchesOff == {"error", "accepted"}
EndsPress == {"error", "accepted", "rejected"}

\* onError, onAuthenticated and the callbacks that are only passed on.
Perform(callback) ==
    /\ IF callback \in SwitchesOff
         THEN SetDimlayerHbm(0) /\ stuck' = FALSE
         ELSE UNCHANGED <<hbm, stuck>>
    /\ IF callback \in EndsPress THEN SetFpPress(0) ELSE UNCHANGED press

OnCallback ==
    /\ call = "none" /\ mClientCallback /\ queue # <<>>
    /\ Perform(Head(queue))
    /\ queue' = Tail(queue)
    /\ UNCHANGED <<mClientCallback, call, session, framework, enrolling, fresh, disorderly>>

\* The process starts again: nothing that was queued for it is kept.
Restart ==
    /\ deaths < MaxDeaths
    /\ deaths' = deaths + 1
    /\ mClientCallback' = FALSE /\ call' = "none" /\ queue' = <<>>
    /\ enrolling' = FALSE /\ fresh' = FALSE
    /\ UNCHANGED <<session, finger, calls>>

\* It may die at any time, of a transport error of the vendor's for one.
Die ==
    /\ Restart
    /\ stuck' = (stuck \/ hbm = 1)
    /\ disorderly' = (disorderly \/ call = "cancel")
    /\ UNCHANGED panel

\* A callback for a new process that has no client callback yet does its work
\* on the panel and then calls through a null pointer.
CallbackTooEarly ==
    /\ ~mClientCallback /\ queue # <<>>
    /\ Perform(Head(queue))
    /\ Restart
    /\ UNCHANGED disorderly

Calls == PreEnroll \/ Enroll \/ PostEnroll \/ Authenticate \/ Cancel

Next ==
    /\ \/ SetNotify \/ Calls \/ \E down \in BOOLEAN : OnFinger(down)
       \/ VendorAnswers \/ VendorRefuses \/ VendorReports
       \/ OnCallback \/ CallbackTooEarly \/ Die
    /\ UNCHANGED isUdfps

\* The service's thread runs, the vendor answers, and a service that has
\* started is found by the framework.  Everything else may never happen.
Fairness ==
    /\ WF_vars((VendorAnswers \/ VendorRefuses) /\ UNCHANGED isUdfps)
    /\ SF_vars(OnCallback /\ UNCHANGED isUdfps)
    /\ WF_vars(SetNotify /\ UNCHANGED isUdfps)

Spec == Init /\ [][Next]_vars /\ Fairness

-----------------------------------------------------------------------------
\* With no session, no call, no callback to come and no enrolment the panel is
\* not lit, unless a refused authenticate or a death left it so; and with no
\* finger on it no press is shown, not even after a death.
DarkAtRest ==
    Quiet /\ call = "none" =>
        /\ hbm = 0 \/ enrolling \/ stuck
        /\ press = 0 \/ finger

\* While the vendor looks for a finger the panel is lit, if the framework starts
\* one session at a time, waits for its end, and calls preEnroll before enroll.
LitWhileSensing ==
    session # "none" /\ queue = <<>> /\ call = "none" /\ isUdfps => hbm = 1 \/ disorderly

\* When a session is over the light goes out, unless the next one begins.
GoesDark ==
    session = "none" ~> hbm = 0 \/ session # "none" \/ enrolling \/ stuck
=============================================================================
