------------------------- MODULE CompletionThreads -------------------------
(***************************************************************************)
(* How the vibrator services (aidl/vibrator/richtap and qti) tell a client *)
(* that its vibration is over: on() and perform() start a detached thread  *)
(* that sleeps for as long as the vibration takes and calls onComplete().  *)
(* Nothing ends such a thread, neither off() nor the next vibration.  Time *)
(* is counted in microseconds, as usleep() does.                           *)
(***************************************************************************)
EXTENDS Integers

CONSTANT UintMod  \* 2^32: useconds_t and the products it is made of have 32 bits

ASSUME WidthAssumption == UintMod \in Nat \ {0}

VARIABLES
    now,
    motor,      \* the vibration under way, and when it ends
    sleeping,   \* the threads that have still to call back, and when they wake up
    completed,       \* history: vibrations whose client has been called back
    unmeasured  \* history: vibrations whose length the service did not know, or 32 bits do not hold

threads == <<now, motor, sleeping, completed, unmeasured>>

ThreadsTypeOK ==
    /\ now \in Nat
    /\ motor \in [of : Nat, until : Nat]
    /\ sleeping \subseteq [of : Nat, until : Nat]
    /\ completed \subseteq Nat /\ unmeasured \subseteq Nat

ThreadsInit ==
    /\ now = 0 /\ motor = [of |-> 0, until |-> 0]
    /\ sleeping = {} /\ completed = {} /\ unmeasured = {}

-----------------------------------------------------------------------------
Vibrates(v) == motor.of = v /\ now < motor.until

Starts(v, us) == motor' = [of |-> v, until |-> now + us]
Silenced == motor' = [motor EXCEPT !.until = now]

\* usleep(ms * 1000).  Seeded fault: the length is taken for microseconds.
UsleepUnscaled(ms) == ms % UintMod
Usleep(ms) == (ms * 1000) % UintMod

\* The thread of a call that passed a callback; known: ms is how long it vibrates.
CallsBackAfter(v, ms, known) ==
    /\ sleeping' = sleeping \cup {[of |-> v, until |-> now + Usleep(ms)]}
    /\ unmeasured' = IF known /\ ms * 1000 < UintMod THEN unmeasured ELSE unmeasured \cup {v}

NobodyCalledBack == UNCHANGED <<sleeping, unmeasured>>

OnComplete(t) ==
    /\ t \in sleeping /\ now >= t.until
    /\ sleeping' = sleeping \ {t} /\ completed' = completed \cup {t.of}
    /\ UNCHANGED <<now, motor, unmeasured>>

\* Time passes up to the end of a vibration or of a sleep, or to just before it.
Moments == {motor.until} \cup {t.until : t \in sleeping}

Elapse(t) ==
    /\ t > now
    /\ t \in Moments \/ t + 1 \in Moments
    /\ now' = t
    /\ UNCHANGED <<motor, sleeping, completed, unmeasured>>

Soon == UNION {{t - 1, t} : t \in Moments}

ThreadStep == (\E t \in sleeping : OnComplete(t)) \/ (\E t \in Soon : Elapse(t))

-----------------------------------------------------------------------------
\* However calls, failures and callbacks of earlier calls interleave, a client
\* is not told that its vibration is over while it still goes on, unless its
\* length in microseconds does not fit 32 bits, or the driver did not tell it.
NotToldWhileItLasts == \A v \in completed \ unmeasured : ~Vibrates(v)
=============================================================================
