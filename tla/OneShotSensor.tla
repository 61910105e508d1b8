--------------------------- MODULE OneShotSensor ---------------------------
(***************************************************************************)
(* What a one-shot sensor promises to the sensor framework: an activation  *)
(* entitles the client to one event, an event uses the entitlement up, and *)
(* it may lapse without an event.  A sensor that is activated again while  *)
(* it is still entitled gains nothing.  UdfpsSensor implements this.       *)
(***************************************************************************)
EXTENDS Naturals

VARIABLES armed,        \* TRUE iff an event may still be delivered
          activations,  \* number of activations so far
          events        \* number of events delivered so far

vars == <<armed, activations, events>>

Init == armed = FALSE /\ activations = 0 /\ events = 0

Activate == armed' = TRUE /\ activations' = activations + 1 /\ UNCHANGED events

Disarm == armed /\ armed' = FALSE /\ UNCHANGED <<activations, events>>

Fire == armed /\ armed' = FALSE /\ events' = events + 1 /\ UNCHANGED activations

Next == Activate \/ Disarm \/ Fire

Spec == Init /\ [][Next]_vars
=============================================================================
