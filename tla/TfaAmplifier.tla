---------------------------- MODULE TfaAmplifier ----------------------------
(***************************************************************************)
(* The amplifier module of the audio HAL (audio_amplifier.c).  While a     *)
(* speaker plays, a capture stream feeds the amplifier what the speaker    *)
(* really does.  Starting it takes a use case in the HAL's list, a sound   *)
(* device, an audio route and a stream, each of which may fail; a failure  *)
(* undoes what came before.  The HAL calls with its lock held, when it     *)
(* enables and disables an output device.                                  *)
(***************************************************************************)
EXTENDS Naturals

CONSTANTS Speakers,  \* output devices that is_speaker accepts
          Others     \* the other ones

ASSUME AmplifierAssumption == Speakers \cap Others = {}

VARIABLES
    opened,      \* amp_module_open has handed out the device
    feedback,    \* what the feedback holds: see NoFeedback
    outputs,     \* output devices that the HAL has enabled
    failed,      \* history: the last start failed
    shared,      \* history: several speakers since none was enabled
    halfEnabled  \* history: device or route of the stream was not enabled

amplifierVars == <<opened, feedback, outputs, failed, shared, halfEnabled>>

\* tfa98xx_out is open; use cases listed and allocated; references to the sound
\* device; is there a route?
NoFeedback ==
    [stream |-> FALSE, listed |-> 0, allocated |-> 0, device |-> 0, route |-> FALSE]

AmplifierInit ==
    /\ opened = FALSE /\ feedback = NoFeedback /\ outputs = {}
    /\ failed = FALSE /\ shared = FALSE /\ halfEnabled = FALSE

-----------------------------------------------------------------------------
\* A symbol of the audio HAL may be missing: then there is no device.
amp_module_open ==
    /\ ~opened /\ opened' = TRUE
    /\ UNCHANGED <<feedback, outputs, failed, shared, halfEnabled>>

\* The HAL closes the device when it has no output enabled.
amp_dev_close ==
    /\ opened /\ outputs = {} /\ opened' = FALSE
    /\ UNCHANGED <<feedback, outputs, failed, shared, halfEnabled>>

is_speaker(d) == d \in Speakers

\* The use case is listed; what enabling the device and the route return is
\* not looked at.
Acquired(f, device, route, stream) ==
    [stream |-> stream, listed |-> f.listed + 1, allocated |-> f.allocated + 1,
     device |-> IF device THEN f.device + 1 ELSE f.device, route |-> route]

DeviceDisabled(n) == IF n = 0 THEN 0 ELSE n - 1

\* The use case leaves the list, the stream, device and route go, and it is freed.
Released(f, listed) ==
    [stream |-> FALSE, listed |-> listed, allocated |-> f.allocated - 1,
     device |-> DeviceDisabled(f.device), route |-> FALSE]

\* Seeded fault: the error path frees a use case that stays in the list.
UndoneButListed(f) == Released(f, f.listed)
Undone(f) == Released(f, f.listed - 1)

start_feedback(d) ==
    IF feedback.stream \/ ~is_speaker(d)
      THEN UNCHANGED <<feedback, failed, halfEnabled>>
      ELSE \/ feedback' = feedback /\ failed' = TRUE /\ UNCHANGED halfEnabled
           \/ \E device, route \in BOOLEAN :
                 \/ /\ feedback' = Acquired(feedback, device, route, TRUE)
                    /\ failed' = FALSE /\ halfEnabled' = ~(device /\ route)
                 \* no device id, a stream that is not ready or does not start
                 \/ /\ \E open \in BOOLEAN :
                          feedback' = Undone(Acquired(feedback, device, route, open))
                    /\ failed' = TRUE /\ UNCHANGED halfEnabled

\* Seeded fault: any device ends the feedback.
StopsAlways(d) == TRUE
Stops(d) == is_speaker(d)

\* Without a use case in the list only the sound device is disabled.
stop_feedback(d) ==
    /\ feedback' =
         IF ~Stops(d) THEN feedback
         ELSE IF feedback.listed > 0 THEN Undone(feedback)
         ELSE [stream |-> FALSE, listed |-> feedback.listed, allocated |-> feedback.allocated,
               device |-> DeviceDisabled(feedback.device), route |-> feedback.route]
    /\ failed' = (failed /\ ~Stops(d))
    /\ UNCHANGED halfEnabled

InUse(ds) == ds \cap Speakers

EnableOutput(d) ==
    /\ opened /\ d \notin outputs
    /\ outputs' = outputs \cup {d}
    /\ shared' = (shared \/ (is_speaker(d) /\ InUse(outputs) # {}))
    /\ start_feedback(d)
    /\ UNCHANGED opened

DisableOutput(d) ==
    /\ opened /\ d \in outputs
    /\ outputs' = outputs \ {d}
    /\ shared' = (shared /\ InUse(outputs') # {})
    /\ stop_feedback(d)
    /\ UNCHANGED opened

AmplifierNext ==
    \/ amp_module_open \/ amp_dev_close
    \/ \E d \in Speakers \cup Others : EnableOutput(d) \/ DisableOutput(d)

AmplifierSpec == AmplifierInit /\ [][AmplifierNext]_amplifierVars

-----------------------------------------------------------------------------
\* Whatever failed on the way, nothing is left half started: either the stream
\* runs with one use case, its device and its route (as far as the HAL could
\* enable them), or none of them is left.
FeedbackAllOrNothing ==
    IF feedback.stream
      THEN /\ feedback.listed = 1 /\ feedback.allocated = 1
           /\ halfEnabled \/ (feedback.device = 1 /\ feedback.route)
      ELSE feedback = NoFeedback

\* The feedback runs exactly while a speaker is enabled, unless it could not be
\* started or several speakers were in use at a time: there is no count, and
\* the first one to go ends it for all.
FeedbackFollowsSpeaker ==
    shared \/ failed \/ (feedback.stream <=> InUse(outputs) # {})

\* Over any series of outputs enabled and disabled and of failing calls, the
\* feedback is whole or nothing, and there when a speaker is.
FeedbackIsSound == FeedbackAllOrNothing /\ FeedbackFollowsSpeaker
=============================================================================
