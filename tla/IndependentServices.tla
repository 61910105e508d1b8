------------------------ MODULE IndependentServices ------------------------
(***************************************************************************)
(* Services of the device that share no state: the gesture nodes of the    *)
(* touch panel, the audio amplifier, the payment service, the folio daemon,*)
(* LiveDisplay, the RichTap vibrator and the predefined effects of the QTI *)
(* vibrator.  Interleaving them shows nothing that each alone does not, so *)
(* a behaviour moves one of them; the others stay in one of their initial  *)
(* states.                                                                 *)
(***************************************************************************)
EXTENDS TouchPanel, TfaAmplifier, IfaaService, FolioDaemon, LiveDisplay,
        RichTapVibrator, VibrationEffects, TLC

VARIABLE moving

\* The vibrators have their clock and threads in common, and never move together.
touch == vars
richTap == <<looper, amplitude, served, status>>
effects == <<config, members, unread, effect_map, performed, answer>>
vibrators == <<threads, richTap, effects>>
still == <<touch, amplifierVars, ifaaVars, folioVars, liveVars, vibrators>>

\* Bound: no file, one whose second style replaces three of the built-in effects
\* with streams that are long, without a rate or for one of the unknown effects,
\* among entries that cannot be used and repeated ones, and one with a late style.
ConfigFiles ==
    LET Entry(id, rate, len) == [effect_id |-> id, play_rate_hz |-> rate, length |-> len]
    IN  { << >>,
          << << >>,
             << Entry(Bad, 24000, 100), Entry(0, 24000, Bad), Entry(0, 8000, 100001),
                Entry(1, 0, 384), Entry(6, 24000, 100), Entry(0, 24000, 50) >>,
             << Entry(2, 24000, 100) >> >>,
          << << >>, << >>, << Entry(2, Bad, 100), Entry(2, 7000, 333) >> >> }

\* Bound: panels without flicker control, and with all but the first.
LookedAt ==
    {{"HBM", "CABC"} \cup flicker : flicker \in {{}, {"PWM_TURBO", "DIMLAYER_BL_EN"}}}

ServicesInit ==
    /\ moving \in {"touch", "amplifier", "payment", "folio", "display", "richtap", "effects"}
    /\ Init /\ AmplifierInit /\ IfaaInit /\ FolioInit /\ LiveInit /\ RichTapInit /\ EffectsInit
    /\ useOplusTouch => moving = "touch"
    /\ supported \in LookedAt /\ (supported = {"HBM", "CABC"} \/ moving = "display")
    /\ looper \/ moving = "richtap"
    /\ config = << >> \/ moving = "effects"

ServicesNext ==
    /\ UNCHANGED moving
    /\ \/ /\ moving = "touch" /\ Next
          /\ UNCHANGED <<amplifierVars, ifaaVars, folioVars, liveVars, vibrators>>
       \/ /\ moving = "amplifier" /\ AmplifierNext
          /\ UNCHANGED <<touch, ifaaVars, folioVars, liveVars, vibrators>>
       \/ /\ moving = "payment" /\ IfaaNext
          /\ UNCHANGED <<touch, amplifierVars, folioVars, liveVars, vibrators>>
       \/ /\ moving = "folio" /\ FolioNext
          /\ UNCHANGED <<touch, amplifierVars, ifaaVars, liveVars, vibrators>>
       \/ /\ moving = "display" /\ LiveNext
          /\ UNCHANGED <<touch, amplifierVars, ifaaVars, folioVars, vibrators>>
       \/ /\ moving = "richtap" /\ RichTapNext
          /\ UNCHANGED <<touch, amplifierVars, ifaaVars, folioVars, liveVars, effects>>
       \/ /\ moving = "effects" /\ EffectsNext
          /\ UNCHANGED <<touch, amplifierVars, ifaaVars, folioVars, liveVars, richTap>>

ServicesSpec == ServicesInit /\ [][ServicesNext]_<<moving, still>>

\* The threads of a service are alike.
ThreadSymmetry == Permutations(BinderThreads) \cup Permutations(LiveThreads)
=============================================================================
