----------------------------- MODULE MCVibrator -----------------------------
(* Instances of VibratorHal for TLC: a driver with a handful of effect ids. *)
EXTENDS VibratorHal, TLC

SlotSymmetry == Permutations(Slots)
=============================================================================
