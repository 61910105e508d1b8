---------------------------- MODULE MCKeyHandler ----------------------------
(* Instances of KeyHandler for TLC: preferences that use both the ringer   *)
(* and the zen modes.                                                      *)
EXTENDS KeyHandler

SliderPositions == {1, 2, 3}
DndModes == [p \in SliderPositions |-> <<"silent", "priority", "normal">>[p]]
=============================================================================
