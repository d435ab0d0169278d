--------------------------- MODULE MCUndoHistory ---------------------------
(* TLC instance of UndoHistory: three contents, two selections, two kinds  *)
(* of edit.                                                                *)
EXTENDS UndoHistory

CONSTANTS empty, a, b, sel, nosel, trim, gain, created, nodesc

MCAudio == {empty, a, b}
MCView == {sel, nosel}
MCDescs == {trim, gain}
NoFaults == {}
AutosaveFault == {"autosave"}
SliderFault == {"slider"}
AllFaults == FaultKinds

=============================================================================
