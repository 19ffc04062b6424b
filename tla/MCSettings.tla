----------------------------- MODULE MCSettings -----------------------------
(* SettingsStore on small instances; the .cfg files give the constants.  The *)
(* threads of the GUI are interchangeable.                                   *)
EXTENDS SettingsStore, TLC
GuiSymmetry == Permutations(Gui)
=============================================================================
