---------------------------- MODULE MCCameraCalls ----------------------------
\* A small instance of CameraCalls for TLC: menus with BULB, with a text that is no
\* number, and without choices.
EXTENDS CameraCallsProofs

NumberSet == {-1, 5}
MenuSet == {<< >>, <<-1, 5>>, <<5, NoNumber, -1>>}
IndexSet == {-1, 0, 1, 2}
=============================================================================
