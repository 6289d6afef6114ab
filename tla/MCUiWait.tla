------------------------------ MODULE MCUiWait ------------------------------
(* The instances of UiWait that TLC checks.  Between the second screen and the
   third the comparison of a stable screen sees no difference. *)
EXTENDS UiWait, TLC

CONSTANTS w1, f1, button, checkbox, keyboard

MCScreens == {{}, {button}, {button, checkbox, keyboard}}
==============================================================================
