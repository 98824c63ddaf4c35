------------------------------ MODULE MCPopup ------------------------------
(***************************************************************************)
(* Instances of Popup for TLC: the two popups herdr.nix configures, and    *)
(* two or three key presses.                                               *)
(***************************************************************************)
EXTENDS Popup, TLC

CONSTANTS t1, t2, t3, lazygit, btop

TwoToggles == {t1, t2}
ThreeToggles == {t1, t2, t3}
TwoNames == {lazygit, btop}
OneName == {lazygit}
ToggleSymmetry == Permutations(Toggles)
=============================================================================
