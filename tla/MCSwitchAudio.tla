--------------------------- MODULE MCSwitchAudio ---------------------------
(***************************************************************************)
(* SwitchAudio for TLC: one HDMI sink that exists only under the card      *)
(* profile "hdmi" and comes and goes.                                      *)
(***************************************************************************)
EXTENDS SwitchAudio, TLC

CONSTANTS w1, w2, m1, tv, hdmi

WaiterPair == {w1, w2}
OneManual == {m1}
OneProfile == {hdmi}
TvOnly == {tv}
TvProfile == tv :> hdmi
=============================================================================
