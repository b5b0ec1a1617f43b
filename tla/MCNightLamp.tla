----------------------------- MODULE MCNightLamp -----------------------------
(* An instance of NightLamp for TLC: two phones that push the button, the     *)
(* night device and another one.                                              *)
EXTENDS NightLamp

CONSTANTS p1, p2, h1, h2
=============================================================================
