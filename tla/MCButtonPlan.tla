---------------------------- MODULE MCButtonPlan ----------------------------
(* Instance of ButtonPlan for TLC. *)
EXTENDS ButtonPlan, TLC

CONSTANTS b1, b2, u1, u2, a1, a2

\* One button that alerts when it is lit, one that alerts when it is not.
MCCriticalWhenOn  == {b1}
MCCriticalWhenOff == {b2}

\* u1 renders for both phones, u2 for one of them.
MCAoRsOf == (u1 :> {a1, a2}) @@ (u2 :> {a1})
=============================================================================
