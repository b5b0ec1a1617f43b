------------------------- MODULE MCPhoneRegistration -------------------------
(* An instance of PhoneRegistration for TLC: a phone and the two plans it     *)
(* shows; the page of the second is critical when its lamp is lit.            *)
EXTENDS PhoneRegistration, TLC

CONSTANTS p1, l1, l2

MCAoRsOf == l1 :> {p1} @@ l2 :> {p1}
=============================================================================
