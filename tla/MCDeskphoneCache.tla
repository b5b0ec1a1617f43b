-------------------------- MODULE MCDeskphoneCache --------------------------
(* Instance of DeskphoneCache for TLC. *)
EXTENDS DeskphoneCache, TLC

CONSTANTS p1, e1, e2, ip1

\* Two endpoints at one address: they differ in port or transport.
MCIpOf == (e1 :> ip1) @@ (e2 :> ip1)
=============================================================================
