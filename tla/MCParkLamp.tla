------------------------------ MODULE MCParkLamp ------------------------------
(* An instance of ParkLamp for TLC: a lot of two spaces and a space of         *)
(* another lot; two calls.                                                     *)
EXTENDS ParkLamp

CONSTANTS c1, c2

MCSpaces == 1 .. 3
MCParkPos == <<1, 2>>
=============================================================================
