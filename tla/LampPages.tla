----------------------------- MODULE LampPages -----------------------------
(***************************************************************************)
(* The lamps of one button plan and the page that shows them.              *)
(*                                                                         *)
(* A button of a plan (button_state::PhoneButton) has one atomic flag,     *)
(* button_on_, and two constants from the configuration that say whether   *)
(* the phone should be woken while the flag is set or while it is clear.   *)
(* The lamps of a plan are the set of its buttons whose flag is set.  A    *)
(* page is what bridge::yealink::PhoneUI renders from the buttons: an LED  *)
(* per button and one critical flag (the Beep attribute).                  *)
(***************************************************************************)

CONSTANTS
    Buttons,          \* the buttons of the plan; fixed by ButtonPlan::create
    CriticalWhenOn,   \* buttons configured with critical_on
    CriticalWhenOff,  \* buttons configured with critical_off
    UIs,              \* the bridge::PhoneUI objects that render the plan
    AoRs,             \* phones (SIP addresses of record)
    AoRsOf,           \* the phones a UI renders for (compatible_aors_)
    Blank             \* the absence of a page: a null cached_button_state_

ASSUME CriticalAssumption == /\ CriticalWhenOn \subseteq Buttons
                             /\ CriticalWhenOff \subseteq Buttons
ASSUME AoRsOfAssumption   == AoRsOf \in [UIs -> SUBSET AoRs]

Pages == [lit : SUBSET Buttons, critical : BOOLEAN]

ASSUME BlankAssumption == Blank \notin Pages

\* PhoneButton::isCritical of button b, when the buttons in lamps are on.
IsCritical(lamps, b) == IF b \in lamps THEN b \in CriticalWhenOn
                                       ELSE b \in CriticalWhenOff

\* The critical flag accumulated over the buttons in bs.
AnyCritical(lamps, bs) == \E b \in bs : IsCritical(lamps, b)

\* createYealinkXML when no button changes while it runs.
PageOf(lamps) == [lit |-> lamps, critical |-> AnyCritical(lamps, Buttons)]
=============================================================================
