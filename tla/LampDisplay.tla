---------------------------- MODULE LampDisplay ----------------------------
(***************************************************************************)
(* What a button plan promises to the people who look at the phones.       *)
(*                                                                         *)
(* A phone that shows a page at all shows the page of the lamps as they    *)
(* are, or as they were before the last change: the lamps change again     *)
(* only after every phone that shows a page shows the current one.  A      *)
(* page put on a phone is always a page of the current lamps, and a phone  *)
(* that has fallen behind catches up.                                      *)
(***************************************************************************)
EXTENDS LampPages

VARIABLES lamps,    \* the buttons that are on
          display   \* the page each UI last put on each of its phones

dvars == <<lamps, display>>

Init == /\ lamps = {}
        /\ display = [u \in UIs |-> [a \in AoRs |-> Blank]]

Behind(u, a) == display[u][a] \notin {Blank, PageOf(lamps)}

\* A button changes, once no phone is behind.
Change == /\ \A u \in UIs, a \in AoRs : ~ Behind(u, a)
          /\ \E b \in Buttons :
                lamps' = IF b \in lamps THEN lamps \ {b} ELSE lamps \cup {b}
          /\ UNCHANGED display

\* The current page is put on a phone.
Show(u, a) == /\ display' = [display EXCEPT ![u][a] = PageOf(lamps)]
              /\ UNCHANGED lamps

CatchUp(u, a) == Behind(u, a) /\ Show(u, a)

Next == Change \/ \E u \in UIs, a \in AoRs : Show(u, a)

Safety == Init /\ [][Next]_dvars

Spec == Safety /\ \A u \in UIs, a \in AoRs : WF_dvars(CatchUp(u, a))
=============================================================================
