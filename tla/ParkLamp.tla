------------------------------ MODULE ParkLamp ------------------------------
(***************************************************************************)
(* A park button: the ParkEventHandler that lights its lamp                *)
(* (src/src/asterisk/ParkEventHandler.cpp) and the HTTP button that lists  *)
(* the parked calls (src/src/bridge/yealink/ParkButton.cpp), with the      *)
(* Asterisk server both talk to.                                           *)
(*                                                                         *)
(* The handler subscribes to the events first, then asks for the hints of  *)
(* its lot, stores them while the AMI thread may be reading them, and then *)
(* asks for the state of every extension.  A parking space is its number,  *)
(* and stands for its hint and its extension as well.                      *)
(***************************************************************************)
EXTENDS Integers, SequencesExt

CONSTANTS
    Spaces,     \* parking spaces, of any lot
    ParkPos,    \* first and last space of the lot, as configured
    Calls, None,
    MaxEvents   \* bound on the changes that wait for the AMI thread

ASSUME SpacesAssumption == Spaces \subseteq Int /\ IsFiniteSet(Spaces)
ASSUME ParkPosAssumption == ParkPos \in Int \X Int
ASSUME NoneAssumption == None \notin Calls
ASSUME MaxEventsAssumption == MaxEvents \in Nat \ {0}

VARIABLES
    parked,          \* the call in each space
    status,          \* the extension state of each space
    events,          \* ExtensionStatus events the AMI thread has still to handle
    list,            \* the ExtensionStateList: not sent, sent or answered
    main,            \* where the constructor is
    fetched,         \* what getParkingHints returned
    parking_hints_,
    parked_extens_,
    lamp,            \* the flag of the PhoneButton
    screen           \* what the phone shows of the park button

vars == <<parked, status, events, list, main, fetched,
          parking_hints_, parked_extens_, lamp, screen>>
asterisk == <<parked, status, events, list>>
handler == <<main, fetched, parking_hints_, parked_extens_, lamp>>

\* "parkpos" is a number or two with a dash: both ends belong to the lot.
Lot == Spaces \cap (ParkPos[1] .. ParkPos[2])

\* Idle, in use, and any other state, as unavailable is.
Statuses == {"0", "1", "4"}
Events == [space : Spaces, status : Statuses]

Items == [selection : Spaces, call : Calls]

Message(beep, timeout, text, call) ==
    [kind |-> "text", beep |-> beep, timeout |-> timeout, text |-> text, call |-> call]
Screens ==
    [kind : {"none"}] \cup [kind : {"menu"}, items : Seq(Items)]
    \cup {Message(b, t, x, c) : b \in BOOLEAN, t \in {5, 10},
          x \in {"empty", "detail", "missing"}, c \in Calls \cup {None}}
NoScreen == [kind |-> "none"]

TypeOK ==
    /\ parked \in [Spaces -> Calls \cup {None}]
    /\ status \in [Spaces -> Statuses]
    /\ events \in Seq(Events)
    /\ list \in {"none", "sent", "answered"}
    /\ main \in {"subscribe", "config", "assign", "assigning", "list", "done"}
    /\ fetched \subseteq Lot
    /\ parking_hints_ \subseteq Lot
    /\ parked_extens_ \subseteq parking_hints_ \cup fetched
    /\ lamp \in BOOLEAN
    /\ screen \in Screens

Init ==
    /\ parked = [s \in Spaces |-> None] /\ status = [s \in Spaces |-> "0"]
    /\ events = <<>> /\ list = "none"
    /\ main = "subscribe" /\ fetched = {}
    /\ parking_hints_ = {} /\ parked_extens_ = {}
    /\ lamp = FALSE
    /\ screen = NoScreen

-----------------------------------------------------------------------------
(* The Asterisk server                                                     *)

\* A new state is announced to those who are subscribed.
Report(s, new) ==
    /\ status' = [status EXCEPT ![s] = new]
    /\ events' = IF new = status[s] \/ main = "subscribe" THEN events
                 ELSE Append(events, [space |-> s, status |-> new])

CallParked(s, c) ==
    /\ Len(events) < MaxEvents
    /\ parked[s] = None /\ \A t \in Spaces : parked[t] # c
    /\ parked' = [parked EXCEPT ![s] = c]
    /\ Report(s, "1")
    /\ UNCHANGED <<list, handler, screen>>

CallLeaves(s) ==
    /\ Len(events) < MaxEvents
    /\ parked[s] # None
    /\ parked' = [parked EXCEPT ![s] = None]
    /\ Report(s, "0")
    /\ UNCHANGED <<list, handler, screen>>

\* The state becomes unknown, and comes back.
Unavailable(s) ==
    /\ Len(events) < MaxEvents
    /\ Report(s, IF status[s] # "4" THEN "4" ELSE IF parked[s] = None THEN "0" ELSE "1")
    /\ UNCHANGED <<parked, list, handler, screen>>

\* The answer to an ExtensionStateList: an event for each extension, written
\* to the connection before or after changes that wait to be sent.
AnswerList(n) ==
    /\ list = "sent"
    /\ list' = "answered"
    /\ LET order == SetToSeq(Spaces)
           all == [i \in DOMAIN order |-> [space |-> order[i], status |-> status[order[i]]]]
       IN  events' = SubSeq(events, 1, n) \o all \o SubSeq(events, n + 1, Len(events))
    /\ UNCHANGED <<parked, status, handler, screen>>

-----------------------------------------------------------------------------
(* The constructor of ParkEventHandler, in the main thread                 *)

Subscribe ==
    /\ main = "subscribe"
    /\ main' = "config"
    /\ UNCHANGED <<asterisk, fetched, parking_hints_, parked_extens_, lamp, screen>>

\* A failed GetConfigJSON, or a file without the lot, gives no hint.
GetParkingHints ==
    /\ main = "config"
    /\ main' = "assign"
    /\ fetched' \in {{}, Lot}
    /\ UNCHANGED <<asterisk, parking_hints_, parked_extens_, lamp, screen>>

\* The assignment has a beginning and an end, for the AMI thread reads the set.
BeginAssign ==
    /\ main = "assign"
    /\ main' = "assigning"
    /\ UNCHANGED <<asterisk, fetched, parking_hints_, parked_extens_, lamp, screen>>

EndAssign ==
    /\ main = "assigning"
    /\ main' = "list"
    /\ parking_hints_' = fetched
    /\ UNCHANGED <<asterisk, fetched, parked_extens_, lamp, screen>>

\* Faulty variant: the list is asked for before the hints are known.
ExtensionStateList_Early ==
    \/ /\ main = "config" /\ list = "none"
       /\ list' = "sent"
       /\ UNCHANGED <<parked, status, events, handler, screen>>
    \/ /\ main = "list" /\ list # "none"
       /\ main' = "done"
       /\ UNCHANGED <<asterisk, fetched, parking_hints_, parked_extens_, lamp, screen>>

ExtensionStateList ==
    /\ main = "list"
    /\ main' = "done"
    /\ list' = "sent"
    /\ UNCHANGED <<parked, status, events, fetched, parking_hints_, parked_extens_, lamp, screen>>

-----------------------------------------------------------------------------
(* The AMI thread                                                          *)

\* Faulty variant: the hint of the event is not looked at.
KnownHint_Any(s) == {TRUE}

\* What parking_hints_.contains may answer; the build gives either the empty
\* set's answer or the new set's while the set is being assigned.
KnownHint(s) ==
    {s \in parking_hints_} \cup (IF main = "assigning" THEN {s \in fetched} ELSE {})

\* Faulty variant: the lamp shows what this event says of one space.
UpdateButtonState_Event(e, taken) == IF e.status \in {"0", "1"} THEN e.status = "1" ELSE lamp

\* Faulty variant: the lamp is updated when a call leaves only.
UpdateButtonState_Leaving(e, taken) == IF e.status = "0" THEN taken # {} ELSE lamp

UpdateButtonState(e, taken) == taken # {}

AmiEventHandler ==
    /\ events # <<>>
    /\ events' = Tail(events)
    /\ LET e == Head(events)
       IN  \E known \in KnownHint(e.space) :
             IF known
             THEN /\ parked_extens_' = CASE e.status = "0" -> parked_extens_ \ {e.space}
                                         [] e.status = "1" -> parked_extens_ \cup {e.space}
                                         [] OTHER -> parked_extens_
                  /\ lamp' = UpdateButtonState(e, parked_extens_')
             ELSE UNCHANGED <<parked_extens_, lamp>>
    /\ UNCHANGED <<parked, status, list, main, fetched, parking_hints_, screen>>

-----------------------------------------------------------------------------
(* ParkButton, in the HTTP threads                                         *)

\* The ParkedCalls of the lot, in the order Asterisk has them.
ParkedCalls ==
    LET taken == SetToSeq({s \in Lot : parked[s] # None})
    IN  [i \in DOMAIN taken |-> [selection |-> taken[i], call |-> parked[taken[i]]]]

\* The list of calls, each item with the space to dial and to select.
Menu(calls) ==
    IF calls = <<>> THEN Message(FALSE, 5, "empty", None)
    ELSE [kind |-> "menu", items |-> calls]

\* Faulty variant: the search ends with the first call, whatever its space.
Detail_First(calls, exten) ==
    Message(FALSE, 10, "detail",
            IF calls # <<>> /\ calls[1].selection = exten THEN calls[1].call ELSE None)

\* The first call parked there, or none.
Detail(calls, exten) ==
    LET at == SelectInSeq(calls, LAMBDA c : c.selection = exten)
    IN  Message(FALSE, 10, "detail", IF at = 0 THEN None ELSE calls[at].call)

\* park_list_path.
PushButton ==
    /\ main = "done"
    /\ screen' = Menu(ParkedCalls)
    /\ UNCHANGED <<asterisk, handler>>

\* park_info_path, from an item of the menu.
PushItem(item) ==
    /\ screen.kind = "menu" /\ item \in ToSet(screen.items)
    /\ screen' = Detail(ParkedCalls, item.selection)
    /\ UNCHANGED <<asterisk, handler>>

\* park_info_path, from elsewhere and without its parameter.
PushWithoutSelection ==
    /\ main = "done"
    /\ screen' = Message(TRUE, 5, "missing", None)
    /\ UNCHANGED <<asterisk, handler>>

\* Every screen has a timeout.
ScreenTimeout ==
    /\ screen # NoScreen
    /\ screen' = NoScreen
    /\ UNCHANGED <<asterisk, handler>>

-----------------------------------------------------------------------------

Constructor == Subscribe \/ GetParkingHints \/ BeginAssign \/ EndAssign \/ ExtensionStateList
Answer == \E n \in 0 .. Len(events) : AnswerList(n)

Next ==
    \/ Constructor \/ Answer \/ AmiEventHandler
    \/ \E s \in Spaces : CallLeaves(s) \/ Unavailable(s) \/ \E c \in Calls : CallParked(s, c)
    \/ PushButton \/ PushWithoutSelection \/ ScreenTimeout
    \/ \E item \in Items : PushItem(item)

\* The program's threads run, and Asterisk answers what it is asked.
Fairness == WF_vars(Constructor) /\ WF_vars(Answer) /\ WF_vars(AmiEventHandler)

Spec == Init /\ [][Next]_vars /\ Fairness

-----------------------------------------------------------------------------
(* Properties                                                              *)

\* The handler is complete and has seen everything Asterisk had to tell.
Quiet == main = "done" /\ list = "answered" /\ events = <<>>

\* Whatever happened while the handler was constructed, and in whatever order
\* list and changes came: the lamp is lit if a space of the lot is taken, and
\* it is not lit if all are idle.
LampFollowsLot ==
    Quiet /\ parking_hints_ # {} =>
        /\ (\E s \in Lot : status[s] = "1") => lamp
        /\ lamp => \E s \in Lot : status[s] # "0"

\* The lamp and the menu, which come from Asterisk by different ways, agree:
\* the button is lit exactly when pushing it lists a call.
MenuAgreesWithLamp ==
    Quiet /\ parking_hints_ # {} /\ (\A s \in Lot : status[s] # "4") =>
        (lamp <=> Menu(ParkedCalls).kind = "menu")

\* An item of a menu, however old, leads to the details of its call as long as
\* the call is parked there.
ItemLeadsToItsCall ==
    [][\A item \in Items :
         PushItem(item) /\ parked[item.selection] = item.call
             => screen'.call = item.call]_vars

\* A call that stays parked lights the lamp.
ParkedCallIsShown ==
    \A s \in Lot : (main = "done" /\ parking_hints_ # {} /\ status[s] = "1")
                       ~> (lamp \/ status[s] # "1")
=============================================================================
