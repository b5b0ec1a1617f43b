----------------------------- MODULE NightLamp -----------------------------
(***************************************************************************)
(* A night button: the NightEventHandler that lights its lamp              *)
(* (src/src/asterisk/NightEventHandler.cpp), the HTTP button phones push   *)
(* (src/src/bridge/NightButton.cpp), the HTTP state they can read, and the *)
(* device of the Asterisk server that keeps the night state.               *)
(*                                                                         *)
(* A push is answered with the state the push asks for, before Asterisk    *)
(* has been told; the lamp itself changes when Asterisk reports the new    *)
(* state of the device.  Answers and notifications reach a phone by        *)
(* different ways.                                                         *)
(***************************************************************************)
EXTENDS Integers, Sequences, FiniteSets

CONSTANTS
    Phones,
    Hints,      \* devices Asterisk reports the state of
    hint_,      \* the night device
    MaxEvents,  \* bound on the changes that wait for the AMI thread
    MaxSetvars  \* bound on the actions that wait for Asterisk

ASSUME HintAssumption == hint_ \in Hints
ASSUME BoundsAssumption == MaxEvents \in Nat \ {0} /\ MaxSetvars \in Nat \ {0}

VARIABLES
    device,   \* the state of the night device
    events,   \* ExtensionStatus events the AMI thread has still to handle
    setvars,  \* Setvar actions Asterisk has still to execute
    main,     \* where the constructor of the handler is
    list,     \* the ExtensionStateList: not sent, sent or answered
    lamp,     \* the flag of the PhoneButton
    request,  \* what the HTTP request of a phone has come to
    led,      \* what each phone shows
    astray    \* history: phones an answer has misled since the lamp last changed

vars == <<device, events, setvars, main, list, lamp, request, led, astray>>
asterisk == <<device, events, setvars, list>>

Statuses == {"0", "1", "4"}
Events == [hint : Hints, status : Statuses]
NoRequest == [at |-> "none"]
\* late: the lamp has changed since the button was read, or what was read came
\* before Asterisk had told the state of the device.
Requests == {NoRequest} \cup [at : {"pushed", "answered"}, on : BOOLEAN, late : BOOLEAN]
Pushed == {p \in Phones : request[p].at = "pushed"}

TypeOK ==
    /\ device \in Statuses
    /\ events \in Seq(Events)
    /\ setvars \in Seq([phone : Phones, on : BOOLEAN]) /\ Len(setvars) <= MaxSetvars
    /\ main \in {"subscribe", "list", "done"} /\ list \in {"none", "sent", "answered"}
    /\ lamp \in BOOLEAN
    /\ request \in [Phones -> Requests]
    /\ led \in [Phones -> BOOLEAN]
    /\ astray \subseteq Phones

Init ==
    /\ device = "0"
    /\ events = <<>> /\ setvars = <<>>
    /\ main = "subscribe" /\ list = "none"
    /\ lamp = FALSE
    /\ request = [p \in Phones |-> NoRequest]
    /\ led = [p \in Phones |-> FALSE] /\ astray = {}

-----------------------------------------------------------------------------
(* The Asterisk server                                                     *)

\* A new state is announced to those who are subscribed.
Announce(h, new) ==
    events' = IF main = "subscribe" THEN events
              ELSE Append(events, [hint |-> h, status |-> new])

Report(new) ==
    /\ device' = new
    /\ IF new = device THEN UNCHANGED events ELSE Announce(hint_, new)

\* The night device changes by other means than the buttons.
DeviceChange(new) ==
    /\ Len(events) < MaxEvents
    /\ new # device
    /\ Report(new)
    /\ UNCHANGED <<setvars, main, list, lamp, request, led, astray>>

\* Another device comes into use.
OtherChange(h) ==
    /\ main # "subscribe" /\ Len(events) < MaxEvents
    /\ Announce(h, "1")
    /\ UNCHANGED <<device, setvars, main, list, lamp, request, led, astray>>

\* The answer to an ExtensionStateList, before or after changes that wait to
\* be sent; only the event of the night device is kept here.
AnswerList(n) ==
    /\ list = "sent"
    /\ list' = "answered"
    /\ events' = SubSeq(events, 1, n) \o <<[hint |-> hint_, status |-> device]>>
                   \o SubSeq(events, n + 1, Len(events))
    /\ UNCHANGED <<device, setvars, main, lamp, request, led, astray>>

\* Setvar DEVICE_STATE is executed ...
ExecuteSetvar ==
    /\ setvars # <<>> /\ Len(events) < MaxEvents
    /\ setvars' = Tail(setvars)
    /\ Report(IF Head(setvars).on THEN "1" ELSE "0")
    /\ UNCHANGED <<main, list, lamp, request, led, astray>>

\* ... or refused, which nobody hears of.
RefuseSetvar ==
    /\ setvars # <<>>
    /\ setvars' = Tail(setvars)
    /\ astray' = astray \cup {Head(setvars).phone}
    /\ UNCHANGED <<device, events, main, list, lamp, request, led>>

-----------------------------------------------------------------------------
(* NightEventHandler                                                       *)

Subscribe ==
    /\ main = "subscribe"
    /\ main' = "list"
    /\ UNCHANGED <<asterisk, lamp, request, led, astray>>

ExtensionStateList ==
    /\ main = "list"
    /\ main' = "done"
    /\ list' = "sent"
    /\ UNCHANGED <<device, events, setvars, lamp, request, led, astray>>

\* PhoneButton::setOn.  A change notifies every phone, which undoes what an
\* earlier answer put there; an answer still on its way is late from now on.
SetOn(on) ==
    /\ lamp' = on
    /\ IF on = lamp THEN UNCHANGED <<request, led, astray>>
       ELSE /\ led' = [p \in Phones |-> on]
            /\ astray' = {}
            /\ request' = [p \in Phones |-> IF request[p] = NoRequest THEN NoRequest
                                            ELSE [request[p] EXCEPT !.late = TRUE]]

\* Faulty variant: the states are numbered as those of devices, not extensions.
LampOf_Device(status) == CASE status = "1" -> {FALSE} [] status = "2" -> {TRUE} [] OTHER -> {}

\* The lamp a status asks for, if it does.
LampOf(status) == CASE status = "0" -> {FALSE} [] status = "1" -> {TRUE} [] OTHER -> {}

AmiEventHandler ==
    /\ events # <<>>
    /\ events' = Tail(events)
    /\ LET e == Head(events)
           asked == IF e.hint = hint_ THEN LampOf(e.status) ELSE {}
       IN  IF asked = {} THEN UNCHANGED <<lamp, request, led, astray>>
           ELSE \E on \in asked : SetOn(on)
    /\ UNCHANGED <<device, setvars, main, list>>

-----------------------------------------------------------------------------
(* NightButton, in the HTTP threads                                        *)

\* pushButton reads the button.
PushButton(p) ==
    /\ main = "done"
    /\ request[p] = NoRequest
    /\ Len(setvars) + Cardinality(Pushed) < MaxSetvars
    /\ request' = [request EXCEPT ![p] =
                      [at |-> "pushed", on |-> ~lamp, late |-> list # "answered"]]
    /\ UNCHANGED <<asterisk, main, lamp, led, astray>>

\* Faulty variant: the button itself is set, not a clone of it.
PostAction_OnButton(p) ==
    /\ request[p].at = "pushed"
    /\ setvars' = Append(setvars, [phone |-> p, on |-> request[p].on])
    /\ lamp' = request[p].on
    /\ led' = IF lamp' = lamp THEN led ELSE [q \in Phones |-> lamp']
    /\ request' = [request EXCEPT ![p].at = "answered"]
    /\ UNCHANGED <<device, events, list, main, astray>>

\* Faulty variant: the guard posts the state the button had.
PostAction_Inverted(p) ==
    /\ request[p].at = "pushed"
    /\ setvars' = Append(setvars, [phone |-> p, on |-> ~request[p].on])
    /\ request' = [request EXCEPT ![p].at = "answered"]
    /\ UNCHANGED <<device, events, list, main, lamp, led, astray>>

\* Faulty variant: the action is posted at once and again by the guard.
PostAction_Twice(p) ==
    /\ request[p].at = "pushed"
    /\ LET action == [phone |-> p, on |-> request[p].on]
       IN  setvars' = setvars \o <<action, action>>
    /\ request' = [request EXCEPT ![p].at = "answered"]
    /\ UNCHANGED <<device, events, list, main, lamp, led, astray>>

\* It sets a clone that has no plan, renders it, and on leaving its scope the
\* guard posts the action.
PostAction(p) ==
    /\ request[p].at = "pushed"
    /\ setvars' = Append(setvars, [phone |-> p, on |-> request[p].on])
    /\ request' = [request EXCEPT ![p].at = "answered"]
    /\ UNCHANGED <<device, events, list, main, lamp, led, astray>>

\* A phone reads the state of its page.
GetHTTPState(p) ==
    /\ main = "done"
    /\ request[p] = NoRequest
    /\ request' = [request EXCEPT ![p] = [at |-> "answered", on |-> lamp, late |-> FALSE]]
    /\ UNCHANGED <<asterisk, main, lamp, led, astray>>

\* The phone gets the answer and shows it.
Deliver(p) ==
    /\ request[p].at = "answered"
    /\ led' = [led EXCEPT ![p] = request[p].on]
    /\ astray' = IF request[p].late THEN astray \cup {p} ELSE astray
    /\ request' = [request EXCEPT ![p] = NoRequest]
    /\ UNCHANGED <<asterisk, main, lamp>>

-----------------------------------------------------------------------------

Constructor == Subscribe \/ ExtensionStateList
Answer == (\E n \in 0 .. Len(events) : AnswerList(n)) \/ ExecuteSetvar \/ RefuseSetvar
Http(p) == PostAction(p) \/ Deliver(p)

Next ==
    \/ Constructor \/ Answer \/ AmiEventHandler
    \/ \E s \in Statuses : DeviceChange(s)
    \/ \E h \in Hints \ {hint_} : OtherChange(h)
    \/ \E p \in Phones : PushButton(p) \/ GetHTTPState(p) \/ Http(p)

\* The program's threads run, and Asterisk answers what it is asked.
Fairness ==
    /\ WF_vars(Constructor) /\ WF_vars(Answer) /\ WF_vars(AmiEventHandler)
    /\ \A p \in Phones : WF_vars(Http(p))

Spec == Init /\ [][Next]_vars /\ Fairness

-----------------------------------------------------------------------------
(* Properties                                                              *)

\* Nothing is under way in the program, in Asterisk or to a phone.
Quiet ==
    /\ list = "answered" /\ events = <<>> /\ setvars = <<>>
    /\ \A p \in Phones : request[p] = NoRequest

\* Pushes of several phones, refused actions and other users of the device
\* notwithstanding, the lamp is that of the device as Asterisk has it.
LampFollowsDevice ==
    list = "answered" /\ events = <<>> /\ device \in {"0", "1"} =>
        lamp = (device = "1")

\* A phone is told of a state by the answer to its own push before the device
\* has it.  When all has settled it shows the lamp, unless its last action was
\* refused, its answer was overtaken by a notification, or it was pushed before
\* the program knew the device.
ButtonShowsLamp ==
    Quiet /\ device \in {"0", "1"} =>
        \A p \in Phones : led[p] = lamp \/ p \in astray

\* A device that stays in use lights the lamp.
NightIsShown == (list = "answered" /\ device = "1") ~> (lamp \/ device # "1")
=============================================================================
