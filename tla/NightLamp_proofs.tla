--------------------------- MODULE NightLamp_proofs ---------------------------
(***************************************************************************)
(* Proofs about NightLamp, for any phones, hints and bounds.               *)
(***************************************************************************)
EXTENDS NightLamp, ListLemmas

-----------------------------------------------------------------------------
(* The inductive invariant                                                 *)

\* Every action that a push has still to post has its place in the queue.
SlotInv ==
    /\ IsFiniteSet(Pushed)
    /\ Len(setvars) + Cardinality(Pushed) <= MaxSetvars

\* The list is asked for last, and nothing is announced before the handler is
\* subscribed.
StartInv ==
    /\ main # "done" => list = "none"
    /\ main = "subscribe" => events = <<>>

\* Events about the night device, and those of them that tell its state as it is.
AboutNight == {e \in Events : e.hint = hint_}
TellsDevice == {e \in AboutNight : e.status = device}

\* The last event about the night device tells its state as it is, wherever the
\* answer to the list came to stand among the changes; with no such event left
\* the lamp is right.
DeviceInv ==
    /\ LastIn(events, AboutNight, TellsDevice)
    /\ list = "answered" /\ NoneIn(events, AboutNight) /\ device \in {"0", "1"} =>
           (lamp <=> device = "1")

\* Something will tell every phone that the lamp is on, or off: an event that
\* sets it, or an action of this phone that makes Asterisk announce it.
Status(on) == IF on THEN "1" ELSE "0"
Asked(on) ==
    \E i \in 1 .. Len(events) : events[i].hint = hint_ /\ events[i].status = Status(on)
Ordered(p, on) ==
    \E i \in 1 .. Len(setvars) : setvars[i].phone = p /\ (setvars[i].on <=> on)
Coming(p, on) == list = "answered" /\ (Asked(on) \/ Ordered(p, on))

\* What phone p is about to show, and what it shows, is the lamp or what the lamp
\* will become, unless something led the phone astray.
PushInv(p) ==
    request[p].at = "pushed" /\ ~request[p].late =>
        list = "answered" /\ (request[p].on <=> ~lamp)
AnswerInv(p) ==
    request[p].at = "answered" /\ ~request[p].late /\ p \notin astray =>
        (request[p].on <=> lamp) \/ Coming(p, request[p].on)
LedInv(p) == p \notin astray => (led[p] <=> lamp) \/ Coming(p, led[p])
PhoneInv == \A p \in Phones : PushInv(p) /\ AnswerInv(p) /\ LedInv(p)

IInv == TypeOK /\ SlotInv /\ StartInv /\ DeviceInv /\ PhoneInv

-----------------------------------------------------------------------------
(* Types                                                                   *)

Live == [at : {"pushed", "answered"}, on : BOOLEAN, late : BOOLEAN]

\* A request that is not idle, and what becomes of it.
LEMMA RequestTypes ==
    /\ NoRequest \in Requests /\ NoRequest.at = "none" /\ Live \subseteq Requests
    /\ \A r \in Requests : r # NoRequest => r \in Live
    /\ \A r \in Requests : r.at \in {"pushed", "answered"} => r \in Live /\ r # NoRequest
    /\ \A r \in Live : [r EXCEPT !.late = TRUE] \in Live /\ [r EXCEPT !.at = "answered"] \in Live
    /\ \A a \in {"pushed", "answered"}, o \in BOOLEAN, t \in BOOLEAN :
         [at |-> a, on |-> o, late |-> t] \in Live
<1>1. NoRequest \in Requests /\ NoRequest.at = "none" /\ Live \subseteq Requests
  BY DEF Requests, NoRequest, Live
<1>2. \A r \in Requests : r # NoRequest => r \in Live
  BY DEF Requests, Live
<1>3. \A r \in Live : r.at \in {"pushed", "answered"} /\ r.at # "none"
  BY DEF Live
<1>4. \A r \in Requests : r.at \in {"pushed", "answered"} => r \in Live /\ r # NoRequest
  BY <1>1, <1>2
<1>5. \A r \in Live : [r EXCEPT !.late = TRUE] \in Live /\ [r EXCEPT !.at = "answered"] \in Live
  BY DEF Live
<1>6. \A a \in {"pushed", "answered"}, o \in BOOLEAN, t \in BOOLEAN :
         [at |-> a, on |-> o, late |-> t] \in Live
  BY DEF Live
<1> QED
  BY <1>1, <1>2, <1>4, <1>5, <1>6

\* A status asks for one lamp at most, which is the state it stands for.
LEMMA LampOfStatus ==
    ASSUME NEW status \in Statuses
    PROVE  /\ LampOf(status) \subseteq BOOLEAN
           /\ \A on \in LampOf(status) : status = Status(on) /\ (on <=> status = "1")
           /\ LampOf(status) = {} <=> status \notin {"0", "1"}
<1>1. CASE status = "0"
  BY <1>1 DEF LampOf, Status
<1>2. CASE status = "1"
  BY <1>2 DEF LampOf, Status
<1>3. CASE status = "4"
  BY <1>3 DEF LampOf, Status
<1> QED
  BY <1>1, <1>2, <1>3 DEF Statuses

LEMMA EventTypes ==
    \A h \in Hints, s \in Statuses : [hint |-> h, status |-> s] \in Events
BY DEF Events

LEMMA StatusTypes == \A on \in BOOLEAN : Status(on) \in Statuses
BY DEF Status, Statuses

\* The steps of Asterisk keep the events a queue of events.
LEMMA AnnounceType ==
    ASSUME TypeOK, NEW h \in Hints, NEW s \in Statuses, Announce(h, s)
    PROVE  events' \in Seq(Events)
BY EventTypes DEF Announce, TypeOK

LEMMA ReportType ==
    ASSUME TypeOK, NEW s \in Statuses, Report(s)
    PROVE  events' \in Seq(Events) /\ device' \in Statuses
<1>1. hint_ \in Hints
  BY HintAssumption
<1> QED
  BY <1>1, AnnounceType DEF Report, TypeOK

LEMMA AnswerListType ==
    ASSUME TypeOK, NEW n \in 0 .. Len(events), AnswerList(n)
    PROVE  /\ events' = Insert(events, n, <<[hint |-> hint_, status |-> device]>>)
           /\ events' \in Seq(Events)
           /\ <<[hint |-> hint_, status |-> device]>> \in Seq(Events)
           /\ [hint |-> hint_, status |-> device] \in TellsDevice
<1> DEFINE e == [hint |-> hint_, status |-> device]
<1>1. e \in Events /\ e \in TellsDevice
  BY EventTypes, HintAssumption DEF TypeOK, AboutNight, TellsDevice
<1>2. <<e>> \in Seq(Events)
  BY <1>1
<1>3. events \in Seq(Events)
  BY DEF TypeOK
<1>4. events' = Insert(events, n, <<e>>)
  BY DEF AnswerList, Insert
<1>5. Insert(events, n, <<e>>) \in Seq(Events)
  BY <1>2, <1>3, Inserted
<1> QED
  BY <1>1, <1>2, <1>4, <1>5

\* The AMI thread takes an event, and either leaves lamp and phones alone or sets
\* the lamp to what the event asks for.
LEMMA Handled ==
    ASSUME TypeOK, AmiEventHandler
    PROVE  /\ events # <<>> /\ Head(events) \in Events
           /\ events' = Tail(events) /\ events' \in Seq(Events)
           /\ \/ /\ Head(events) \notin AboutNight \/ Head(events).status \notin {"0", "1"}
                 /\ UNCHANGED <<lamp, request, led, astray>>
              \/ /\ Head(events) \in AboutNight
                 /\ \E on \in BOOLEAN : /\ Head(events).status = Status(on)
                                        /\ on <=> Head(events).status = "1"
                                        /\ SetOn(on)
<1> DEFINE e == Head(events)
           asked == IF e.hint = hint_ THEN LampOf(e.status) ELSE {}
<1>1. /\ events # <<>> /\ events' = Tail(events)
      /\ IF asked = {} THEN UNCHANGED <<lamp, request, led, astray>>
         ELSE \E on \in asked : SetOn(on)
  BY DEF AmiEventHandler
<1>2. e \in Events /\ Tail(events) \in Seq(Events)
  BY <1>1, HeadTailProperties DEF TypeOK
<1>3. e.status \in Statuses
  BY <1>2 DEF Events
<1> HIDE DEF e
<1>4. CASE e.hint # hint_
  BY <1>1, <1>2, <1>4 DEF AboutNight, e
<1>5. CASE e.hint = hint_
  <2>1. e \in AboutNight /\ asked = LampOf(e.status)
    BY <1>2, <1>5 DEF AboutNight
  <2>2. CASE LampOf(e.status) = {}
    BY <1>1, <1>2, <1>3, <2>1, <2>2, LampOfStatus DEF e
  <2>3. CASE LampOf(e.status) # {}
    <3>1. PICK on \in LampOf(e.status) : SetOn(on)
      BY <1>1, <2>1, <2>3
    <3>2. on \in BOOLEAN /\ e.status = Status(on) /\ (on <=> e.status = "1")
      BY <1>3, LampOfStatus
    <3> QED
      BY <1>1, <1>2, <2>1, <3>1, <3>2 DEF e
  <2> QED
    BY <2>2, <2>3
<1> QED
  BY <1>4, <1>5

\* Setting the lamp keeps the types, and which phones wait for their push.
LEMMA SetOnType ==
    ASSUME TypeOK, NEW on \in BOOLEAN, SetOn(on)
    PROVE  /\ lamp' \in BOOLEAN /\ request' \in [Phones -> Requests]
           /\ led' \in [Phones -> BOOLEAN] /\ astray' \subseteq Phones
           /\ Pushed' = Pushed
<1>1. CASE on = lamp
  BY <1>1 DEF SetOn, TypeOK, Pushed
<1>2. CASE on # lamp
  <2>1. /\ lamp' = on /\ led' = [p \in Phones |-> on] /\ astray' = {}
        /\ request' = [p \in Phones |-> IF request[p] = NoRequest THEN NoRequest
                                        ELSE [request[p] EXCEPT !.late = TRUE]]
    BY <1>2 DEF SetOn
  <2>2. ASSUME NEW p \in Phones
        PROVE request'[p] \in Requests /\ (request'[p].at = "pushed" <=> request[p].at = "pushed")
    <3>1. request[p] \in Requests
      BY DEF TypeOK
    <3>2. CASE request[p] = NoRequest
      BY <2>1, <3>2, RequestTypes
    <3>3. CASE request[p] # NoRequest
      <4>1. request[p] \in Live
        BY <3>1, <3>3, RequestTypes
      <4>2. request'[p] = [request[p] EXCEPT !.late = TRUE]
        BY <2>1, <3>3
      <4> QED
        BY <4>1, <4>2, RequestTypes DEF Live
    <3> QED
      BY <3>2, <3>3
  <2>3. request' \in [Phones -> Requests]
    BY <2>1, <2>2
  <2>4. Pushed' = Pushed
    BY <2>2 DEF Pushed
  <2> QED
    BY <2>1, <2>3, <2>4
<1> QED
  BY <1>1, <1>2

LEMMA TypeInit == Init => TypeOK
<1> SUFFICES ASSUME Init PROVE TypeOK
  OBVIOUS
<1>1. request \in [Phones -> Requests] /\ led \in [Phones -> BOOLEAN]
  BY RequestTypes DEF Init
<1>2. /\ events \in Seq(Events) /\ setvars \in Seq([phone : Phones, on : BOOLEAN])
      /\ Len(setvars) = 0
  BY EmptySeq DEF Init
<1>3. Len(setvars) <= MaxSetvars
  BY <1>2, BoundsAssumption
<1> QED
  BY <1>1, <1>2, <1>3 DEF Init, TypeOK, Statuses

Setvars == [phone : Phones, on : BOOLEAN]

\* Asterisk takes an action from the queue.
LEMMA SetvarTaken ==
    ASSUME TypeOK, setvars # <<>>, setvars' = Tail(setvars)
    PROVE  /\ setvars' \in Seq(Setvars) /\ Len(setvars') = Len(setvars) - 1
           /\ Len(setvars') <= MaxSetvars
           /\ Head(setvars) \in Setvars /\ Head(setvars) = setvars[1]
           /\ \A i \in 1 .. Len(setvars') : setvars'[i] = setvars[i + 1]
<1>1. setvars \in Seq(Setvars) /\ Len(setvars) <= MaxSetvars
  BY DEF TypeOK, Setvars
<1>2. /\ setvars' \in Seq(Setvars) /\ Len(setvars') = Len(setvars) - 1
      /\ Head(setvars) \in Setvars /\ Head(setvars) = setvars[1]
      /\ \A i \in 1 .. Len(setvars') : setvars'[i] = setvars[i + 1]
  BY <1>1, HeadTailProperties
<1>3. Len(setvars) \in Nat
  BY <1>1, LenProperties
<1> QED
  BY <1>1, <1>2, <1>3, BoundsAssumption

\* A push that waits to be posted leaves room for its action.
LEMMA Room ==
    ASSUME TypeOK, SlotInv, NEW p \in Phones, request[p].at = "pushed"
    PROVE  /\ Len(setvars) + 1 <= MaxSetvars
           /\ IsFiniteSet(Pushed \ {p})
           /\ Cardinality(Pushed \ {p}) = Cardinality(Pushed) - 1
<1>1. p \in Pushed /\ IsFiniteSet(Pushed)
  BY DEF Pushed, SlotInv
<1>2. Cardinality(Pushed) \in Nat /\ Cardinality(Pushed) # 0
  BY <1>1, FS_CardinalityType, FS_EmptySet
<1>3. /\ IsFiniteSet(Pushed \ {p})
      /\ Cardinality(Pushed \ {p}) = Cardinality(Pushed) - 1
  BY <1>1, FS_RemoveElement
<1>4. Len(setvars) \in Nat
  BY DEF TypeOK
<1> QED
  BY <1>2, <1>3, <1>4, BoundsAssumption DEF SlotInv

LEMMA TypeStep == TypeOK /\ SlotInv /\ [Next]_vars => TypeOK'
<1> SUFFICES ASSUME TypeOK, SlotInv, [Next]_vars PROVE TypeOK'
  OBVIOUS
<1> USE DEF TypeOK
<1>1. CASE Subscribe
  BY <1>1 DEF Subscribe, asterisk
<1>2. CASE ExtensionStateList
  BY <1>2 DEF ExtensionStateList
<1>3. ASSUME NEW n \in 0 .. Len(events), AnswerList(n) PROVE TypeOK'
  <2>1. events' \in Seq(Events)
    BY <1>3, AnswerListType
  <2> QED
    BY <1>3, <2>1 DEF AnswerList
<1>4. CASE ExecuteSetvar
  <2> DEFINE new == IF Head(setvars).on THEN "1" ELSE "0"
  <2>1. new \in Statuses
    BY DEF Statuses
  <2>2. Report(new) /\ setvars # <<>> /\ setvars' = Tail(setvars)
        /\ UNCHANGED <<main, list, lamp, request, led, astray>>
    BY <1>4 DEF ExecuteSetvar
  <2>3. events' \in Seq(Events) /\ device' \in Statuses
    BY <2>1, <2>2, ReportType
  <2>4. setvars' \in Seq([phone : Phones, on : BOOLEAN]) /\ Len(setvars') <= MaxSetvars
    BY <2>2, SetvarTaken DEF Setvars
  <2> QED
    BY <2>2, <2>3, <2>4
<1>5. CASE RefuseSetvar
  <2>1. /\ setvars' \in Seq([phone : Phones, on : BOOLEAN]) /\ Len(setvars') <= MaxSetvars
        /\ Head(setvars).phone \in Phones
    BY <1>5, SetvarTaken DEF RefuseSetvar, Setvars
  <2> QED
    BY <1>5, <2>1 DEF RefuseSetvar
<1>6. CASE AmiEventHandler
  <2>1. /\ lamp' \in BOOLEAN /\ request' \in [Phones -> Requests]
        /\ led' \in [Phones -> BOOLEAN] /\ astray' \subseteq Phones
    BY <1>6, Handled, SetOnType
  <2>2. events' \in Seq(Events)
    BY <1>6, Handled
  <2> QED
    BY <1>6, <2>1, <2>2 DEF AmiEventHandler
<1>7. ASSUME NEW s \in Statuses, DeviceChange(s) PROVE TypeOK'
  <2>1. events' \in Seq(Events) /\ device' \in Statuses
    BY <1>7, ReportType DEF DeviceChange
  <2> QED
    BY <1>7, <2>1 DEF DeviceChange
<1>8. ASSUME NEW h \in Hints \ {hint_}, OtherChange(h) PROVE TypeOK'
  <2>1. "1" \in Statuses
    BY DEF Statuses
  <2>2. events' \in Seq(Events)
    BY <1>8, <2>1, AnnounceType DEF OtherChange
  <2> QED
    BY <1>8, <2>2 DEF OtherChange
<1>9. ASSUME NEW p \in Phones, PushButton(p) PROVE TypeOK'
  <2>1. [at |-> "pushed", on |-> ~lamp, late |-> list # "answered"] \in Requests
    BY RequestTypes
  <2> QED
    BY <1>9, <2>1 DEF PushButton, asterisk
<1>10. ASSUME NEW p \in Phones, GetHTTPState(p) PROVE TypeOK'
  <2>1. [at |-> "answered", on |-> lamp, late |-> FALSE] \in Requests
    BY RequestTypes
  <2> QED
    BY <1>10, <2>1 DEF GetHTTPState, asterisk
<1>11. ASSUME NEW p \in Phones, PostAction(p) PROVE TypeOK'
  <2>1. request[p] \in Live
    BY <1>11, RequestTypes DEF PostAction
  <2>2. [request[p] EXCEPT !.at = "answered"] \in Requests /\ request[p].on \in BOOLEAN
    BY <2>1, RequestTypes DEF Live
  <2>3. setvars' = Append(setvars, [phone |-> p, on |-> request[p].on])
    BY <1>11 DEF PostAction
  <2>4. setvars' \in Seq([phone : Phones, on : BOOLEAN]) /\ Len(setvars') = Len(setvars) + 1
    BY <2>2, <2>3
  <2>5. Len(setvars) + 1 <= MaxSetvars
    BY <1>11, Room DEF PostAction
  <2>6. request' \in [Phones -> Requests]
    BY <1>11, <2>2 DEF PostAction
  <2> QED
    BY <1>11, <2>4, <2>5, <2>6 DEF PostAction
<1>12. ASSUME NEW p \in Phones, Deliver(p) PROVE TypeOK'
  <2>1. request[p] \in Live
    BY <1>12, RequestTypes DEF Deliver
  <2>2. request[p].on \in BOOLEAN
    BY <2>1 DEF Live
  <2>3. request' \in [Phones -> Requests]
    BY <1>12, RequestTypes DEF Deliver
  <2> QED
    BY <1>12, <2>2, <2>3 DEF Deliver, asterisk
<1>13. CASE UNCHANGED vars
  BY <1>13 DEF vars
<1> QED
  BY <1>1, <1>2, <1>3, <1>4, <1>5, <1>6, <1>7, <1>8, <1>9, <1>10, <1>11, <1>12, <1>13
  DEF Next, Constructor, Answer, Http

-----------------------------------------------------------------------------
(* Places in the queue of actions, and the start                           *)

LEMMA SlotInit == Init => SlotInv
<1> SUFFICES ASSUME Init PROVE SlotInv
  OBVIOUS
<1>1. Pushed = {}
  BY RequestTypes DEF Init, Pushed
<1>2. Len(setvars) = 0
  BY EmptySeq DEF Init
<1> QED
  BY <1>1, <1>2, FS_EmptySet, BoundsAssumption DEF SlotInv

LEMMA SlotStep == TypeOK /\ SlotInv /\ [Next]_vars => SlotInv'
<1> SUFFICES ASSUME TypeOK, SlotInv, [Next]_vars PROVE SlotInv'
  OBVIOUS
<1> USE DEF SlotInv
<1>a. Len(setvars) \in Nat /\ Cardinality(Pushed) \in Nat
  BY FS_CardinalityType DEF TypeOK
<1>1. CASE UNCHANGED <<setvars, request>>
  BY <1>1 DEF Pushed
<1>2. CASE ExecuteSetvar \/ RefuseSetvar
  <2>1. setvars # <<>> /\ setvars' = Tail(setvars) /\ request' = request
    BY <1>2 DEF ExecuteSetvar, RefuseSetvar
  <2>2. Len(setvars') = Len(setvars) - 1
    BY <2>1 DEF TypeOK
  <2>3. Pushed' = Pushed
    BY <2>1 DEF Pushed
  <2> QED
    BY <1>a, <2>2, <2>3, BoundsAssumption
<1>3. CASE AmiEventHandler
  <2>1. setvars' = setvars
    BY <1>3 DEF AmiEventHandler
  <2>2. Pushed' = Pushed
    BY <1>3, Handled, SetOnType DEF Pushed
  <2> QED
    BY <2>1, <2>2
<1>4. ASSUME NEW p \in Phones, PushButton(p) PROVE SlotInv'
  <2>1. Pushed' = Pushed \cup {p} /\ p \notin Pushed
    BY <1>4, RequestTypes DEF PushButton, Pushed, TypeOK
  <2>2. IsFiniteSet(Pushed') /\ Cardinality(Pushed') = Cardinality(Pushed) + 1
    BY <2>1, FS_AddElement
  <2> QED
    BY <1>4, <1>a, <2>2, BoundsAssumption DEF PushButton, asterisk
<1>5. ASSUME NEW p \in Phones, GetHTTPState(p) PROVE SlotInv'
  <2>1. Pushed' = Pushed /\ setvars' = setvars
    BY <1>5, RequestTypes DEF GetHTTPState, Pushed, TypeOK, asterisk
  <2> QED
    BY <2>1
<1>6. ASSUME NEW p \in Phones, PostAction(p) PROVE SlotInv'
  <2>1. Pushed' = Pushed \ {p}
    BY <1>6 DEF PostAction, Pushed, TypeOK
  <2>2. Len(setvars') = Len(setvars) + 1
    BY <1>6 DEF PostAction, TypeOK
  <2>3. IsFiniteSet(Pushed') /\ Cardinality(Pushed') = Cardinality(Pushed) - 1
    BY <1>6, <2>1, Room DEF PostAction
  <2> QED
    BY <1>a, <2>2, <2>3, BoundsAssumption
<1>7. ASSUME NEW p \in Phones, Deliver(p) PROVE SlotInv'
  <2>1. Pushed' = Pushed /\ setvars' = setvars
    BY <1>7, RequestTypes DEF Deliver, Pushed, TypeOK, asterisk
  <2> QED
    BY <2>1
<1> QED
  BY <1>1, <1>2, <1>3, <1>4, <1>5, <1>6, <1>7
  DEF Next, Constructor, Answer, Http, Subscribe, ExtensionStateList, AnswerList,
      DeviceChange, OtherChange, vars, asterisk

LEMMA StartInit == Init => StartInv
BY DEF Init, StartInv

LEMMA StartStep == TypeOK /\ StartInv /\ [Next]_vars => StartInv'
<1> SUFFICES ASSUME TypeOK, StartInv, [Next]_vars PROVE StartInv'
  OBVIOUS
<1> USE DEF StartInv, TypeOK
<1>1. CASE Subscribe \/ ExtensionStateList
  BY <1>1 DEF Subscribe, ExtensionStateList, asterisk
<1>2. ASSUME NEW n \in 0 .. Len(events), AnswerList(n) PROVE StartInv'
  BY <1>2 DEF AnswerList
<1>3. CASE ExecuteSetvar \/ RefuseSetvar
  BY <1>3 DEF ExecuteSetvar, RefuseSetvar, Report, Announce
<1>4. CASE AmiEventHandler
  BY <1>4 DEF AmiEventHandler
<1>5. ASSUME NEW s \in Statuses, DeviceChange(s) PROVE StartInv'
  BY <1>5 DEF DeviceChange, Report, Announce
<1>6. ASSUME NEW h \in Hints \ {hint_}, OtherChange(h) PROVE StartInv'
  BY <1>6 DEF OtherChange
<1>7. ASSUME NEW p \in Phones, PushButton(p) \/ GetHTTPState(p) \/ Http(p) PROVE StartInv'
  BY <1>7 DEF PushButton, GetHTTPState, Http, PostAction, Deliver, asterisk
<1>8. CASE UNCHANGED vars
  BY <1>8 DEF vars
<1> QED
  BY <1>1, <1>2, <1>3, <1>4, <1>5, <1>6, <1>7, <1>8 DEF Next, Constructor, Answer

-----------------------------------------------------------------------------
(* The lamp follows the device                                             *)

LEMMA DeviceInit == Init => DeviceInv
BY LastOfEmpty DEF Init, DeviceInv

\* A change of the device is the last word about it, or finds nobody subscribed.
LEMMA ReportedDevice ==
    ASSUME TypeOK, StartInv, DeviceInv, NEW s \in Statuses, Report(s), UNCHANGED <<list, lamp>>
    PROVE  DeviceInv'
<1> DEFINE e == [hint |-> hint_, status |-> s]
<1>1. events \in Seq(Events) /\ e \in Events
  BY EventTypes, HintAssumption DEF TypeOK
<1>2. CASE s = device
  BY <1>2 DEF Report, DeviceInv, TellsDevice
<1>3. CASE s # device /\ main = "subscribe"
  <2>1. events' = <<>> /\ list' # "answered"
    BY <1>3 DEF Report, Announce, StartInv
  <2> QED
    BY <2>1, LastOfEmpty DEF DeviceInv
<1>4. CASE s # device /\ main # "subscribe"
  <2>1. events' = Append(events, e) /\ device' = s
    BY <1>4 DEF Report, Announce
  <2>2. e \in AboutNight /\ e \in TellsDevice'
    BY <1>1, <2>1 DEF AboutNight, TellsDevice
  <2>3. LastIn(events, AboutNight, TellsDevice)' /\ ~ NoneIn(events, AboutNight)'
    BY <1>1, <2>1, <2>2, LastAppendGood DEF AboutNight
  <2> QED
    BY <2>3 DEF DeviceInv
<1> QED
  BY <1>2, <1>3, <1>4

LEMMA DeviceStep == TypeOK /\ StartInv /\ DeviceInv /\ [Next]_vars => DeviceInv'
<1> SUFFICES ASSUME TypeOK, StartInv, DeviceInv, [Next]_vars PROVE DeviceInv'
  OBVIOUS
<1>a. events \in Seq(Events)
  BY DEF TypeOK
<1>1. CASE UNCHANGED <<device, events, list, lamp>>
  BY <1>1 DEF DeviceInv, AboutNight, TellsDevice
<1>2. CASE ExtensionStateList
  BY <1>2 DEF ExtensionStateList, DeviceInv, AboutNight, TellsDevice
<1>3. ASSUME NEW n \in 0 .. Len(events), AnswerList(n) PROVE DeviceInv'
  <2> DEFINE e == [hint |-> hint_, status |-> device]
             m == <<e>>
  <2>1. /\ events' = Insert(events, n, m) /\ m \in Seq(Events) /\ e \in TellsDevice
        /\ device' = device
    BY <1>3, AnswerListType DEF AnswerList
  <2>2. e \in AboutNight /\ Len(m) = 1 /\ m[1] = e
    BY <2>1 DEF TellsDevice
  <2>3. (\A i \in 1 .. Len(m) : m[i] \in AboutNight => m[i] \in TellsDevice) /\ ~ NoneIn(m, AboutNight)
    BY <2>1, <2>2 DEF NoneIn
  <2>4. LastIn(events, AboutNight, TellsDevice)
    BY DEF DeviceInv
  <2> HIDE DEF m
  <2>5. /\ LastIn(Insert(events, n, m), AboutNight, TellsDevice)
        /\ ~ NoneIn(Insert(events, n, m), AboutNight)
    BY <1>a, <2>1, <2>3, <2>4, LastOfInserted
  <2> QED
    BY <2>1, <2>5 DEF DeviceInv, AboutNight, TellsDevice
<1>4. CASE ExecuteSetvar
  <2> DEFINE new == IF Head(setvars).on THEN "1" ELSE "0"
  <2>1. new \in Statuses /\ Report(new) /\ UNCHANGED <<list, lamp>>
    BY <1>4 DEF ExecuteSetvar, Statuses
  <2> QED
    BY <2>1, ReportedDevice
<1>5. CASE AmiEventHandler
  <2> DEFINE e == Head(events)
  <2>1. /\ events # <<>> /\ events' = Tail(events) /\ UNCHANGED <<device, list>>
    BY <1>5 DEF AmiEventHandler
  <2>2. LastIn(events, AboutNight, TellsDevice)
    BY DEF DeviceInv
  <2>3. /\ LastIn(events', AboutNight, TellsDevice)
        /\ e \in AboutNight /\ NoneIn(events', AboutNight) => e \in TellsDevice
        /\ e \notin AboutNight /\ NoneIn(events', AboutNight) => NoneIn(events, AboutNight)
    BY <1>a, <2>1, <2>2, LastOfTail
  <2>4. \/ (e \notin AboutNight \/ e.status \notin {"0", "1"}) /\ lamp' = lamp
        \/ e \in AboutNight /\ (lamp' <=> e.status = "1")
    BY <1>5, Handled DEF SetOn
  <2>5. LastIn(events, AboutNight, TellsDevice)'
    BY <2>1, <2>3 DEF AboutNight, TellsDevice
  <2>6. ASSUME list = "answered", NoneIn(events', AboutNight), device \in {"0", "1"}
        PROVE  lamp' <=> device = "1"
    <3>1. CASE e \in AboutNight
      <4>1. e.status = device
        BY <2>3, <2>6, <3>1 DEF TellsDevice
      <4> QED
        BY <2>4, <2>6, <3>1, <4>1
    <3>2. CASE e \notin AboutNight
      BY <2>3, <2>4, <2>6, <3>2 DEF DeviceInv
    <3> QED
      BY <3>1, <3>2
  <2> QED
    BY <2>1, <2>5, <2>6 DEF DeviceInv, AboutNight
<1>6. ASSUME NEW s \in Statuses, DeviceChange(s) PROVE DeviceInv'
  BY <1>6, ReportedDevice DEF DeviceChange
<1>7. ASSUME NEW h \in Hints \ {hint_}, OtherChange(h) PROVE DeviceInv'
  <2> DEFINE e == [hint |-> h, status |-> "1"]
  <2>1. /\ events' = Append(events, e) /\ UNCHANGED <<device, list, lamp>>
        /\ e \in Events /\ e \notin AboutNight
    BY <1>7, EventTypes DEF OtherChange, Announce, AboutNight, Statuses
  <2>2. LastIn(events, AboutNight, TellsDevice)
    BY DEF DeviceInv
  <2>3. /\ LastIn(Append(events, e), AboutNight, TellsDevice)
        /\ NoneIn(Append(events, e), AboutNight) => NoneIn(events, AboutNight)
    BY <1>a, <2>1, <2>2, LastAppendOther
  <2> QED
    BY <2>1, <2>3 DEF DeviceInv, AboutNight, TellsDevice
<1> QED
  BY <1>1, <1>2, <1>3, <1>4, <1>5, <1>6, <1>7
  DEF Next, Constructor, Answer, Http, Subscribe, RefuseSetvar, PushButton, GetHTTPState,
      PostAction, Deliver, vars, asterisk

-----------------------------------------------------------------------------
(* What phones show                                                        *)

\* While the lamp stays as it is, a phone keeps what it is about to show and what
\* it shows; all it takes is that what was coming to correct it still comes.
LEMMA PhoneKept ==
    ASSUME TypeOK, NEW p \in Phones, PushInv(p), AnswerInv(p), LedInv(p),
           lamp' = lamp, request'[p] = request[p], led'[p] = led[p],
           p \in astray => p \in astray',
           list = "answered" => list' = "answered",
           \A on \in BOOLEAN : ~(on <=> lamp) /\ p \notin astray' /\ Coming(p, on) => Coming(p, on)'
    PROVE  PushInv(p)' /\ AnswerInv(p)' /\ LedInv(p)'
<1>1. led[p] \in BOOLEAN
  BY DEF TypeOK
<1>2. request[p].at \in {"pushed", "answered"} => request[p].on \in BOOLEAN
  BY RequestTypes DEF TypeOK, Live
<1>3. PushInv(p)'
  BY DEF PushInv
<1>4. AnswerInv(p)'
  BY <1>2 DEF AnswerInv
<1>5. LedInv(p)'
  BY <1>1 DEF LedInv
<1> QED
  BY <1>3, <1>4, <1>5

LEMMA ComingUnchanged ==
    ASSUME UNCHANGED <<events, setvars, list>>
    PROVE  \A p, on : Coming(p, on) => Coming(p, on)'
BY DEF Coming, Asked, Ordered

\* More events and more actions take nothing away.
LEMMA ComingEvent ==
    ASSUME TypeOK, NEW e \in Events, events' = Append(events, e), UNCHANGED <<setvars, list>>
    PROVE  \A p, on : Coming(p, on) => Coming(p, on)'
<1>1. Len(events) \in Nat /\ Len(events') = Len(events) + 1
      /\ \A i \in 1 .. Len(events) : events'[i] = events[i]
  BY AppendProperties, LenProperties DEF TypeOK
<1>2. \A i \in 1 .. Len(events) : i \in 1 .. Len(events')
  BY <1>1
<1>3. \A on : Asked(on) => Asked(on)'
  BY <1>1, <1>2 DEF Asked
<1> QED
  BY <1>3 DEF Coming, Ordered

\* A change of a lamp tells every phone, and makes every answer late.
LEMMA LampChanged ==
    ASSUME TypeOK, NEW on \in BOOLEAN, SetOn(on), on # lamp
    PROVE  PhoneInv'
<1>1. /\ lamp' = on /\ led' = [p \in Phones |-> on] /\ astray' = {}
      /\ request' = [p \in Phones |-> IF request[p] = NoRequest THEN NoRequest
                                      ELSE [request[p] EXCEPT !.late = TRUE]]
  BY DEF SetOn
<1>2. ASSUME NEW p \in Phones
      PROVE request'[p].at \in {"pushed", "answered"} => request'[p].late
  <2>1. CASE request[p] = NoRequest
    BY <1>1, <2>1, RequestTypes
  <2>2. CASE request[p] # NoRequest
    <3>1. request[p] \in Live
      BY <2>2, RequestTypes DEF TypeOK
    <3> QED
      BY <1>1, <2>2, <3>1 DEF Live
  <2> QED
    BY <2>1, <2>2
<1> QED
  BY <1>1, <1>2 DEF PhoneInv, PushInv, AnswerInv, LedInv

\* What leaves a queue first was the first to tell a phone, or not the one to.
LEMMA SetvarOut ==
    ASSUME TypeOK, setvars # <<>>, setvars' = Tail(setvars), NEW p, NEW on, Ordered(p, on)
    PROVE  Ordered(p, on)' \/ (Head(setvars).phone = p /\ (Head(setvars).on <=> on))
<1>1. PICK i \in 1 .. Len(setvars) : setvars[i].phone = p /\ (setvars[i].on <=> on)
  BY DEF Ordered
<1>2. /\ Len(setvars') = Len(setvars) - 1 /\ Head(setvars) = setvars[1]
      /\ \A j \in 1 .. Len(setvars') : setvars'[j] = setvars[j + 1]
  BY SetvarTaken
<1>3. Len(setvars) \in Nat
  BY LenProperties DEF TypeOK
<1>4. CASE i = 1
  BY <1>1, <1>2, <1>4
<1>5. CASE i # 1
  <2>1. i - 1 \in 1 .. Len(setvars') /\ setvars'[i - 1] = setvars[i]
    BY <1>2, <1>3, <1>5
  <2> QED
    BY <1>1, <2>1 DEF Ordered
<1> QED
  BY <1>4, <1>5

LEMMA EventOut ==
    ASSUME TypeOK, events # <<>>, events' = Tail(events), NEW on, Asked(on)
    PROVE  Asked(on)' \/ (Head(events).hint = hint_ /\ Head(events).status = Status(on))
<1>1. PICK i \in 1 .. Len(events) : events[i].hint = hint_ /\ events[i].status = Status(on)
  BY DEF Asked
<1>2. /\ Len(events') = Len(events) - 1 /\ Head(events) = events[1]
      /\ \A j \in 1 .. Len(events) - 1 : events'[j] = events[j + 1]
  BY HeadTailProperties DEF TypeOK
<1>3. Len(events) \in Nat
  BY LenProperties DEF TypeOK
<1>4. CASE i = 1
  BY <1>1, <1>2, <1>4
<1>5. CASE i # 1
  <2>1. i - 1 \in 1 .. Len(events') /\ events'[i - 1] = events[i]
    BY <1>2, <1>3, <1>5
  <2> QED
    BY <1>1, <2>1 DEF Asked
<1> QED
  BY <1>4, <1>5

LEMMA PhoneInit == Init => PhoneInv
BY RequestTypes DEF Init, PhoneInv, PushInv, AnswerInv, LedInv

\* The answer to the list makes what is under way count, and takes nothing away:
\* before it nothing did.
LEMMA PhoneAnswerList ==
    ASSUME TypeOK, PhoneInv, NEW n \in 0 .. Len(events), AnswerList(n)
    PROVE  PhoneInv'
<1>1. list # "answered" /\ UNCHANGED <<lamp, request, led, astray>>
  BY DEF AnswerList
<1>2. \A p, on : ~ Coming(p, on)
  BY <1>1 DEF Coming
<1> SUFFICES ASSUME NEW p \in Phones PROVE PushInv(p)' /\ AnswerInv(p)' /\ LedInv(p)'
  BY DEF PhoneInv
<1> QED
  BY <1>1, <1>2, PhoneKept DEF PhoneInv

\* A refused action tells nobody, and its phone is astray.
LEMMA PhoneRefused ==
    ASSUME TypeOK, PhoneInv, RefuseSetvar
    PROVE  PhoneInv'
<1>1. /\ setvars # <<>> /\ setvars' = Tail(setvars)
      /\ astray' = astray \cup {Head(setvars).phone}
      /\ UNCHANGED <<events, list, lamp, request, led>>
  BY DEF RefuseSetvar
<1> SUFFICES ASSUME NEW p \in Phones PROVE PushInv(p)' /\ AnswerInv(p)' /\ LedInv(p)'
  BY DEF PhoneInv
<1>2. ASSUME NEW on \in BOOLEAN, p \notin astray', Coming(p, on) PROVE Coming(p, on)'
  <2>1. Head(setvars).phone # p
    BY <1>1, <1>2
  <2>2. Ordered(p, on) => Ordered(p, on)'
    BY <1>1, <2>1, SetvarOut
  <2>3. Asked(on) => Asked(on)'
    BY <1>1 DEF Asked
  <2> QED
    BY <1>1, <1>2, <2>2, <2>3 DEF Coming
<1> QED
  BY <1>1, <1>2, PhoneKept DEF PhoneInv

\* An executed action makes Asterisk announce what it asked for; if the device was
\* in that state already and the lamp is not, an event that sets it waits.
LEMMA PhoneExecuted ==
    ASSUME TypeOK, StartInv, DeviceInv, PhoneInv, ExecuteSetvar
    PROVE  PhoneInv'
<1> DEFINE new == IF Head(setvars).on THEN "1" ELSE "0"
<1>1. /\ setvars # <<>> /\ setvars' = Tail(setvars) /\ Report(new)
      /\ UNCHANGED <<list, main, lamp, request, led, astray>>
  BY DEF ExecuteSetvar
<1>2. events \in Seq(Events) /\ new \in Statuses
  BY DEF TypeOK, Statuses
<1> SUFFICES ASSUME NEW p \in Phones PROVE PushInv(p)' /\ AnswerInv(p)' /\ LedInv(p)'
  BY DEF PhoneInv
<1>3. ASSUME NEW on \in BOOLEAN, ~(on <=> lamp), Coming(p, on) PROVE Coming(p, on)'
  <2>1. list = "answered" /\ main # "subscribe"
    BY <1>3 DEF Coming, StartInv
  <2>2. Asked(on) => Asked(on)'
    <3>1. CASE new = device
      BY <1>1, <3>1 DEF Report, Asked
    <3>2. CASE new # device
      <4> DEFINE e == [hint |-> hint_, status |-> new]
      <4>1. events' = Append(events, e) /\ e \in Events
        BY <1>1, <1>2, <2>1, <3>2, EventTypes, HintAssumption DEF Report, Announce
      <4>2. /\ Len(events) \in Nat /\ Len(events') = Len(events) + 1
            /\ \A i \in 1 .. Len(events) : events'[i] = events[i]
        BY <1>2, <4>1, AppendProperties, LenProperties
      <4> QED
        BY <4>2 DEF Asked
    <3> QED
      BY <3>1, <3>2
  <2>3. ASSUME Head(setvars).on <=> on PROVE Asked(on)'
    <3>1. new = Status(on)
      BY <2>3 DEF Status
    <3>2. CASE new = device
      <4>1. device \in {"0", "1"} /\ ~(lamp <=> device = "1")
        BY <1>3, <2>3, <3>2
      <4>2. LastIn(events, AboutNight, TellsDevice) /\ ~ NoneIn(events, AboutNight)
        BY <2>1, <4>1 DEF DeviceInv
      <4>3. \E i \in 1 .. Len(events) : events[i] \in TellsDevice
        BY <1>2, <4>2, LastExists
      <4> QED
        BY <1>1, <3>1, <3>2, <4>3 DEF Report, Asked, TellsDevice, AboutNight
    <3>3. CASE new # device
      <4> DEFINE e == [hint |-> hint_, status |-> new]
      <4>1. events' = Append(events, e) /\ e \in Events
        BY <1>1, <1>2, <2>1, <3>3, EventTypes, HintAssumption DEF Report, Announce
      <4>2. /\ Len(events) + 1 \in 1 .. Len(events') /\ events'[Len(events) + 1] = e
        BY <1>2, <4>1, AppendProperties, LenProperties
      <4> QED
        BY <3>1, <4>2 DEF Asked
    <3> QED
      BY <3>2, <3>3
  <2>4. Ordered(p, on) => Ordered(p, on)' \/ Asked(on)'
    BY <1>1, <2>3, SetvarOut
  <2> QED
    BY <1>1, <1>3, <2>2, <2>4 DEF Coming
<1> QED
  BY <1>1, <1>3, PhoneKept DEF PhoneInv

\* An event that leaves the lamp as it is was not the one to correct a phone.
LEMMA PhoneHandled ==
    ASSUME TypeOK, PhoneInv, AmiEventHandler
    PROVE  PhoneInv'
<1> DEFINE e == Head(events)
<1>1. events # <<>> /\ events' = Tail(events) /\ UNCHANGED <<setvars, list>>
  BY DEF AmiEventHandler
<1>2. ASSUME UNCHANGED <<lamp, request, led, astray>>,
             \A on \in BOOLEAN : e.hint = hint_ /\ e.status = Status(on) => (on <=> lamp)
      PROVE  PhoneInv'
  <2> SUFFICES ASSUME NEW p \in Phones PROVE PushInv(p)' /\ AnswerInv(p)' /\ LedInv(p)'
    BY DEF PhoneInv
  <2>1. ASSUME NEW on \in BOOLEAN, ~(on <=> lamp), Coming(p, on) PROVE Coming(p, on)'
    <3>1. Asked(on) => Asked(on)'
      BY <1>1, <1>2, <2>1, EventOut
    <3> QED
      BY <1>1, <2>1, <3>1 DEF Coming, Ordered
  <2> QED
    BY <1>1, <1>2, <2>1, PhoneKept DEF PhoneInv
<1>3. e \in Events
  BY Handled
<1>4. CASE (e \notin AboutNight \/ e.status \notin {"0", "1"}) /\ UNCHANGED <<lamp, request, led, astray>>
  <2>1. \A on \in BOOLEAN : ~(e.hint = hint_ /\ e.status = Status(on))
    BY <1>3, <1>4 DEF AboutNight, Status
  <2> QED
    BY <1>2, <1>4, <2>1
<1>5. ASSUME NEW on \in BOOLEAN, e.status = Status(on), SetOn(on) PROVE PhoneInv'
  <2>1. CASE on # lamp
    BY <1>5, <2>1, LampChanged
  <2>2. CASE on = lamp
    <3>1. UNCHANGED <<lamp, request, led, astray>>
      BY <1>5, <2>2 DEF SetOn
    <3>2. \A o \in BOOLEAN : e.status = Status(o) => (o <=> lamp)
      BY <1>5, <2>2 DEF Status
    <3> QED
      BY <1>2, <3>1, <3>2
  <2> QED
    BY <2>1, <2>2
<1> QED
  BY <1>4, <1>5, Handled

LEMMA PhonePushed ==
    ASSUME TypeOK, PhoneInv, NEW q \in Phones, PushButton(q) \/ GetHTTPState(q)
    PROVE  PhoneInv'
<1>1. UNCHANGED <<events, setvars, list, lamp, led, astray>>
  BY DEF PushButton, GetHTTPState, asterisk
<1>2. \A p, on : Coming(p, on) => Coming(p, on)'
  BY <1>1, ComingUnchanged
<1>3. \A p \in Phones : p # q => request'[p] = request[p]
  BY DEF PushButton, GetHTTPState, TypeOK
<1>4. \/ request'[q] = [at |-> "pushed", on |-> ~lamp, late |-> list # "answered"]
      \/ request'[q] = [at |-> "answered", on |-> lamp, late |-> FALSE]
  BY DEF PushButton, GetHTTPState, TypeOK
<1>5. lamp \in BOOLEAN /\ led[q] \in BOOLEAN
  BY DEF TypeOK
<1>6. PushInv(q)' /\ AnswerInv(q)' /\ LedInv(q)'
  <2> DEFINE r == request'[q]
  <2>a. \/ r.at = "pushed" /\ r.on = ~lamp /\ r.late = (list # "answered")
        \/ r.at = "answered" /\ r.on = lamp
    BY <1>4
  <2>1. PushInv(q)'
    BY <1>1, <2>a DEF PushInv
  <2>2. AnswerInv(q)'
    BY <1>1, <1>4, <1>5 DEF AnswerInv
  <2>3. LedInv(q)'
    BY <1>1, <1>2, <1>5 DEF PhoneInv, LedInv
  <2> QED
    BY <2>1, <2>2, <2>3
<1>7. ASSUME NEW p \in Phones, p # q PROVE PushInv(p)' /\ AnswerInv(p)' /\ LedInv(p)'
  BY <1>1, <1>2, <1>3, <1>7, PhoneKept DEF PhoneInv
<1> QED
  BY <1>6, <1>7 DEF PhoneInv

\* The answer anticipates the action that is posted with it.
LEMMA PhonePosted ==
    ASSUME TypeOK, PhoneInv, NEW q \in Phones, PostAction(q)
    PROVE  PhoneInv'
<1> DEFINE action == [phone |-> q, on |-> request[q].on]
<1>1. /\ request[q].at = "pushed" /\ request[q] \in Live
      /\ UNCHANGED <<events, list, lamp, led, astray>>
  BY RequestTypes DEF PostAction, TypeOK
<1>2. setvars' = Append(setvars, action) /\ action \in Setvars /\ setvars \in Seq(Setvars)
  BY <1>1 DEF PostAction, Live, Setvars, TypeOK
<1>3. /\ Len(setvars) \in Nat /\ Len(setvars') = Len(setvars) + 1
      /\ setvars'[Len(setvars) + 1] = action
      /\ \A i \in 1 .. Len(setvars) : setvars'[i] = setvars[i]
  BY <1>2, AppendProperties, LenProperties
<1>4. \A p, on : Ordered(p, on) => Ordered(p, on)'
  BY <1>3 DEF Ordered
<1>5. \A p, on : Coming(p, on) => Coming(p, on)'
  BY <1>1, <1>4 DEF Coming, Asked
<1>6. Len(setvars) + 1 \in 1 .. Len(setvars')
  BY <1>3
<1>7. \A p \in Phones : p # q => request'[p] = request[p]
  BY DEF PostAction, TypeOK
<1>8. request'[q].at = "answered" /\ request'[q].on = request[q].on
      /\ request'[q].late = request[q].late
  BY <1>1 DEF PostAction, TypeOK, Live
<1>9. PushInv(q)'
  BY <1>8 DEF PushInv
<1>10. AnswerInv(q)'
  <2>1. ~ request[q].late => list = "answered"
    BY <1>1 DEF PhoneInv, PushInv
  <2>2. \A on : on = request[q].on => Ordered(q, on)'
    BY <1>3, <1>6, <1>8 DEF Ordered
  <2> QED
    BY <1>1, <1>8, <2>1, <2>2 DEF AnswerInv, Coming
<1>11. LedInv(q)'
  BY <1>1, <1>5 DEF PhoneInv, LedInv
<1>12. ASSUME NEW p \in Phones, p # q PROVE PushInv(p)' /\ AnswerInv(p)' /\ LedInv(p)'
  BY <1>1, <1>5, <1>7, <1>12, PhoneKept DEF PhoneInv
<1> QED
  BY <1>9, <1>10, <1>11, <1>12 DEF PhoneInv

LEMMA PhoneDelivered ==
    ASSUME TypeOK, PhoneInv, NEW q \in Phones, Deliver(q)
    PROVE  PhoneInv'
<1>1. /\ request[q].at = "answered" /\ request[q] \in Live
      /\ UNCHANGED <<events, setvars, list, lamp>>
      /\ request'[q] = NoRequest /\ led'[q] = request[q].on
      /\ q \in astray => q \in astray'
      /\ request[q].late => q \in astray'
  BY RequestTypes DEF Deliver, TypeOK, asterisk
<1>2. \A p, on : Coming(p, on) => Coming(p, on)'
  BY <1>1, ComingUnchanged
<1>3. \A p \in Phones : p # q => /\ request'[p] = request[p] /\ led'[p] = led[p]
                                 /\ p \in astray => p \in astray'
  BY DEF Deliver, TypeOK
<1>4. PushInv(q)' /\ AnswerInv(q)'
  BY <1>1, RequestTypes DEF PushInv, AnswerInv
<1>5. LedInv(q)'
  BY <1>1, <1>2 DEF PhoneInv, AnswerInv, LedInv, Live
<1>6. ASSUME NEW p \in Phones, p # q PROVE PushInv(p)' /\ AnswerInv(p)' /\ LedInv(p)'
  BY <1>1, <1>2, <1>3, <1>6, PhoneKept DEF PhoneInv
<1> QED
  BY <1>4, <1>5, <1>6 DEF PhoneInv

LEMMA PhoneStep == TypeOK /\ StartInv /\ DeviceInv /\ PhoneInv /\ [Next]_vars => PhoneInv'
<1> SUFFICES ASSUME TypeOK, StartInv, DeviceInv, PhoneInv, [Next]_vars PROVE PhoneInv'
  OBVIOUS
<1>1. ASSUME UNCHANGED <<lamp, request, led, astray>>, list = "answered" => list' = "answered",
             \A p, on : Coming(p, on) => Coming(p, on)'
      PROVE  PhoneInv'
  BY <1>1, PhoneKept DEF PhoneInv
<1>2. CASE Subscribe \/ ExtensionStateList
  <2>1. UNCHANGED <<events, setvars, lamp, request, led, astray>>
    BY <1>2 DEF Subscribe, ExtensionStateList, asterisk
  <2>2. list = "answered" => list' = "answered"
    BY <1>2 DEF Subscribe, ExtensionStateList, asterisk, StartInv
  <2>3. \A p, on : Coming(p, on) => Coming(p, on)'
    BY <2>1, <2>2 DEF Coming, Asked, Ordered
  <2> QED
    BY <1>1, <2>1, <2>2, <2>3
<1>3. ASSUME NEW s \in Statuses, DeviceChange(s) PROVE PhoneInv'
  <2>1. UNCHANGED <<setvars, main, list, lamp, request, led, astray>>
    BY <1>3 DEF DeviceChange
  <2>2. \A p, on : Coming(p, on) => Coming(p, on)'
    <3>1. CASE events' = events
      BY <2>1, <3>1, ComingUnchanged
    <3>2. CASE events' # events
      <4> DEFINE e == [hint |-> hint_, status |-> s]
      <4>1. events' = Append(events, e) /\ e \in Events
        BY <1>3, <3>2, EventTypes, HintAssumption DEF DeviceChange, Report, Announce
      <4> QED
        BY <2>1, <4>1, ComingEvent
    <3> QED
      BY <3>1, <3>2
  <2> QED
    BY <1>1, <2>1, <2>2
<1>4. ASSUME NEW h \in Hints \ {hint_}, OtherChange(h) PROVE PhoneInv'
  <2> DEFINE e == [hint |-> h, status |-> "1"]
  <2>1. /\ events' = Append(events, e) /\ e \in Events
        /\ UNCHANGED <<setvars, list, lamp, request, led, astray>>
    BY <1>4, EventTypes DEF OtherChange, Announce, Statuses
  <2>2. \A p, on : Coming(p, on) => Coming(p, on)'
    BY <2>1, ComingEvent
  <2> QED
    BY <1>1, <2>1, <2>2
<1>5. CASE UNCHANGED vars
  <2>1. UNCHANGED <<events, setvars, list, lamp, request, led, astray>>
    BY <1>5 DEF vars
  <2>2. \A p, on : Coming(p, on) => Coming(p, on)'
    BY <2>1, ComingUnchanged
  <2> QED
    BY <1>1, <2>1, <2>2
<1> QED
  BY <1>2, <1>3, <1>4, <1>5, PhoneAnswerList, PhoneRefused, PhoneExecuted, PhoneHandled,
     PhonePushed, PhonePosted, PhoneDelivered
  DEF Next, Constructor, Answer, Http

-----------------------------------------------------------------------------
(* The theorems                                                            *)

\* The inductive invariant holds in every state.
THEOREM Invariance == Spec => []IInv
<1>1. Init => IInv
  BY TypeInit, SlotInit, StartInit, DeviceInit, PhoneInit DEF IInv
<1>2. IInv /\ [Next]_vars => IInv'
  BY TypeStep, SlotStep, StartStep, DeviceStep, PhoneStep DEF IInv
<1> QED
  BY <1>1, <1>2, PTL DEF Spec

\* Every variable keeps its type, and Asterisk never has more actions to execute
\* than MaxSetvars: the guard of a push (pushButton) counts those that the guards
\* of other pushes will still post.
THEOREM TypeCorrect == Spec => []TypeOK
<1>1. IInv => TypeOK
  BY DEF IInv
<1> QED
  BY <1>1, Invariance, PTL

\* Once the answer to the list has been handled and no event waits, the lamp is
\* that of the device as Asterisk has it: wherever that answer came among the
\* changes, and whoever changed the device (NightEventHandler's event handler).
THEOREM LampIsTheDevices == Spec => []LampFollowsDevice
<1>1. IInv => LampFollowsDevice
  <2> SUFFICES ASSUME IInv, list = "answered", events = <<>>, device \in {"0", "1"}
               PROVE  lamp = (device = "1")
    BY DEF LampFollowsDevice
  <2>1. NoneIn(events, AboutNight)
    BY EmptySeq DEF NoneIn
  <2> QED
    BY <2>1 DEF IInv, DeviceInv, TypeOK
<1> QED
  BY <1>1, Invariance, PTL

\* A phone shows the lamp when all is quiet, unless its last action was refused,
\* its answer overtaken by a notification, or given before the program knew the
\* device: what the answer to a push anticipates (NightButton::pushButton) comes.
THEOREM PhonesShowTheLamp == Spec => []ButtonShowsLamp
<1>1. IInv => ButtonShowsLamp
  <2> SUFFICES ASSUME IInv, Quiet, NEW p \in Phones, p \notin astray PROVE led[p] = lamp
    BY DEF ButtonShowsLamp
  <2>1. Len(events) = 0 /\ Len(setvars) = 0
    BY EmptySeq DEF Quiet
  <2>2. ~ Coming(p, led[p])
    BY <2>1 DEF Coming, Asked, Ordered
  <2> QED
    BY <2>2 DEF IInv, PhoneInv, LedInv, TypeOK
<1> QED
  BY <1>1, Invariance, PTL
=============================================================================
