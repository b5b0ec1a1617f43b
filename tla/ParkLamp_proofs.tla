--------------------------- MODULE ParkLamp_proofs ---------------------------
(***************************************************************************)
(* Proofs about ParkLamp, for any lot, calls and bound.                    *)
(***************************************************************************)
EXTENDS ParkLamp, ListLemmas

-----------------------------------------------------------------------------
(* The inductive invariant                                                 *)

\* How far the constructor has come: nothing is announced before it has
\* subscribed, the hints are all there before the list is asked for, and a lot
\* has all its hints or none.
StartInv ==
    /\ main = "subscribe" => events = <<>>
    /\ main \in {"subscribe", "config"} => fetched = {}
    /\ fetched \in {{}, Lot}
    /\ parking_hints_ = IF main \in {"list", "done"} THEN fetched ELSE {}
    /\ list # "none" => main = "done"

LampInv == lamp <=> parked_extens_ # {}

\* What is parked and what the extension says, unless it is unavailable.
StatusInv ==
    \A s \in Spaces : /\ status[s] = "1" => parked[s] # None
                      /\ status[s] = "0" => parked[s] = None

\* Events about a space, and those of them that tell its state as it is.
About(s) == {e \in Events : e.space = s}
Tells(s) == {e \in About(s) : e.status = status[s]}

\* The last event about a space tells its state as it is, wherever the answer to
\* the list came to stand among the changes; with no such event left the handler
\* has the space right.
SpaceInv(s) ==
    /\ LastIn(events, About(s), Tells(s))
    /\ list = "answered" /\ s \in parking_hints_ /\ NoneIn(events, About(s)) =>
           /\ status[s] = "1" => s \in parked_extens_
           /\ status[s] = "0" => s \notin parked_extens_
SpacesInv == \A s \in Spaces : SpaceInv(s)

\* A menu lists spaces of the lot only.
MenuInv ==
    screen.kind = "menu" =>
        /\ screen.items \in Seq(Items)
        /\ \A i \in 1 .. Len(screen.items) : screen.items[i].selection \in Lot

IInv == TypeOK /\ StartInv /\ LampInv /\ StatusInv /\ SpacesInv /\ MenuInv

-----------------------------------------------------------------------------
(* What Asterisk and the phone say                                         *)

\* The ParkedCalls are those of the lot, each under its space, and all of them.
LEMMA ParkedCallsListed ==
    ASSUME TypeOK
    PROVE  /\ ParkedCalls \in Seq(Items)
           /\ \A i \in 1 .. Len(ParkedCalls) :
                 /\ ParkedCalls[i].selection \in Lot
                 /\ ParkedCalls[i].call = parked[ParkedCalls[i].selection]
           /\ \A s \in Lot : parked[s] # None =>
                 \E i \in 1 .. Len(ParkedCalls) : ParkedCalls[i].selection = s
<1> DEFINE T == {s \in Lot : parked[s] # None}
           taken == SetToSeq(T)
<1>1. Lot \subseteq Spaces /\ IsFiniteSet(Lot)
  BY SpacesAssumption, FS_Subset DEF Lot
<1>2. IsFiniteSet(T)
  BY <1>1, FS_Subset
<1>3. taken \in Seq(T) /\ \A x \in T : \E i \in 1 .. Len(taken) : taken[i] = x
  BY <1>2, SetListed
<1>4. ParkedCalls = [i \in DOMAIN taken |-> [selection |-> taken[i], call |-> parked[taken[i]]]]
  BY DEF ParkedCalls
<1>5. \A x \in T : x \in Lot /\ x \in Spaces /\ parked[x] \in Calls
  BY <1>1 DEF TypeOK
<1> HIDE DEF taken
<1>6. DOMAIN taken = 1 .. Len(taken) /\ Len(taken) \in Nat /\ \A i \in 1 .. Len(taken) : taken[i] \in T
  BY <1>3, LenProperties, ElementOfSeq
<1> HIDE DEF T
<1>7. \A i \in 1 .. Len(taken) : [selection |-> taken[i], call |-> parked[taken[i]]] \in Items
  BY <1>5, <1>6 DEF Items
<1>8. ParkedCalls \in Seq(Items) /\ Len(ParkedCalls) = Len(taken)
  BY <1>4, <1>6, <1>7
<1>9. \A i \in 1 .. Len(taken) : /\ ParkedCalls[i].selection = taken[i]
                                 /\ ParkedCalls[i].call = parked[taken[i]]
  BY <1>4, <1>6
<1> QED
  BY <1>3, <1>5, <1>6, <1>8, <1>9 DEF T

\* The details are those of an item with the extension, if there is one.
LEMMA DetailFound ==
    ASSUME NEW calls \in Seq(Items), NEW exten
    PROVE  \E c \in Calls \cup {None} :
             /\ Detail(calls, exten) = Message(FALSE, 10, "detail", c)
             /\ (\E i \in 1 .. Len(calls) : calls[i].selection = exten) =>
                   \E i \in 1 .. Len(calls) : calls[i].selection = exten /\ c = calls[i].call
<1> DEFINE I == {i \in 1 .. Len(calls) : calls[i].selection = exten}
           at == IF I # {} THEN Min(I) ELSE 0
<1>1. Detail(calls, exten) = Message(FALSE, 10, "detail", IF at = 0 THEN None ELSE calls[at].call)
  BY DEF Detail, SelectInSeq
<1>2. Len(calls) \in Nat /\ I \subseteq 1 .. Len(calls)
  BY LenProperties
<1>3. CASE I = {}
  BY <1>1, <1>3
<1>4. CASE I # {}
  <2>1. at \in I /\ at # 0
    <3> HIDE DEF I
    <3>1. Min(I) \in I
      BY <1>2, <1>4, MinIsLeast
    <3> QED
      BY <1>2, <1>4, <3>1
  <2>2. calls[at] \in Items /\ calls[at].selection = exten
    BY <1>2, <2>1, ElementOfSeq
  <2>3. calls[at].call \in Calls
    BY <2>2 DEF Items
  <2> HIDE DEF at
  <2> QED
    BY <1>1, <1>2, <2>1, <2>2, <2>3
<1> QED
  BY <1>3, <1>4

\* Messages are no menus; a menu of parked calls is a screen.
LEMMA ScreenTypes ==
    /\ NoScreen \in Screens /\ NoScreen.kind # "menu"
    /\ \A b \in BOOLEAN, t \in {5, 10}, x \in {"empty", "detail", "missing"}, c \in Calls \cup {None} :
          Message(b, t, x, c) \in Screens /\ Message(b, t, x, c).kind # "menu"
    /\ \A calls \in Seq(Items) : [kind |-> "menu", items |-> calls] \in Screens
<1>1. NoScreen \in Screens /\ NoScreen.kind # "menu"
  BY DEF Screens, NoScreen
<1>2. ASSUME NEW b \in BOOLEAN, NEW t \in {5, 10}, NEW x \in {"empty", "detail", "missing"},
             NEW c \in Calls \cup {None}
      PROVE  Message(b, t, x, c) \in Screens /\ Message(b, t, x, c).kind # "menu"
  <2>1. Message(b, t, x, c) \in Screens
    <3> DEFINE M == {Message(bb, tt, xx, cc) : bb \in BOOLEAN, tt \in {5, 10},
                     xx \in {"empty", "detail", "missing"}, cc \in Calls \cup {None}}
    <3>1. Message(b, t, x, c) \in M
      OBVIOUS
    <3>2. M \subseteq Screens
      BY DEF Screens
    <3> QED
      BY <3>1, <3>2
  <2>2. Message(b, t, x, c).kind = "text"
    BY DEF Message
  <2> QED
    BY <2>1, <2>2
<1>3. \A calls \in Seq(Items) : [kind |-> "menu", items |-> calls] \in Screens
  BY DEF Screens
<1> QED
  BY <1>1, <1>2, <1>3

LEMMA MenuScreen ==
    ASSUME NEW calls \in Seq(Items)
    PROVE  /\ Menu(calls) \in Screens
           /\ Menu(calls).kind = "menu" <=> calls # <<>>
           /\ Menu(calls).kind = "menu" => Menu(calls).items = calls
<1>1. CASE calls = <<>>
  BY <1>1, ScreenTypes DEF Menu
<1>2. CASE calls # <<>>
  BY <1>2, ScreenTypes DEF Menu
<1> QED
  BY <1>1, <1>2

LEMMA EventTypes == \A s \in Spaces, n \in Statuses : [space |-> s, status |-> n] \in Events
BY DEF Events

\* The answer to the list puts an event for every space among the others, which
\* tells its state as it is.
LEMMA Answered ==
    ASSUME TypeOK, NEW n \in 0 .. Len(events), AnswerList(n)
    PROVE  \E m \in Seq(Events) :
             /\ events' = Insert(events, n, m) /\ events' \in Seq(Events)
             /\ \A s \in Spaces : /\ \A i \in 1 .. Len(m) : m[i] \in About(s) => m[i] \in Tells(s)
                                  /\ ~ NoneIn(m, About(s))
<1> DEFINE order == SetToSeq(Spaces)
           m == [i \in DOMAIN order |-> [space |-> order[i], status |-> status[order[i]]]]
<1>1. order \in Seq(Spaces) /\ \A x \in Spaces : \E i \in 1 .. Len(order) : order[i] = x
  BY SpacesAssumption, SetListed
<1>2. events' = Insert(events, n, m)
  BY DEF AnswerList, Insert
<1> HIDE DEF order
<1>3. /\ DOMAIN order = 1 .. Len(order) /\ Len(order) \in Nat
      /\ \A i \in 1 .. Len(order) : order[i] \in Spaces
  BY <1>1, LenProperties, ElementOfSeq
<1>4. \A i \in 1 .. Len(order) : [space |-> order[i], status |-> status[order[i]]] \in Events
  BY <1>3, EventTypes DEF TypeOK
<1>5. m \in Seq(Events) /\ Len(m) = Len(order)
  BY <1>3, <1>4
<1>6. \A i \in 1 .. Len(m) : /\ m[i] \in Events /\ m[i].space = order[i]
                             /\ m[i].status = status[order[i]]
  BY <1>3, <1>4, <1>5
<1> HIDE DEF m
<1>7. events' \in Seq(Events)
  BY <1>2, <1>5, Inserted DEF TypeOK
<1>8. ASSUME NEW s \in Spaces
      PROVE  /\ \A i \in 1 .. Len(m) : m[i] \in About(s) => m[i] \in Tells(s)
             /\ ~ NoneIn(m, About(s))
  <2>1. \A i \in 1 .. Len(m) : m[i] \in About(s) => m[i] \in Tells(s)
    BY <1>6 DEF About, Tells
  <2>2. ~ NoneIn(m, About(s))
    BY <1>1, <1>5, <1>6 DEF About, NoneIn
  <2> QED
    BY <2>1, <2>2
<1> QED
  BY <1>2, <1>5, <1>7, <1>8

\* The AMI thread takes an event; if it knows its hint, it keeps the books.
LEMMA Handled ==
    ASSUME TypeOK, AmiEventHandler
    PROVE  /\ events # <<>> /\ Head(events) \in Events
           /\ events' = Tail(events) /\ events' \in Seq(Events)
           /\ \E known \in KnownHint(Head(events).space) :
                \/ /\ known
                   /\ parked_extens_' =
                        CASE Head(events).status = "0" -> parked_extens_ \ {Head(events).space}
                          [] Head(events).status = "1" -> parked_extens_ \cup {Head(events).space}
                          [] OTHER -> parked_extens_
                   /\ lamp' = (parked_extens_' # {})
                \/ ~ known /\ UNCHANGED <<parked_extens_, lamp>>
<1>1. events # <<>> /\ events' = Tail(events)
  BY DEF AmiEventHandler
<1>2. Head(events) \in Events /\ Tail(events) \in Seq(Events)
  BY <1>1, HeadTailProperties DEF TypeOK
<1> QED
  BY <1>1, <1>2 DEF AmiEventHandler, UpdateButtonState, KnownHint

-----------------------------------------------------------------------------
(* Types and the constructor                                               *)

LEMMA InitInv == Init => IInv
<1> SUFFICES ASSUME Init PROVE IInv
  OBVIOUS
<1>1. TypeOK
  <2>1. screen \in Screens
    BY ScreenTypes DEF Init
  <2>2. /\ parked \in [Spaces -> Calls \cup {None}] /\ status \in [Spaces -> Statuses]
        /\ events \in Seq(Events)
    BY EmptySeq DEF Init, Statuses
  <2> QED
    BY <2>1, <2>2 DEF Init, TypeOK
<1>2. StartInv /\ LampInv /\ StatusInv
  BY DEF Init, StartInv, LampInv, StatusInv
<1>3. SpacesInv
  BY LastOfEmpty DEF Init, SpacesInv, SpaceInv
<1>4. MenuInv
  BY ScreenTypes DEF Init, MenuInv
<1> QED
  BY <1>1, <1>2, <1>3, <1>4 DEF IInv

\* A reported state is a status; if it is not announced the space was in it, or
\* nobody is subscribed.
LEMMA Reported ==
    ASSUME TypeOK, NEW s \in Spaces, NEW new \in Statuses, Report(s, new)
    PROVE  /\ status' \in [Spaces -> Statuses] /\ status'[s] = new
           /\ \A t \in Spaces : t # s => status'[t] = status[t]
           /\ events' \in Seq(Events)
           /\ \/ /\ new = status[s] \/ main = "subscribe"
                 /\ events' = events
              \/ /\ main # "subscribe"
                 /\ events' = Append(events, [space |-> s, status |-> new])
<1>1. [space |-> s, status |-> new] \in Events
  BY EventTypes
<1>2. /\ status' \in [Spaces -> Statuses] /\ status'[s] = new
      /\ \A t \in Spaces : t # s => status'[t] = status[t]
  BY DEF Report, TypeOK
<1>3. \/ /\ new = status[s] \/ main = "subscribe"
         /\ events' = events
      \/ /\ main # "subscribe"
         /\ events' = Append(events, [space |-> s, status |-> new])
  BY DEF Report
<1>4. events' \in Seq(Events)
  BY <1>1, <1>3 DEF TypeOK
<1> QED
  BY <1>2, <1>3, <1>4

\* What a call or a failure makes Asterisk report.
LEMMA Changes ==
    ASSUME TypeOK, NEW s \in Spaces,
           CallLeaves(s) \/ Unavailable(s) \/ \E c \in Calls : CallParked(s, c)
    PROVE  \E new \in Statuses :
             /\ Report(s, new)
             /\ parked' \in [Spaces -> Calls \cup {None}]
             /\ \A t \in Spaces : t # s => parked'[t] = parked[t]
             /\ new = "1" => parked'[s] # None
             /\ new = "0" => parked'[s] = None
             /\ UNCHANGED <<list, handler, screen>>
<1> "0" \in Statuses /\ "1" \in Statuses /\ "0" # "1"
  BY DEF Statuses
<1>1. ASSUME NEW c \in Calls, CallParked(s, c)
      PROVE  /\ Report(s, "1") /\ parked' \in [Spaces -> Calls \cup {None}]
             /\ \A t \in Spaces : t # s => parked'[t] = parked[t]
             /\ parked'[s] # None
             /\ UNCHANGED <<list, handler, screen>>
  BY <1>1, NoneAssumption DEF CallParked, TypeOK
<1>2. ASSUME CallLeaves(s)
      PROVE  /\ Report(s, "0") /\ parked' \in [Spaces -> Calls \cup {None}]
             /\ \A t \in Spaces : t # s => parked'[t] = parked[t]
             /\ parked'[s] = None
             /\ UNCHANGED <<list, handler, screen>>
  BY <1>2 DEF CallLeaves, TypeOK
<1>3. CASE Unavailable(s)
  <2> DEFINE new == IF status[s] # "4" THEN "4" ELSE IF parked[s] = None THEN "0" ELSE "1"
  <2>1. new \in Statuses /\ Report(s, new) /\ UNCHANGED <<parked, list, handler, screen>>
    BY <1>3 DEF Unavailable, Statuses
  <2>2. (new = "1" => parked[s] # None) /\ (new = "0" => parked[s] = None)
    OBVIOUS
  <2> HIDE DEF new
  <2> QED
    BY <2>1, <2>2 DEF TypeOK
<1> QED
  BY <1>1, <1>2, <1>3

LEMMA ButtonTypes ==
    ASSUME TypeOK, PushButton \/ PushWithoutSelection \/ ScreenTimeout \/ \E item \in Items : PushItem(item)
    PROVE  screen' \in Screens /\ MenuInv' /\ UNCHANGED <<asterisk, handler>>
<1>1. CASE PushButton
  <2>1. screen' = Menu(ParkedCalls) /\ UNCHANGED <<asterisk, handler>>
    BY <1>1 DEF PushButton
  <2>2. /\ ParkedCalls \in Seq(Items)
        /\ \A i \in 1 .. Len(ParkedCalls) : ParkedCalls[i].selection \in Lot
    BY ParkedCallsListed
  <2>3. /\ Menu(ParkedCalls) \in Screens
        /\ Menu(ParkedCalls).kind = "menu" => Menu(ParkedCalls).items = ParkedCalls
    BY <2>2, MenuScreen
  <2> QED
    BY <2>1, <2>2, <2>3 DEF MenuInv
<1>2. CASE PushWithoutSelection
  BY <1>2, ScreenTypes DEF PushWithoutSelection, MenuInv
<1>3. CASE ScreenTimeout
  BY <1>3, ScreenTypes DEF ScreenTimeout, MenuInv
<1>4. ASSUME NEW item \in Items, PushItem(item)
      PROVE  screen' \in Screens /\ MenuInv' /\ UNCHANGED <<asterisk, handler>>
  <2>1. screen' = Detail(ParkedCalls, item.selection) /\ UNCHANGED <<asterisk, handler>>
    BY <1>4 DEF PushItem
  <2>2. ParkedCalls \in Seq(Items)
    BY ParkedCallsListed
  <2>3. PICK c \in Calls \cup {None} : screen' = Message(FALSE, 10, "detail", c)
    BY <2>1, <2>2, DetailFound
  <2> QED
    BY <2>1, <2>3, ScreenTypes DEF MenuInv
<1> QED
  BY <1>1, <1>2, <1>3, <1>4

LEMMA TypeStep == TypeOK /\ StartInv /\ [Next]_vars => TypeOK'
<1> SUFFICES ASSUME TypeOK, StartInv, [Next]_vars PROVE TypeOK'
  OBVIOUS
<1>1. CASE Constructor
  BY <1>1 DEF Constructor, Subscribe, GetParkingHints, BeginAssign, EndAssign,
              ExtensionStateList, TypeOK, StartInv, asterisk
<1>2. ASSUME NEW n \in 0 .. Len(events), AnswerList(n) PROVE TypeOK'
  <2>1. events' \in Seq(Events)
    BY <1>2, Answered
  <2> QED
    BY <1>2, <2>1 DEF AnswerList, TypeOK, handler
<1>3. CASE AmiEventHandler
  <2> DEFINE e == Head(events)
  <2>1. PICK known \in KnownHint(e.space) :
          \/ /\ known
             /\ parked_extens_' = CASE e.status = "0" -> parked_extens_ \ {e.space}
                                    [] e.status = "1" -> parked_extens_ \cup {e.space}
                                    [] OTHER -> parked_extens_
             /\ lamp' = (parked_extens_' # {})
          \/ ~ known /\ UNCHANGED <<parked_extens_, lamp>>
    BY <1>3, Handled
  <2>2. known => e.space \in parking_hints_ \cup fetched
    BY DEF KnownHint
  <2>3. parked_extens_' \subseteq parking_hints_ \cup fetched /\ lamp' \in BOOLEAN
    BY <2>1, <2>2 DEF TypeOK
  <2>4. events' \in Seq(Events)
    BY <1>3, Handled
  <2> QED
    BY <1>3, <2>3, <2>4 DEF AmiEventHandler, TypeOK
<1>4. ASSUME NEW s \in Spaces, CallLeaves(s) \/ Unavailable(s) \/ \E c \in Calls : CallParked(s, c)
      PROVE  TypeOK'
  <2>1. PICK new \in Statuses : /\ Report(s, new)
                                /\ parked' \in [Spaces -> Calls \cup {None}]
                                /\ UNCHANGED <<list, handler, screen>>
    BY <1>4, Changes
  <2>2. status' \in [Spaces -> Statuses] /\ events' \in Seq(Events)
    BY <2>1, Reported
  <2> QED
    BY <2>1, <2>2 DEF TypeOK, handler
<1>5. CASE PushButton \/ PushWithoutSelection \/ ScreenTimeout \/ \E item \in Items : PushItem(item)
  BY <1>5, ButtonTypes DEF TypeOK, asterisk, handler
<1>6. CASE UNCHANGED vars
  BY <1>6 DEF vars, TypeOK
<1> QED
  BY <1>1, <1>2, <1>3, <1>4, <1>5, <1>6 DEF Next, Answer

LEMMA StartStep == TypeOK /\ StartInv /\ [Next]_vars => StartInv'
<1> SUFFICES ASSUME TypeOK, StartInv, [Next]_vars PROVE StartInv'
  OBVIOUS
<1>1. CASE Constructor
  BY <1>1 DEF Constructor, Subscribe, GetParkingHints, BeginAssign, EndAssign,
              ExtensionStateList, TypeOK, StartInv, asterisk
<1>2. ASSUME NEW n \in 0 .. Len(events), AnswerList(n) PROVE StartInv'
  BY <1>2 DEF AnswerList, StartInv, handler
<1>3. CASE AmiEventHandler
  BY <1>3 DEF AmiEventHandler, StartInv
<1>4. ASSUME NEW s \in Spaces, CallLeaves(s) \/ Unavailable(s) \/ \E c \in Calls : CallParked(s, c)
      PROVE  StartInv'
  <2>1. PICK new \in Statuses : Report(s, new) /\ UNCHANGED <<list, handler>>
    BY <1>4, Changes
  <2>2. main = "subscribe" => events' = events
    BY <2>1, Reported
  <2> QED
    BY <2>1, <2>2 DEF StartInv, handler
<1>5. CASE PushButton \/ PushWithoutSelection \/ ScreenTimeout \/ \E item \in Items : PushItem(item)
  BY <1>5, ButtonTypes DEF StartInv, asterisk, handler
<1>6. CASE UNCHANGED vars
  BY <1>6 DEF vars, StartInv
<1> QED
  BY <1>1, <1>2, <1>3, <1>4, <1>5, <1>6 DEF Next, Answer

LEMMA LampStep == TypeOK /\ LampInv /\ [Next]_vars => LampInv'
<1> SUFFICES ASSUME TypeOK, LampInv, [Next]_vars PROVE LampInv'
  OBVIOUS
<1>1. CASE AmiEventHandler
  BY <1>1, Handled DEF LampInv
<1>2. CASE UNCHANGED <<lamp, parked_extens_>>
  BY <1>2 DEF LampInv
<1>3. ASSUME NEW s \in Spaces, CallLeaves(s) \/ Unavailable(s) \/ \E c \in Calls : CallParked(s, c)
      PROVE  UNCHANGED <<lamp, parked_extens_>>
  BY <1>3 DEF CallLeaves, Unavailable, CallParked, handler
<1> QED
  BY <1>1, <1>2, <1>3
  DEF Next, Constructor, Subscribe, GetParkingHints, BeginAssign, EndAssign,
      ExtensionStateList, Answer, AnswerList, PushButton, PushWithoutSelection, ScreenTimeout,
      PushItem, handler, vars

LEMMA StatusStep == TypeOK /\ StatusInv /\ [Next]_vars => StatusInv'
<1> SUFFICES ASSUME TypeOK, StatusInv, [Next]_vars PROVE StatusInv'
  OBVIOUS
<1>1. ASSUME NEW s \in Spaces, CallLeaves(s) \/ Unavailable(s) \/ \E c \in Calls : CallParked(s, c)
      PROVE  StatusInv'
  <2>1. PICK new \in Statuses : /\ Report(s, new)
                                /\ \A t \in Spaces : t # s => parked'[t] = parked[t]
                                /\ new = "1" => parked'[s] # None
                                /\ new = "0" => parked'[s] = None
    BY <1>1, Changes
  <2>2. status'[s] = new /\ \A t \in Spaces : t # s => status'[t] = status[t]
    BY <2>1, Reported
  <2> QED
    BY <2>1, <2>2 DEF StatusInv
<1>2. CASE UNCHANGED <<parked, status>>
  BY <1>2 DEF StatusInv
<1> QED
  BY <1>1, <1>2
  DEF Next, Constructor, Subscribe, GetParkingHints, BeginAssign, EndAssign,
      ExtensionStateList, Answer, AnswerList, AmiEventHandler, PushButton,
      PushWithoutSelection, ScreenTimeout, PushItem, asterisk, vars

LEMMA MenuStep == TypeOK /\ MenuInv /\ [Next]_vars => MenuInv'
<1> SUFFICES ASSUME TypeOK, MenuInv, [Next]_vars PROVE MenuInv'
  OBVIOUS
<1>1. CASE PushButton \/ PushWithoutSelection \/ ScreenTimeout \/ \E item \in Items : PushItem(item)
  BY <1>1, ButtonTypes
<1>2. CASE UNCHANGED screen
  BY <1>2 DEF MenuInv
<1>3. ASSUME NEW s \in Spaces, CallLeaves(s) \/ Unavailable(s) \/ \E c \in Calls : CallParked(s, c)
      PROVE  UNCHANGED screen
  BY <1>3 DEF CallLeaves, Unavailable, CallParked
<1> QED
  BY <1>1, <1>2, <1>3
  DEF Next, Constructor, Subscribe, GetParkingHints, BeginAssign, EndAssign,
      ExtensionStateList, Answer, AnswerList, AmiEventHandler, vars

-----------------------------------------------------------------------------
(* The handler knows its spaces                                            *)

\* A change of a space is the last word about it, or finds nobody subscribed.
LEMMA SpaceReported ==
    ASSUME TypeOK, StartInv, NEW s \in Spaces, NEW new \in Statuses, Report(s, new),
           UNCHANGED <<list, parking_hints_, parked_extens_>>,
           NEW t \in Spaces, SpaceInv(t)
    PROVE  SpaceInv(t)'
<1> DEFINE e == [space |-> s, status |-> new]
<1>1. e \in Events /\ events \in Seq(Events) /\ LastIn(events, About(t), Tells(t))
  BY EventTypes DEF TypeOK, SpaceInv
<1>2. /\ status'[s] = new /\ \A u \in Spaces : u # s => status'[u] = status[u]
      /\ \/ (new = status[s] \/ main = "subscribe") /\ events' = events
         \/ main # "subscribe" /\ events' = Append(events, e)
  BY Reported
<1>3. CASE events' = events /\ (new = status[s] \/ t # s)
  BY <1>2, <1>3 DEF SpaceInv, Tells, About
<1>4. CASE events' = events /\ main = "subscribe"
  <2>1. events' = <<>> /\ list' # "answered"
    BY <1>4 DEF StartInv
  <2> QED
    BY <2>1, LastOfEmpty DEF SpaceInv
<1>5. CASE events' = Append(events, e) /\ t = s
  <2>1. e \in About(t) /\ e \in Tells(t)'
    BY <1>1, <1>2, <1>5 DEF About, Tells
  <2>2. LastIn(events', About(t), Tells(t)') /\ ~ NoneIn(events', About(t))
    BY <1>1, <1>5, <2>1, LastAppendGood
  <2> QED
    BY <2>2 DEF SpaceInv, About
<1>6. CASE events' = Append(events, e) /\ t # s
  <2>1. e \notin About(t)
    BY <1>6 DEF About
  <2>2. /\ LastIn(events', About(t), Tells(t))
        /\ NoneIn(events', About(t)) => NoneIn(events, About(t))
    BY <1>1, <1>6, <2>1, LastAppendOther
  <2>3. status'[t] = status[t]
    BY <1>2, <1>6
  <2> QED
    BY <2>2, <2>3 DEF SpaceInv, Tells, About
<1> QED
  BY <1>2, <1>3, <1>4, <1>5, <1>6

LEMMA SpaceHandled ==
    ASSUME TypeOK, StartInv, AmiEventHandler, NEW t \in Spaces, SpaceInv(t)
    PROVE  SpaceInv(t)'
<1> DEFINE e == Head(events)
<1>1. events \in Seq(Events) /\ LastIn(events, About(t), Tells(t))
  BY DEF TypeOK, SpaceInv
<1>2. events # <<>> /\ e \in Events /\ events' = Tail(events)
      /\ UNCHANGED <<list, main, parking_hints_, status>>
  BY Handled DEF AmiEventHandler
<1>3. /\ LastIn(events', About(t), Tells(t))
      /\ e \in About(t) /\ NoneIn(events', About(t)) => e \in Tells(t)
      /\ e \notin About(t) /\ NoneIn(events', About(t)) => NoneIn(events, About(t))
  BY <1>1, <1>2, LastOfTail
<1>4. LastIn(events, About(t), Tells(t))'
  BY <1>2, <1>3 DEF About, Tells
<1>5. PICK known \in KnownHint(e.space) :
         \/ /\ known
            /\ parked_extens_' = CASE e.status = "0" -> parked_extens_ \ {e.space}
                                   [] e.status = "1" -> parked_extens_ \cup {e.space}
                                   [] OTHER -> parked_extens_
         \/ ~ known /\ parked_extens_' = parked_extens_
  BY Handled
<1>6. ASSUME list = "answered", t \in parking_hints_, NoneIn(events', About(t))
      PROVE  /\ status[t] = "1" => t \in parked_extens_'
             /\ status[t] = "0" => t \notin parked_extens_'
  <2>1. CASE e \in About(t)
    <3>1. e.space = t /\ e.status = status[t]
      BY <1>3, <1>6, <2>1 DEF Tells, About
    <3>2. known
      <4>1. main # "assigning"
        BY <1>6 DEF StartInv
      <4> QED
        BY <1>5, <1>6, <3>1, <4>1 DEF KnownHint
    <3> QED
      BY <1>5, <3>1, <3>2
  <2>2. CASE e \notin About(t)
    <3>1. e.space # t
      BY <1>2, <2>2 DEF About
    <3>2. t \in parked_extens_' <=> t \in parked_extens_
      BY <1>5, <3>1
    <3> QED
      BY <1>3, <1>6, <2>2, <3>2 DEF SpaceInv
  <2> QED
    BY <2>1, <2>2
<1> QED
  BY <1>2, <1>4, <1>6 DEF SpaceInv, About

LEMMA SpaceAnswered ==
    ASSUME TypeOK, NEW n \in 0 .. Len(events), AnswerList(n), NEW t \in Spaces, SpaceInv(t)
    PROVE  SpaceInv(t)'
<1>1. events \in Seq(Events) /\ LastIn(events, About(t), Tells(t)) /\ status' = status
  BY DEF TypeOK, SpaceInv, AnswerList
<1>2. PICK m \in Seq(Events) :
        /\ events' = Insert(events, n, m)
        /\ \A i \in 1 .. Len(m) : m[i] \in About(t) => m[i] \in Tells(t)
        /\ ~ NoneIn(m, About(t))
  BY Answered
<1>3. LastIn(events', About(t), Tells(t)) /\ ~ NoneIn(events', About(t))
  BY <1>1, <1>2, LastOfInserted
<1> QED
  BY <1>1, <1>3 DEF SpaceInv, About, Tells

LEMMA SpacesStep == TypeOK /\ StartInv /\ SpacesInv /\ [Next]_vars => SpacesInv'
<1> SUFFICES ASSUME TypeOK, StartInv, SpacesInv, [Next]_vars, NEW t \in Spaces PROVE SpaceInv(t)'
  BY DEF SpacesInv
<1>a. SpaceInv(t)
  BY DEF SpacesInv
<1>1. CASE Constructor
  <2>1. UNCHANGED <<status, events, parked_extens_>> /\ list' # "answered"
    BY <1>1 DEF Constructor, Subscribe, GetParkingHints, BeginAssign, EndAssign,
                ExtensionStateList, asterisk, StartInv
  <2> QED
    BY <1>a, <2>1 DEF SpaceInv, About, Tells
<1>2. ASSUME NEW n \in 0 .. Len(events), AnswerList(n) PROVE SpaceInv(t)'
  BY <1>2, <1>a, SpaceAnswered
<1>3. CASE AmiEventHandler
  BY <1>3, <1>a, SpaceHandled
<1>4. ASSUME NEW s \in Spaces, CallLeaves(s) \/ Unavailable(s) \/ \E c \in Calls : CallParked(s, c)
      PROVE  SpaceInv(t)'
  <2>1. PICK new \in Statuses : Report(s, new) /\ UNCHANGED <<list, handler>>
    BY <1>4, Changes
  <2> QED
    BY <1>a, <2>1, SpaceReported DEF handler
<1>5. CASE PushButton \/ PushWithoutSelection \/ ScreenTimeout \/ \E item \in Items : PushItem(item)
  BY <1>5, <1>a, ButtonTypes DEF SpaceInv, About, Tells, asterisk, handler
<1>6. CASE UNCHANGED vars
  BY <1>6, <1>a DEF vars, SpaceInv, About, Tells
<1> QED
  BY <1>1, <1>2, <1>3, <1>4, <1>5, <1>6 DEF Next, Answer

-----------------------------------------------------------------------------
(* The theorems                                                            *)

\* The inductive invariant holds in every state.
THEOREM Invariance == Spec => []IInv
<1>1. Init => IInv
  BY InitInv
<1>2. IInv /\ [Next]_vars => IInv'
  BY TypeStep, StartStep, LampStep, StatusStep, SpacesStep, MenuStep DEF IInv
<1> QED
  BY <1>1, <1>2, PTL DEF Spec

\* Every variable keeps its type; the spaces the handler counts as taken, for one,
\* are spaces whose hints it has or is just being given.
THEOREM TypeCorrect == Spec => []TypeOK
<1>1. IInv => TypeOK
  BY DEF IInv
<1> QED
  BY <1>1, Invariance, PTL

\* When the handler has all that Asterisk had to tell, it has every space of its lot
\* right that is idle or in use.
LEMMA QuietSpaces ==
    ASSUME IInv, Quiet, parking_hints_ # {}
    PROVE  /\ parked_extens_ \subseteq Lot
           /\ \A s \in Lot : /\ status[s] = "1" => s \in parked_extens_
                             /\ status[s] = "0" => s \notin parked_extens_
<1>1. parking_hints_ = Lot /\ parked_extens_ \subseteq Lot
  BY DEF IInv, StartInv, TypeOK, Quiet
<1>2. \A A : NoneIn(events, A)
  BY EmptySeq DEF NoneIn, Quiet
<1>3. Lot \subseteq Spaces
  BY DEF Lot
<1> QED
  BY <1>1, <1>2, <1>3 DEF IInv, SpacesInv, SpaceInv, Quiet

\* The lamp is lit if a space of the lot is in use and not if all are idle, however
\* the changes fell into the constructor of the handler, which subscribes, fetches
\* its hints, assigns them and asks for the list, and wherever the list came.
THEOREM LampIsTheLots == Spec => []LampFollowsLot
<1>1. IInv => LampFollowsLot
  <2> SUFFICES ASSUME IInv, Quiet, parking_hints_ # {}
               PROVE  /\ (\E s \in Lot : status[s] = "1") => lamp
                      /\ lamp => \E s \in Lot : status[s] # "0"
    BY DEF LampFollowsLot
  <2>1. lamp <=> parked_extens_ # {}
    BY DEF IInv, LampInv
  <2> QED
    BY <2>1, QuietSpaces
<1> QED
  BY <1>1, Invariance, PTL

\* The lamp, which Asterisk's events set, and the list of calls, which Asterisk is
\* asked for when the button is pushed, agree.
THEOREM MenuShowsWhatTheLampSays == Spec => []MenuAgreesWithLamp
<1>1. IInv => MenuAgreesWithLamp
  <2> SUFFICES ASSUME IInv, Quiet, parking_hints_ # {}, \A s \in Lot : status[s] # "4"
               PROVE  lamp <=> Menu(ParkedCalls).kind = "menu"
    BY DEF MenuAgreesWithLamp
  <2>1. TypeOK /\ StatusInv /\ (lamp <=> parked_extens_ # {})
    BY DEF IInv, LampInv
  <2>2. \A s \in Lot : s \in Spaces /\ status[s] \in {"0", "1"}
    BY <2>1 DEF TypeOK, Statuses, Lot
  <2>3. \A s \in Lot : s \in parked_extens_ <=> parked[s] # None
    BY <2>1, <2>2, QuietSpaces DEF StatusInv
  <2>4. lamp <=> \E s \in Lot : parked[s] # None
    BY <2>1, <2>3, QuietSpaces
  <2>5. /\ ParkedCalls \in Seq(Items)
        /\ \A i \in 1 .. Len(ParkedCalls) : ParkedCalls[i] \in Items
    BY <2>1, ParkedCallsListed, ElementOfSeq
  <2>6. (\E s \in Lot : parked[s] # None) <=> ParkedCalls # <<>>
    <3>1. ASSUME NEW s \in Lot, parked[s] # None PROVE ParkedCalls # <<>>
      BY <2>1, <3>1, ParkedCallsListed, EmptySeq
    <3>2. ASSUME ParkedCalls # <<>> PROVE \E s \in Lot : parked[s] # None
      <4>1. 1 \in 1 .. Len(ParkedCalls)
        BY <2>5, <3>2, LenProperties, EmptySeq
      <4>2. /\ ParkedCalls[1].selection \in Lot
            /\ ParkedCalls[1].call = parked[ParkedCalls[1].selection]
        BY <2>1, <4>1, ParkedCallsListed
      <4>3. ParkedCalls[1].call # None
        BY <2>5, <4>1, NoneAssumption DEF Items
      <4> QED
        BY <4>2, <4>3
    <3> QED
      BY <3>1, <3>2
  <2> QED
    BY <2>4, <2>5, <2>6, MenuScreen
<1> QED
  BY <1>1, Invariance, PTL

\* The item of a menu leads to the details of its call as long as the call is parked
\* where the menu says, though the calls are listed anew and others have come and
\* gone: an item carries its space, never its place in the list.
THEOREM ItemsLeadToTheirCalls == Spec => ItemLeadsToItsCall
<1> DEFINE Right == \A item \in Items : PushItem(item) /\ parked[item.selection] = item.call
                                            => screen'.call = item.call
<1>1. IInv /\ [Next]_vars => [Right]_vars
  <2> SUFFICES ASSUME IInv, NEW item \in Items, PushItem(item),
                      parked[item.selection] = item.call
               PROVE  screen'.call = item.call
    OBVIOUS
  <2> DEFINE exten == item.selection
  <2>1. TypeOK /\ MenuInv /\ item.call # None
    BY NoneAssumption DEF IInv, Items
  <2>2. exten \in Lot
    <3>1. screen.kind = "menu" /\ item \in ToSet(screen.items)
      BY DEF PushItem
    <3>2. PICK i \in DOMAIN screen.items : item = screen.items[i]
      BY <3>1 DEF ToSet
    <3>3. i \in 1 .. Len(screen.items)
      BY <2>1, <3>1, <3>2, LenProperties DEF MenuInv
    <3> QED
      BY <2>1, <3>1, <3>2, <3>3 DEF MenuInv
  <2>3. /\ ParkedCalls \in Seq(Items)
        /\ \A i \in 1 .. Len(ParkedCalls) : ParkedCalls[i].call = parked[ParkedCalls[i].selection]
        /\ \E i \in 1 .. Len(ParkedCalls) : ParkedCalls[i].selection = exten
    BY <2>1, <2>2, ParkedCallsListed
  <2>4. PICK c \in Calls \cup {None} :
          /\ Detail(ParkedCalls, exten) = Message(FALSE, 10, "detail", c)
          /\ (\E i \in 1 .. Len(ParkedCalls) : ParkedCalls[i].selection = exten) =>
                \E i \in 1 .. Len(ParkedCalls) :
                   ParkedCalls[i].selection = exten /\ c = ParkedCalls[i].call
    BY <2>3, DetailFound
  <2>5. c = item.call
    BY <2>3, <2>4
  <2>6. screen' = Message(FALSE, 10, "detail", c)
    BY <2>4 DEF PushItem
  <2> QED
    BY <2>5, <2>6 DEF Message
<1>2. Spec => []IInv
  BY Invariance
<1> QED
  BY <1>1, <1>2, PTL DEF Spec, ItemLeadsToItsCall
=============================================================================
