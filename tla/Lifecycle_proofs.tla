--------------------------- MODULE Lifecycle_proofs ---------------------------
(***************************************************************************)
(* Proofs about Lifecycle and the construction in Wiring, for any          *)
(* configurations.                                                         *)
(***************************************************************************)
EXTENDS Lifecycle, ListLemmas

-----------------------------------------------------------------------------
(* The inductive invariant                                                 *)

\* The handler of SIGTERM is set before a thread or the server is started, and
\* main logs off when it has joined the ping thread, after all else it does.
LifeInv ==
    /\ main \in {"connect", "ping"} \cup Building \cup {"listen", "serving"} \cup Shutdown => handler
    /\ connection = "logged_off" => main \in {"destroy", "ended"}
    /\ main = "logoff" \/ connection = "logged_off" => ping = "done"

\* main has the element of a list it is at, or is past the last.
ItemInv ==
    /\ main \in Startup => item = 1
    /\ main = "phonebooks" => item \in 1 .. Len(config.phonebooks) + 1
    /\ main = "phones" => item \in 1 .. Len(config.phones) + 1
    /\ main = "paths" => /\ item \in 1 .. Len(config.phones)
                         /\ sub \in 1 .. Len(ThisPhone.http_paths) + 1

\* The phonebooks main has dealt with, by their places in the list, and the phones
\* it has given their plans.
BooksDone ==
    IF main = "phonebooks" THEN 1 .. item - 1
    ELSE IF main \in {"phones", "paths", "listen", "serving"} THEN 1 .. Len(config.phonebooks)
    ELSE {}
PhonesDone ==
    IF main = "phones" THEN 1 .. item - 1
    ELSE IF main = "paths" THEN 1 .. item
    ELSE IF main \in {"listen", "serving"} THEN 1 .. Len(config.phones)
    ELSE {}
PathsDone(i) ==
    IF main = "paths" /\ i = item THEN 1 .. sub - 1 ELSE 1 .. Len(config.phones[i].http_paths)

BookIsRight(b) == b.provider \in config.providers /\ "ttl" \in DOMAIN b
BooksInv == \A i \in BooksDone : BookIsRight(config.phonebooks[i])

\* A phone has a plan of its own, with a handler for each button of its plan in the
\* configuration.
PhoneHasPlan(phone) ==
    LET at == Named(config.button_plans, phone.button_plan)
    IN  /\ at # 0
        /\ phone.button_plan \in DOMAIN plans
        /\ plans[phone.button_plan].ui = phone.name
        /\ DOMAIN plans[phone.button_plan].handlers
             = {config.button_plans[at].buttons[n].id :
                  n \in DOMAIN config.button_plans[at].buttons}
Alike(phone, other) == phone.button_plan = other.button_plan \/ phone.name = other.name
PlansInv ==
    /\ \A p \in DOMAIN plans : plans[p].buttons = plans[p].handlers
    /\ \A i \in PhonesDone : PhoneHasPlan(config.phones[i])
    /\ \A i, j \in PhonesDone : Alike(config.phones[i], config.phones[j]) => i = j

\* A path of a phone that needs a handler has found one.
PathIsRight(phone, path) ==
    path.type # "http_state" => path.button_id \in DOMAIN plans[phone.button_plan].handlers
PathsInv ==
    \A i \in PhonesDone : \A k \in PathsDone(i) :
        PathIsRight(config.phones[i], config.phones[i].http_paths[k])

\* A route acts on the button it was made for.
RouteIsRight(r) ==
    /\ {"kind", "path"} \subseteq DOMAIN r
    /\ r.kind \in {"night_button", "park_button"} =>
           LET button == plans[r.plan].buttons[r.id]
           IN  /\ r.plan \in DOMAIN plans /\ plans[r.plan].ui = r.ui
               /\ button.type = r.kind /\ button.target = r.target
RoutesInv == IsList(routes) /\ \A i \in DOMAIN routes : RouteIsRight(routes[i])

WiringInv == ItemInv /\ BooksInv /\ PlansInv /\ PathsInv /\ RoutesInv

IInv == TypeOK /\ LifeInv /\ WiringInv

-----------------------------------------------------------------------------
(* Lists                                                                   *)

LEMMA ListTypes ==
    ASSUME NEW q, IsList(q)
    PROVE  Len(q) \in Nat /\ DOMAIN q = 1 .. Len(q)
BY DEF IsList

\* What is in two lists is in the one made of them, and nothing else.
LEMMA Joined ==
    ASSUME NEW q, NEW m, IsList(q), IsList(m)
    PROVE  /\ IsList(q \o m)
           /\ \A i \in DOMAIN (q \o m) : \/ \E j \in DOMAIN q : (q \o m)[i] = q[j]
                                         \/ \E j \in DOMAIN m : (q \o m)[i] = m[j]
<1> DEFINE S == ToSet(q) \cup ToSet(m)
           r == q \o m
<1>1. q \in Seq(S) /\ m \in Seq(S)
  BY DEF IsList
<1>2. Len(q) \in Nat /\ DOMAIN q = 1 .. Len(q) /\ Len(m) \in Nat /\ DOMAIN m = 1 .. Len(m)
  BY ListTypes
<1> HIDE DEF S
<1>3. /\ r \in Seq(S) /\ Len(r) = Len(q) + Len(m)
      /\ \A i \in 1 .. Len(q) + Len(m) : r[i] = IF i <= Len(q) THEN q[i] ELSE m[i - Len(q)]
  BY <1>1, ConcatProperties
<1> HIDE DEF r
<1>4. DOMAIN r = 1 .. Len(q) + Len(m)
  BY <1>3
<1>5. ASSUME NEW i \in DOMAIN r
      PROVE  (\E j \in DOMAIN q : r[i] = q[j]) \/ (\E j \in DOMAIN m : r[i] = m[j])
  <2>1. CASE i <= Len(q)
    BY <1>2, <1>3, <1>4, <2>1
  <2>2. CASE ~(i <= Len(q))
    <3>1. i - Len(q) \in DOMAIN m
      BY <1>2, <1>4, <2>2
    <3> QED
      BY <1>3, <1>4, <2>2, <3>1
  <2> QED
    BY <2>1, <2>2
<1>6. IsList(r)
  <2>1. \A i \in 1 .. Len(r) : r[i] \in ToSet(r)
    BY <1>3, <1>4 DEF ToSet
  <2>2. r \in Seq(ToSet(r))
    BY <1>3, <2>1
  <2> QED
    BY <2>2 DEF IsList
<1> QED
  BY <1>5, <1>6 DEF r

LEMMA OneMore ==
    ASSUME NEW q, NEW x, IsList(q)
    PROVE  /\ IsList(Append(q, x))
           /\ \A i \in DOMAIN Append(q, x) : \/ \E j \in DOMAIN q : Append(q, x)[i] = q[j]
                                             \/ Append(q, x)[i] = x
<1> DEFINE S == ToSet(q) \cup {x}
           r == Append(q, x)
<1>1. q \in Seq(S) /\ x \in S
  BY DEF IsList
<1>2. Len(q) \in Nat /\ DOMAIN q = 1 .. Len(q)
  BY ListTypes
<1> HIDE DEF S
<1>3. /\ r \in Seq(S) /\ Len(r) = Len(q) + 1 /\ r[Len(q) + 1] = x
      /\ \A i \in 1 .. Len(q) : r[i] = q[i]
  BY <1>1, AppendProperties
<1> HIDE DEF r
<1>4. DOMAIN r = 1 .. Len(q) + 1
  BY <1>3
<1>5. \A i \in DOMAIN r : i \in DOMAIN q \/ i = Len(q) + 1
  BY <1>2, <1>4
<1>6. IsList(r)
  <2>1. \A i \in 1 .. Len(r) : r[i] \in ToSet(r)
    BY <1>3, <1>4 DEF ToSet
  <2>2. r \in Seq(ToSet(r))
    BY <1>3, <2>1
  <2> QED
    BY <2>2 DEF IsList
<1> QED
  BY <1>2, <1>3, <1>5, <1>6 DEF r

-----------------------------------------------------------------------------
(* The steps of main, the signal and the ping thread                       *)

\* All that happens but construction leaves what is constructed alone; main gets
\* into construction at its beginning only.
LEMMA OtherSteps ==
    ASSUME [Next]_vars, ~ (WiringStep /\ UNCHANGED life)
    PROVE  /\ UNCHANGED wiring
           /\ \/ main' = main
              \/ main' \in Startup /\ main \in Startup
              \/ main = "ping" /\ main' = "phonebooks"
              \/ main = "listen" /\ main' = "serving"
              \/ main' \in Shutdown \cup {"ended"}
<1> USE DEF Startup, Shutdown
<1>1. CASE \/ GetApplicationParameters \/ LoadConfigFile \/ Daemonize \/ SetUserGroup
           \/ ConfigureSyslog \/ CreateHTTPServer \/ Sigaction \/ CreateAMIConnection
  BY <1>1 DEF GetApplicationParameters, LoadConfigFile, Daemonize, SetUserGroup,
              ConfigureSyslog, CreateHTTPServer, Sigaction, CreateAMIConnection, Either, Goto, EndsBy
<1>2. CASE CreateAmiPingThread \/ Listen
  BY <1>2 DEF CreateAmiPingThread, Listen, Goto
<1>3. CASE ListenReturns \/ StopPing \/ NotifyAll \/ Join \/ Logoff \/ Destroy
  BY <1>3 DEF ListenReturns, StopPing, NotifyAll, Join, Logoff, Destroy, Goto
<1>4. CASE PingThread \/ SpuriousWakeup
  BY <1>4 DEF PingThread, SpuriousWakeup, Ping, WaitPredicate, Block, WaitTimeout, While, PingGoto
<1>5. CASE SignalHandler
  BY <1>5 DEF SignalHandler, EndsBy
<1>6. CASE UNCHANGED vars
  BY <1>6 DEF vars
<1> QED
  BY <1>1, <1>2, <1>3, <1>4, <1>5, <1>6 DEF Next, MainThread, Ended

\* Construction goes on, is done, or ends the program.
LEMMA WiringSteps ==
    ASSUME WiringStep
    PROVE  main \in Building /\ main' \in Building \cup {"listen", "ended"} /\ config' = config
BY DEF WiringStep, CreatePhonebook, CreateDeskphoneCache, CreatePhonePlan, ConfigureHTTPButton,
       ConfigureHTTPStateButton, ConfigureHTTPNightButton, ConfigureHTTPParkButton, NextPhone,
       PlansDone, Serve, Goto, EndsBy, Building, wiring

LEMMA LifeInit == Init => LifeInv
BY DEF Init, LifeInv, Building, Shutdown

LEMMA LifeStep == LifeInv /\ [Next]_vars => LifeInv'
<1> SUFFICES ASSUME LifeInv, [Next]_vars PROVE LifeInv'
  OBVIOUS
<1> USE DEF LifeInv, Building, Shutdown
<1>1. CASE \/ GetApplicationParameters \/ LoadConfigFile \/ Daemonize \/ SetUserGroup
           \/ ConfigureSyslog \/ CreateHTTPServer
  BY <1>1 DEF GetApplicationParameters, LoadConfigFile, Daemonize, SetUserGroup,
              ConfigureSyslog, CreateHTTPServer, Either, Goto, EndsBy, life
<1>2. CASE Sigaction \/ CreateAMIConnection \/ CreateAmiPingThread
  BY <1>2 DEF Sigaction, CreateAMIConnection, CreateAmiPingThread, Either, Goto, EndsBy
<1>3. CASE WiringStep /\ UNCHANGED life
  BY <1>3, WiringSteps DEF life
<1>4. CASE Listen \/ ListenReturns \/ StopPing \/ NotifyAll
  BY <1>4 DEF Listen, ListenReturns, StopPing, NotifyAll, Goto, life
<1>5. CASE Join \/ Logoff \/ Destroy
  BY <1>5 DEF Join, Logoff, Destroy, Goto, life
<1>6. CASE PingThread \/ SpuriousWakeup
  BY <1>6 DEF PingThread, SpuriousWakeup, Ping, WaitPredicate, Block, WaitTimeout, While, PingGoto
<1>7. CASE SignalHandler
  BY <1>7 DEF SignalHandler, EndsBy
<1>8. CASE UNCHANGED vars
  BY <1>8 DEF vars, life
<1> QED
  BY <1>1, <1>2, <1>3, <1>4, <1>5, <1>6, <1>7, <1>8 DEF Next, MainThread, Ended

LEMMA PlansKept ==
    ASSUME BooksInv, PlansInv, UNCHANGED <<config, plans>>,
           BooksDone' = BooksDone, PhonesDone' = PhonesDone
    PROVE  BooksInv' /\ PlansInv'
<1>1. BooksInv'
  BY DEF BooksInv, BookIsRight
<1>2. \A phone : PhoneHasPlan(phone) => PhoneHasPlan(phone)'
  BY DEF PhoneHasPlan
<1>3. \A i \in PhonesDone' : PhoneHasPlan(config.phones[i])'
  <2> SUFFICES ASSUME NEW i \in PhonesDone PROVE PhoneHasPlan(config.phones[i])'
    OBVIOUS
  <2>1. PhoneHasPlan(config.phones[i])
    BY DEF PlansInv
  <2> QED
    BY <1>2, <2>1
<1>4. /\ \A p \in DOMAIN plans' : plans'[p].buttons = plans'[p].handlers
      /\ \A i, j \in PhonesDone' :
            Alike(config'.phones[i], config'.phones[j]) => i = j
  BY DEF PlansInv
<1>5. PlansInv'
  BY <1>3, <1>4 DEF PlansInv, Alike
<1> QED
  BY <1>1, <1>5

\* Nothing of what main has constructed is forgotten; of what it must not have done
\* before it serves, nothing is left when it has begun to stop.
LEMMA WiringKept ==
    ASSUME TypeOK, WiringInv, [Next]_vars, ~ (WiringStep /\ UNCHANGED life)
    PROVE  WiringInv'
<1>1. /\ UNCHANGED <<config, item, sub, adapters, routes, plans>>
      /\ \/ main' = main
         \/ main' \in Startup /\ main \in Startup
         \/ main = "ping" /\ main' = "phonebooks"
         \/ main = "listen" /\ main' = "serving"
         \/ main' \in Shutdown \cup {"ended"}
  BY OtherSteps DEF wiring
<1>2. RoutesInv'
  BY <1>1 DEF WiringInv, RoutesInv, RouteIsRight
<1>3. CASE main' = main
  <2>1. ItemInv'
    BY <1>1, <1>3 DEF WiringInv, ItemInv, ThisPhone
  <2>2. BooksDone' = BooksDone /\ PhonesDone' = PhonesDone /\ \A i : PathsDone(i)' = PathsDone(i)
    BY <1>1, <1>3 DEF BooksDone, PhonesDone, PathsDone
  <2>3. BooksInv' /\ PlansInv' /\ PathsInv'
    BY <1>1, <2>2, PlansKept DEF WiringInv, PathsInv, PathIsRight
  <2> QED
    BY <1>2, <2>1, <2>3 DEF WiringInv
<1>4. CASE main' \in Startup \cup Shutdown \cup {"ended"} /\ main' # main
  <2>1. BooksDone' = {} /\ PhonesDone' = {}
    BY <1>4 DEF BooksDone, PhonesDone, Startup, Shutdown
  <2>2. ItemInv'
    BY <1>1, <1>4 DEF WiringInv, ItemInv, Startup, Shutdown
  <2> QED
    BY <1>1, <1>2, <2>1, <2>2 DEF WiringInv, BooksInv, PlansInv, PathsInv
<1>5. CASE main = "ping" /\ main' = "phonebooks"
  <2>1. item' = 1
    BY <1>1, <1>5 DEF WiringInv, ItemInv, Startup
  <2>2. Len(config'.phonebooks) \in Nat
    BY <1>1, ConfigsAssumption, ListTypes DEF TypeOK
  <2>3. ItemInv'
    BY <1>5, <2>1, <2>2 DEF ItemInv, Startup
  <2>4. BooksDone' = {} /\ PhonesDone' = {}
    BY <1>5, <2>1 DEF BooksDone, PhonesDone
  <2> QED
    BY <1>1, <1>2, <2>3, <2>4 DEF WiringInv, BooksInv, PlansInv, PathsInv
<1>6. CASE main = "listen" /\ main' = "serving"
  <2>1. ItemInv'
    BY <1>6 DEF ItemInv, Startup
  <2>2. BooksDone' = BooksDone /\ PhonesDone' = PhonesDone /\ \A i : PathsDone(i)' = PathsDone(i)
    BY <1>1, <1>6 DEF BooksDone, PhonesDone, PathsDone
  <2>3. BooksInv' /\ PlansInv' /\ PathsInv'
    BY <1>1, <2>2, PlansKept DEF WiringInv, PathsInv, PathIsRight
  <2> QED
    BY <1>2, <2>1, <2>3 DEF WiringInv
<1> QED
  BY <1>1, <1>3, <1>4, <1>5, <1>6

-----------------------------------------------------------------------------
(* The steps of the construction                                           *)

\* The lists of the configuration are lists.
LEMMA ConfigTypes ==
    ASSUME TypeOK
    PROVE  /\ Len(config.phonebooks) \in Nat /\ DOMAIN config.phonebooks = 1 .. Len(config.phonebooks)
           /\ Len(config.phones) \in Nat /\ DOMAIN config.phones = 1 .. Len(config.phones)
           /\ \A i \in 1 .. Len(config.phones) :
                 /\ Len(config.phones[i].http_paths) \in Nat
                 /\ DOMAIN config.phones[i].http_paths = 1 .. Len(config.phones[i].http_paths)
<1>1. /\ IsList(config.phonebooks) /\ IsList(config.phones)
      /\ \A i \in DOMAIN config.phones : IsList(config.phones[i].http_paths)
  BY ConfigsAssumption DEF TypeOK
<1> QED
  BY <1>1, ListTypes

LEMMA EndKept ==
    ASSUME WiringInv, NEW how, EndsBy(how)
    PROVE  WiringInv'
<1>1. main' = "ended" /\ UNCHANGED <<config, item, sub, adapters, routes, plans>>
  BY DEF EndsBy, wiring
<1>2. BooksDone' = {} /\ PhonesDone' = {}
  BY <1>1 DEF BooksDone, PhonesDone
<1>3. ItemInv'
  BY <1>1 DEF ItemInv, Startup
<1>4. RoutesInv'
  BY <1>1 DEF WiringInv, RoutesInv, RouteIsRight
<1> QED
  BY <1>1, <1>2, <1>3, <1>4 DEF WiringInv, BooksInv, PlansInv, PathsInv

\* A route added to those there are, while no plan changes.
LEMMA RouteAdded ==
    ASSUME RoutesInv, NEW r, RouteIsRight(r), routes' = Append(routes, r), plans' = plans
    PROVE  RoutesInv'
<1>1. /\ IsList(routes') 
      /\ \A i \in DOMAIN routes' : (\E j \in DOMAIN routes : routes'[i] = routes[j]) \/ routes'[i] = r
  BY OneMore DEF RoutesInv
<1>2. \A x : RouteIsRight(x) => RouteIsRight(x)'
  BY DEF RouteIsRight
<1> QED
  BY <1>1, <1>2 DEF RoutesInv

LEMMA BookStep ==
    ASSUME TypeOK, WiringInv, CreatePhonebook
    PROVE  WiringInv'
<1>1. CASE \E how : EndsBy(how)
  BY <1>1, EndKept
<1>2. CASE ~ \E how : EndsBy(how)
  <2> DEFINE new == [kind |-> "phonebook", path |-> ThisBook.path, adapter |-> ThisBook.provider]
  <2>1. /\ main = "phonebooks" /\ item <= Len(config.phonebooks)
        /\ HasAdapter(ThisBook.provider) /\ "ttl" \in DOMAIN ThisBook
        /\ routes' = Append(routes, new) /\ item' = item + 1
        /\ main' = "phonebooks" /\ UNCHANGED <<config, sub, plans>>
    BY <1>2 DEF CreatePhonebook, Goto
  <2>2. item \in 1 .. Len(config.phonebooks) /\ Len(config.phonebooks) \in Nat
    BY <2>1, ConfigTypes DEF WiringInv, ItemInv, TypeOK
  <2>3. ItemInv'
    BY <2>1, <2>2 DEF ItemInv, Startup
  <2>4. BookIsRight(config.phonebooks[item])
    BY <2>1 DEF HasAdapter, ThisBook, BookIsRight, TypeOK
  <2>5. BooksDone' = 1 .. item /\ BooksDone = 1 .. item - 1 /\ PhonesDone' = {} /\ PhonesDone = {}
    BY <2>1, <2>2 DEF BooksDone, PhonesDone
  <2>6. \A i \in 1 .. item : i \in 1 .. item - 1 \/ i = item
    BY <2>2
  <2>7. BooksInv'
    BY <2>1, <2>4, <2>5, <2>6 DEF WiringInv, BooksInv, BookIsRight
  <2>8. RouteIsRight(new)
    BY DEF RouteIsRight
  <2>9. RoutesInv'
    BY <2>1, <2>8, RouteAdded DEF WiringInv
  <2> QED
    BY <2>1, <2>3, <2>5, <2>7, <2>9 DEF WiringInv, PlansInv, PathsInv
<1> QED
  BY <1>1, <1>2

LEMMA CacheStep ==
    ASSUME TypeOK, WiringInv, CreateDeskphoneCache
    PROVE  WiringInv'
<1> DEFINE new == [kind |-> "expire", path |-> config.expire_path]
<1>1. /\ main = "phonebooks" /\ item > Len(config.phonebooks)
      /\ routes' = IF config.expire_path = "" THEN routes ELSE Append(routes, new)
      /\ item' = 1 /\ main' = "phones" /\ UNCHANGED <<config, sub, plans>>
  BY DEF CreateDeskphoneCache, Goto
<1>2. Len(config.phonebooks) \in Nat /\ Len(config.phones) \in Nat
  BY ConfigTypes
<1>3. item = Len(config.phonebooks) + 1
  <2>1. item \in 1 .. Len(config.phonebooks) + 1 /\ item > Len(config.phonebooks)
    BY <1>1 DEF WiringInv, ItemInv
  <2> QED
    BY <1>2, <2>1
<1>4. ItemInv'
  <2>1. main' = "phones" /\ item' = 1 /\ Len(config'.phones) \in Nat
    BY <1>1, <1>2
  <2> QED
    BY <2>1 DEF ItemInv, Startup
<1>5. BooksDone' = BooksDone /\ PhonesDone' = {}
  <2>1. main' = "phones" /\ main = "phonebooks" /\ item' = 1 /\ config' = config
    BY <1>1
  <2> QED
    BY <1>2, <1>3, <2>1 DEF BooksDone, PhonesDone
<1>6. RouteIsRight(new)
  BY DEF RouteIsRight
<1>7. RoutesInv'
  <2>1. CASE routes' = routes
    BY <1>1, <2>1 DEF WiringInv, RoutesInv, RouteIsRight
  <2>2. CASE routes' = Append(routes, new)
    BY <1>1, <1>6, <2>2, RouteAdded DEF WiringInv
  <2> QED
    BY <1>1, <2>1, <2>2
<1>8. BooksInv'
  BY <1>1, <1>5 DEF WiringInv, BooksInv, BookIsRight
<1> QED
  BY <1>1, <1>4, <1>5, <1>7, <1>8 DEF WiringInv, PlansInv, PathsInv

\* A phone that brings a plan is the first to do so.
LEMMA PlanStep ==
    ASSUME TypeOK, WiringInv, CreatePhonePlan
    PROVE  WiringInv'
<1>1. CASE \E how : EndsBy(how)
  BY <1>1, EndKept
<1>2. CASE ~ \E how : EndsBy(how)
  <2> DEFINE name == ThisPhone.button_plan
             at == Named(config.button_plans, name)
             buttons == config.button_plans[at].buttons
             plan == [buttons |-> AddButtons(buttons), handlers |-> CreateEventHandlers(buttons),
                      ui |-> ThisPhone.name]
  <2>1. /\ main = "phones" /\ item <= Len(config.phones)
        /\ name \notin DOMAIN plans /\ at # 0
        /\ \A p \in DOMAIN plans : plans[p].ui # ThisPhone.name
        /\ plans' = [p \in DOMAIN plans \cup {name} |-> IF p = name THEN plan ELSE plans[p]]
        /\ sub' = 1 /\ main' = "paths" /\ UNCHANGED <<config, item, adapters, routes>>
    BY <1>2 DEF CreatePhonePlan, Goto, PlanInUse
  <2>2. /\ item \in 1 .. Len(config.phones) /\ Len(config.phones) \in Nat
        /\ Len(ThisPhone.http_paths) \in Nat
    BY <2>1, ConfigTypes DEF WiringInv, ItemInv, ThisPhone
  <2>3. ItemInv'
    BY <2>1, <2>2 DEF ItemInv, Startup, ThisPhone
  <2>4. plan.buttons = plan.handlers
    BY DEF AddButtons, CreateEventHandlers
  <2>5. plan.ui = ThisPhone.name /\ DOMAIN plan.handlers = {buttons[n].id : n \in DOMAIN buttons}
    BY DEF CreateEventHandlers, FirstById
  <2> HIDE DEF plan
  <2>6. /\ DOMAIN plans' = DOMAIN plans \cup {name} /\ plans'[name] = plan
        /\ \A p \in DOMAIN plans : plans'[p] = plans[p] /\ p # name
    BY <2>1
  <2>7. /\ PhonesDone' = 1 .. item /\ PhonesDone = 1 .. item - 1 /\ BooksDone' = BooksDone
        /\ PathsDone(item)' = 1 .. 0
        /\ \A i \in 1 .. item - 1 : PathsDone(i)' = PathsDone(i)
    BY <2>1, <2>2 DEF PhonesDone, BooksDone, PathsDone
  <2>8. \A i \in 1 .. item : i \in 1 .. item - 1 \/ i = item
    BY <2>2
  <2>9. BooksInv'
    BY <2>1, <2>7 DEF WiringInv, BooksInv, BookIsRight
  <2>a. UNCHANGED <<config, item>>
    BY <2>1
  <2>10. \A i \in 1 .. item - 1 : PhoneHasPlan(config.phones[i]) /\ PhoneHasPlan(config.phones[i])'
    <3>1. \A i \in 1 .. item - 1 : PhoneHasPlan(config.phones[i])
      BY <2>7 DEF WiringInv, PlansInv
    <3>2. ASSUME NEW phone, PhoneHasPlan(phone) PROVE PhoneHasPlan(phone)'
      BY <2>a, <2>6, <3>2 DEF PhoneHasPlan
    <3> QED
      BY <2>a, <3>1, <3>2
  <2>11. PhoneHasPlan(config.phones[item])'
    <3>1. /\ at # 0 /\ name \in DOMAIN plans' /\ plans'[name].ui = ThisPhone.name
          /\ DOMAIN plans'[name].handlers = {buttons[n].id : n \in DOMAIN buttons}
      BY <2>1, <2>5, <2>6
    <3>2. ASSUME NEW phone, phone = ThisPhone PROVE PhoneHasPlan(phone)'
      BY <2>a, <3>1, <3>2 DEF PhoneHasPlan
    <3> QED
      BY <2>a, <3>2 DEF ThisPhone
  <2>12. \A i \in 1 .. item - 1 : ~ Alike(config.phones[i], config.phones[item])
                                 /\ ~ Alike(config.phones[item], config.phones[i])
    <3>1. \A p \in DOMAIN plans : plans[p].ui # config.phones[item].name
      BY <2>1 DEF ThisPhone
    <3>2. config.phones[item].button_plan \notin DOMAIN plans
      BY <2>1 DEF ThisPhone
    <3>3. ASSUME NEW i \in 1 .. item - 1
          PROVE  /\ config.phones[i].button_plan \in DOMAIN plans
                 /\ plans[config.phones[i].button_plan].ui = config.phones[i].name
      <4>1. PhoneHasPlan(config.phones[i])
        BY <2>10
      <4> QED
        BY <4>1 DEF PhoneHasPlan
    <3> QED
      BY <3>1, <3>2, <3>3 DEF Alike
  <2>13. \A p \in DOMAIN plans' : plans'[p].buttons = plans'[p].handlers
    BY <2>4, <2>6 DEF WiringInv, PlansInv
  <2>14. PlansInv'
    <3>1. \A i \in PhonesDone' : PhoneHasPlan(config.phones[i])'
      BY <2>7, <2>8, <2>10, <2>11, <2>a
    <3>2. \A i, j \in 1 .. item - 1 : Alike(config.phones[i], config.phones[j]) => i = j
      BY <2>7 DEF WiringInv, PlansInv
    <3>3. \A i, j \in 1 .. item : Alike(config.phones[i], config.phones[j]) => i = j
      BY <2>8, <2>12, <3>2
    <3> QED
      BY <2>1, <2>7, <2>13, <3>1, <3>3 DEF PlansInv, Alike
  <2>15. PathsInv'
    <3> SUFFICES ASSUME NEW i \in 1 .. item, NEW k \in PathsDone(i)'
                 PROVE  PathIsRight(config.phones[i], config.phones[i].http_paths[k])'
      BY <2>1, <2>7 DEF PathsInv
    <3>1. i # item
      BY <2>7, <2>a
    <3>2. i \in 1 .. item - 1 /\ k \in PathsDone(i)
      BY <2>7, <2>8, <3>1
    <3>3. PathIsRight(config.phones[i], config.phones[i].http_paths[k])
      BY <2>7, <3>2 DEF WiringInv, PathsInv
    <3>4. config.phones[i].button_plan \in DOMAIN plans
      BY <2>10, <3>2 DEF PhoneHasPlan
    <3> QED
      BY <2>1, <2>6, <3>3, <3>4 DEF PathIsRight
  <2>16. RoutesInv'
    BY <2>1, <2>6 DEF WiringInv, RoutesInv, RouteIsRight
  <2> QED
    BY <2>3, <2>9, <2>14, <2>15, <2>16 DEF WiringInv
<1> QED
  BY <1>1, <1>2

\* The routes a path of the phone is given, if any, act on the button of its id.
LEMMA PathServed ==
    ASSUME WiringInv, main = "paths", item \in PhonesDone, ConfigureHTTPButton
    PROVE  \/ EndsBy("crashed")
           \/ \E new : /\ Serve(new) /\ IsList(new) /\ \A i \in DOMAIN new : RouteIsRight(new[i])
                       /\ PathIsRight(ThisPhone, ThisPath)
<1>1. PhoneHasPlan(ThisPhone) /\ \A p \in DOMAIN plans : plans[p].buttons = plans[p].handlers
  BY DEF WiringInv, PlansInv, ThisPhone
<1>2. /\ ThisPhone.button_plan \in DOMAIN plans
      /\ Plan.ui = ThisPhone.name /\ Plan.buttons = Plan.handlers
  BY <1>1 DEF PhoneHasPlan, Plan
<1>3. IsList(<<>>) /\ DOMAIN <<>> = {} /\ \A x : IsList(<<x>>) /\ DOMAIN <<x>> = {1} /\ <<x>>[1] = x
  <2>1. IsList(<<>>) /\ DOMAIN <<>> = {}
    BY EmptySeq DEF IsList
  <2>2. ASSUME NEW x PROVE IsList(<<x>>) /\ DOMAIN <<x>> = {1} /\ <<x>>[1] = x
    <3>1. DOMAIN <<x>> = {1} /\ <<x>>[1] = x
      OBVIOUS
    <3>2. x \in ToSet(<<x>>)
      BY <3>1 DEF ToSet
    <3> QED
      BY <3>1, <3>2 DEF IsList
  <2> QED
    BY <2>1, <2>2
<1>4. \A x, y : IsList(<<x, y>>) /\ DOMAIN <<x, y>> = {1, 2} /\ <<x, y>>[1] = x /\ <<x, y>>[2] = y
  <2> SUFFICES ASSUME NEW x, NEW y
               PROVE  IsList(<<x, y>>) /\ DOMAIN <<x, y>> = {1, 2} /\ <<x, y>>[1] = x /\ <<x, y>>[2] = y
    OBVIOUS
  <2>1. DOMAIN <<x, y>> = {1, 2} /\ <<x, y>>[1] = x /\ <<x, y>>[2] = y
    OBVIOUS
  <2>2. x \in ToSet(<<x, y>>) /\ y \in ToSet(<<x, y>>)
    BY <2>1 DEF ToSet
  <2> QED
    BY <2>1, <2>2 DEF IsList
<1>5. ASSUME NEW kind, NEW path, kind \notin {"night_button", "park_button"}
      PROVE  RouteIsRight(Route(kind, path))
  BY <1>5 DEF RouteIsRight, Route
<1>6. ASSUME NEW path, HasHandler PROVE RouteIsRight(Route(Handler.type, path))
  <2> DEFINE r == Route(Handler.type, path)
  <2>1. /\ r.plan = ThisPhone.button_plan /\ r.ui = ThisPhone.name /\ r.id = ThisPath.button_id
        /\ r.kind = Handler.type /\ r.target = Handler.target /\ {"kind", "path"} \subseteq DOMAIN r
    BY <1>6 DEF Route
  <2>2. plans[r.plan].buttons[r.id] = Handler
    BY <1>2, <2>1 DEF Handler, Plan
  <2> QED
    BY <1>2, <2>1, <2>2 DEF RouteIsRight, Plan
<1>7. CASE ConfigureHTTPStateButton
  <2>1. Serve(<<Route("state", ThisPath.path)>>) /\ PathIsRight(ThisPhone, ThisPath)
    BY <1>7 DEF ConfigureHTTPStateButton, PathIsRight
  <2>2. RouteIsRight(Route("state", ThisPath.path))
    BY <1>5
  <2> QED
    BY <1>3, <2>1, <2>2
<1>8. HasHandler => PathIsRight(ThisPhone, ThisPath)
  BY DEF HasHandler, Plan, PathIsRight
<1>9. CASE ConfigureHTTPNightButton
  <2>1. CASE ~HasHandler
    BY <1>9, <2>1 DEF ConfigureHTTPNightButton
  <2>2. CASE HasHandler /\ Handler.type = "night_button"
    <3>1. Serve(<<Route("night_button", ThisPath.path)>>)
      BY <1>9, <2>2 DEF ConfigureHTTPNightButton
    <3>2. RouteIsRight(Route("night_button", ThisPath.path))
      BY <1>6, <2>2
    <3> QED
      BY <1>3, <1>8, <2>2, <3>1, <3>2
  <2>3. CASE HasHandler /\ Handler.type # "night_button"
    <3>1. Serve(<<>>)
      BY <1>9, <2>3 DEF ConfigureHTTPNightButton
    <3> QED
      BY <1>3, <1>8, <2>3, <3>1
  <2> QED
    BY <2>1, <2>2, <2>3
<1>10. CASE ConfigureHTTPParkButton
  <2>1. CASE ~HasHandler
    BY <1>10, <2>1 DEF ConfigureHTTPParkButton
  <2>2. CASE HasHandler /\ Handler.type = "park_button"
    <3>1. Serve(<<Route("park_button", ThisPath.path), Route("park_info", ThisPath.info)>>)
      BY <1>10, <2>2 DEF ConfigureHTTPParkButton
    <3>2. RouteIsRight(Route("park_button", ThisPath.path)) /\ RouteIsRight(Route("park_info", ThisPath.info))
      BY <1>5, <1>6, <2>2
    <3> QED
      BY <1>4, <1>8, <2>2, <3>1, <3>2
  <2>3. CASE HasHandler /\ Handler.type # "park_button"
    <3>1. Serve(<<>>)
      BY <1>10, <2>3 DEF ConfigureHTTPParkButton
    <3> QED
      BY <1>3, <1>8, <2>3, <3>1
  <2> QED
    BY <2>1, <2>2, <2>3
<1> QED
  BY <1>7, <1>9, <1>10 DEF ConfigureHTTPButton

LEMMA PathStep ==
    ASSUME TypeOK, WiringInv, ConfigureHTTPButton
    PROVE  WiringInv'
<1>1. main = "paths" /\ sub <= Len(ThisPhone.http_paths)
  BY DEF ConfigureHTTPButton
<1>2. /\ item \in 1 .. Len(config.phones) /\ Len(config.phones) \in Nat
      /\ sub \in 1 .. Len(ThisPhone.http_paths) /\ Len(ThisPhone.http_paths) \in Nat
  BY <1>1, ConfigTypes DEF WiringInv, ItemInv, ThisPhone
<1>3. PhonesDone = 1 .. item /\ item \in 1 .. item
  BY <1>1, <1>2 DEF PhonesDone
<1>4. CASE EndsBy("crashed")
  BY <1>4, EndKept
<1>5. ASSUME NEW new, Serve(new), IsList(new), \A i \in DOMAIN new : RouteIsRight(new[i]),
             PathIsRight(ThisPhone, ThisPath)
      PROVE  WiringInv'
  <2>1. /\ routes' = routes \o new /\ sub' = sub + 1 /\ main' = "paths"
        /\ UNCHANGED <<config, item, plans>>
    BY <1>5 DEF Serve, Goto
  <2>2. ItemInv'
    BY <1>2, <2>1 DEF ItemInv, Startup, ThisPhone
  <2>3. BooksDone' = BooksDone /\ PhonesDone' = PhonesDone
        /\ PathsDone(item) = 1 .. sub - 1 /\ (\A i : i = item => PathsDone(i)' = 1 .. sub)
        /\ \A i : i # item => PathsDone(i)' = PathsDone(i)
    <3>1. /\ main = "paths" /\ main' = "paths" /\ UNCHANGED <<config, item>>
          /\ sub' - 1 = sub
      BY <1>1, <1>2, <2>1
    <3> QED
      BY <3>1 DEF BooksDone, PhonesDone, PathsDone
  <2>4. BooksInv' /\ PlansInv'
    BY <2>1, <2>3, PlansKept DEF WiringInv
  <2>5. \A k \in 1 .. sub : k \in 1 .. sub - 1 \/ k = sub
    BY <1>2
  <2>6. PathsInv'
    <3> SUFFICES ASSUME NEW i \in PhonesDone, NEW k \in PathsDone(i)'
                 PROVE  PathIsRight(config.phones[i], config.phones[i].http_paths[k])
      BY <2>1, <2>3 DEF PathsInv, PathIsRight
    <3>1. CASE i = item /\ k = sub
      BY <1>5, <3>1 DEF ThisPhone, ThisPath
    <3>2. CASE ~(i = item /\ k = sub)
      <4>1. k \in PathsDone(i)
        BY <2>3, <2>5, <3>2
      <4> QED
        BY <4>1 DEF WiringInv, PathsInv
    <3> QED
      BY <3>1, <3>2
  <2>7. RoutesInv'
    <3>1. /\ IsList(routes')
          /\ \A i \in DOMAIN routes' : \/ \E j \in DOMAIN routes : routes'[i] = routes[j]
                                       \/ \E j \in DOMAIN new : routes'[i] = new[j]
      BY <1>5, <2>1, Joined DEF WiringInv, RoutesInv
    <3>2. \A r : RouteIsRight(r) => RouteIsRight(r)'
      BY <2>1 DEF RouteIsRight
    <3> QED
      BY <1>5, <3>1, <3>2 DEF WiringInv, RoutesInv
  <2> QED
    BY <2>2, <2>4, <2>6, <2>7 DEF WiringInv
<1> QED
  BY <1>1, <1>3, <1>4, <1>5, PathServed

LEMMA NextPhoneStep ==
    ASSUME TypeOK, WiringInv, NextPhone \/ PlansDone
    PROVE  WiringInv'
<1>1. UNCHANGED <<config, plans, routes>>
  BY DEF NextPhone, PlansDone, wiring
<1>2. RoutesInv'
  BY <1>1 DEF WiringInv, RoutesInv, RouteIsRight
<1>3. ItemInv' /\ BooksDone' = BooksDone /\ PhonesDone' = PhonesDone
      /\ \A i \in PhonesDone : PathsDone(i)' = PathsDone(i)
  <2>1. CASE NextPhone
    <3>1. /\ main = "paths" /\ main' = "phones" /\ item' = item + 1
          /\ sub > Len(ThisPhone.http_paths) /\ config' = config
      BY <2>1 DEF NextPhone, Goto
    <3>2. /\ item \in 1 .. Len(config.phones) /\ Len(config.phones) \in Nat
          /\ sub \in 1 .. Len(ThisPhone.http_paths) + 1 /\ Len(ThisPhone.http_paths) \in Nat
      BY <3>1, ConfigTypes DEF WiringInv, ItemInv, ThisPhone
    <3>3. sub - 1 = Len(config.phones[item].http_paths) /\ item' - 1 = item
      BY <3>1, <3>2 DEF ThisPhone
    <3>4. ItemInv'
      BY <3>1, <3>2 DEF ItemInv, Startup
    <3>5. BooksDone' = BooksDone /\ PhonesDone' = PhonesDone
      BY <3>1, <3>3 DEF BooksDone, PhonesDone
    <3>6. \A i : PathsDone(i)' = PathsDone(i)
      BY <3>1, <3>3 DEF PathsDone
    <3> QED
      BY <3>4, <3>5, <3>6
  <2>2. CASE PlansDone
    <3>1. main = "phones" /\ main' = "listen" /\ item > Len(config.phones) /\ config' = config
      BY <2>2 DEF PlansDone, Goto, wiring
    <3>2. item \in 1 .. Len(config.phones) + 1 /\ Len(config.phones) \in Nat
      BY <3>1, ConfigTypes DEF WiringInv, ItemInv
    <3>3. item - 1 = Len(config.phones)
      BY <3>1, <3>2
    <3> QED
      BY <3>1, <3>3 DEF ItemInv, Startup, BooksDone, PhonesDone, PathsDone
  <2> QED
    BY <2>1, <2>2
<1>4. BooksInv' /\ PlansInv'
  BY <1>1, <1>3, PlansKept DEF WiringInv
<1>5. PathsInv'
  BY <1>1, <1>3 DEF WiringInv, PathsInv, PathIsRight
<1> QED
  BY <1>2, <1>3, <1>4, <1>5 DEF WiringInv

LEMMA WiringStepKept == TypeOK /\ WiringInv /\ [Next]_vars => WiringInv'
BY WiringKept, BookStep, CacheStep, PlanStep, PathStep, NextPhoneStep DEF WiringStep

LEMMA WiringStart == Init => WiringInv
<1> SUFFICES ASSUME Init PROVE WiringInv
  OBVIOUS
<1>1. main = "args" /\ item = 1 /\ routes = <<>> /\ plans = <<>>
  BY DEF Init, WiringInit
<1>2. DOMAIN routes = {} /\ DOMAIN plans = {} /\ IsList(routes)
  BY <1>1, EmptySeq DEF IsList
<1>3. BooksDone = {} /\ PhonesDone = {}
  BY <1>1 DEF BooksDone, PhonesDone
<1>4. ItemInv
  BY <1>1 DEF ItemInv
<1> QED
  BY <1>2, <1>3, <1>4 DEF WiringInv, BooksInv, PlansInv, PathsInv, RoutesInv

-----------------------------------------------------------------------------
(* Types                                                                   *)

LEMMA TypeInit == Init => TypeOK
<1> SUFFICES ASSUME Init PROVE TypeOK
  OBVIOUS
<1>1. config \in Configs /\ item = 1 /\ sub = 1 /\ adapters = {} /\ routes = <<>>
  BY DEF Init, WiringInit
<1>2. DOMAIN routes = {} /\ item \in Nat /\ sub \in Nat /\ adapters \subseteq config.providers
  BY <1>1
<1>3. /\ main = "args" /\ outcome = "running" /\ handler = FALSE /\ server = "none"
      /\ connection = "none" /\ thread_run_flag = TRUE /\ ping = "none" /\ told = FALSE
  BY DEF Init
<1> QED
  BY <1>1, <1>2, <1>3 DEF TypeOK, Startup

LEMMA TypeStep == TypeOK /\ LifeInv /\ RoutesInv' /\ [Next]_vars => TypeOK'
<1> SUFFICES ASSUME TypeOK, LifeInv, RoutesInv', [Next]_vars PROVE TypeOK'
  OBVIOUS
<1>a. \A i \in DOMAIN routes' : {"kind", "path"} \subseteq DOMAIN routes'[i]
  BY DEF RoutesInv, RouteIsRight
<1> USE DEF TypeOK, Startup, Building, Shutdown
<1>1. CASE WiringStep /\ UNCHANGED life
  <2>1. /\ main' \in Building \cup {"listen", "ended"} /\ main # "serving" /\ config' = config
    BY <1>1, WiringSteps
  <2>2. outcome' \in {"running", "success", "failure", "killed", "terminated", "crashed",
                     "aborted"}
    BY <1>1 DEF WiringStep, CreatePhonebook, CreateDeskphoneCache, CreatePhonePlan, ConfigureHTTPButton,
       ConfigureHTTPStateButton, ConfigureHTTPNightButton, ConfigureHTTPParkButton, NextPhone,
       PlansDone, Serve, Goto, EndsBy
  <2>3. item' \in Nat /\ sub' \in Nat
    <3>1. item' \in {item, item + 1, 1} /\ sub' \in {sub, sub + 1, 1}
      <4>1. CASE CreatePhonebook \/ CreateDeskphoneCache
        BY <4>1 DEF CreatePhonebook, CreateDeskphoneCache, EndsBy, wiring
      <4>2. CASE CreatePhonePlan
        BY <4>2 DEF CreatePhonePlan, EndsBy, wiring
      <4>3. CASE ConfigureHTTPButton
        BY <4>3 DEF ConfigureHTTPButton, ConfigureHTTPStateButton, ConfigureHTTPNightButton,
                    ConfigureHTTPParkButton, Serve, EndsBy, wiring
      <4>4. CASE NextPhone \/ PlansDone
        BY <4>4 DEF NextPhone, PlansDone, wiring
      <4> QED
        BY <1>1, <4>1, <4>2, <4>3, <4>4 DEF WiringStep
    <3>2. item \in Nat /\ sub \in Nat
      BY DEF TypeOK
    <3> QED
      BY <3>1, <3>2
  <2>4. adapters' \subseteq config.providers
    BY <1>1 DEF WiringStep, CreatePhonebook, CreateDeskphoneCache, CreatePhonePlan, ConfigureHTTPButton,
       ConfigureHTTPStateButton, ConfigureHTTPNightButton, ConfigureHTTPParkButton, NextPhone,
       PlansDone, Serve, EndsBy, HasAdapter, wiring
  <2> QED
    BY <1>a, <1>1, <2>1, <2>2, <2>3, <2>4 DEF life
<1>2. CASE ~ (WiringStep /\ UNCHANGED life)
  <2>1. UNCHANGED <<config, item, sub, adapters, routes, plans>>
    BY <1>2, OtherSteps DEF wiring
  <2>2. /\ main' \in Startup \cup Building \cup {"listen", "serving"} \cup Shutdown \cup {"ended"}
        /\ outcome' \in {"running", "success", "failure", "killed", "terminated", "crashed",
                     "aborted"}
        /\ handler' \in BOOLEAN /\ told' \in BOOLEAN /\ thread_run_flag' \in BOOLEAN
        /\ server' \in {"none", "created", "listening", "stopped"}
        /\ server' = "listening" => main' = "serving"
        /\ connection' \in {"none", "connected", "logged_off"}
        /\ ping' \in {"none", "invoke", "predicate", "block", "sleep", "check", "done"}
    <3>1. CASE \/ GetApplicationParameters \/ LoadConfigFile \/ Daemonize \/ SetUserGroup
               \/ ConfigureSyslog \/ CreateHTTPServer
      BY <3>1 DEF GetApplicationParameters, LoadConfigFile, Daemonize, SetUserGroup,
                  ConfigureSyslog, CreateHTTPServer, Either, Goto, EndsBy, life
    <3>2. CASE Sigaction \/ CreateAMIConnection \/ CreateAmiPingThread
      BY <3>2 DEF Sigaction, CreateAMIConnection, CreateAmiPingThread, Either, Goto, EndsBy
    <3>3. CASE Listen \/ ListenReturns
      BY <3>3 DEF Listen, ListenReturns, Goto, life
    <3>4. CASE StopPing \/ NotifyAll \/ Join \/ Logoff \/ Destroy
      BY <3>4 DEF StopPing, NotifyAll, Join, Logoff, Destroy, Goto, life
    <3>5. CASE PingThread \/ SpuriousWakeup
      BY <3>5 DEF PingThread, SpuriousWakeup, Ping, WaitPredicate, Block, WaitTimeout, While, PingGoto
    <3>6. CASE SignalHandler
      BY <3>6 DEF SignalHandler, EndsBy, LifeInv
    <3>7. CASE UNCHANGED vars
      BY <3>7 DEF vars, life
    <3> QED
      BY <1>2, <3>1, <3>2, <3>3, <3>4, <3>5, <3>6, <3>7 DEF Next, MainThread, Ended
  <2> QED
    BY <1>a, <2>1, <2>2
<1> QED
  BY <1>1, <1>2

-----------------------------------------------------------------------------
(* The theorems                                                            *)

\* The inductive invariant holds in every state.
THEOREM Invariance == Spec => []IInv
<1>1. Init => IInv
  BY TypeInit, LifeInit, WiringStart DEF IInv
<1>2. IInv /\ [Next]_vars => IInv'
  <2> SUFFICES ASSUME IInv, [Next]_vars PROVE IInv'
    OBVIOUS
  <2>1. WiringInv' /\ LifeInv'
    BY WiringStepKept, LifeStep DEF IInv
  <2>2. TypeOK'
    BY <2>1, TypeStep DEF IInv, WiringInv
  <2> QED
    BY <2>1, <2>2 DEF IInv
<1> QED
  BY <1>1, <1>2, PTL DEF Spec

\* Every variable keeps its type; providers are created for phonebooks only from
\* those of the configuration, and the server listens only while main serves.
THEOREM TypeCorrect == Spec => []TypeOK
<1>1. IInv => TypeOK
  BY DEF IInv
<1> QED
  BY <1>1, Invariance, PTL

\* Whatever lists the configuration has: main gets to listen only with one whose
\* references all lead somewhere, each phone with a name and a plan of its own. The
\* others end the program in createPhonebooks, createPhonePlans or configureHTTP*,
\* though not always in an orderly way.
THEOREM ServedAreConsistent == Spec => []OnlyConsistentIsServed
<1>1. IInv => OnlyConsistentIsServed
  <2> SUFFICES ASSUME IInv, main \in {"listen", "serving"} PROVE Consistent(config)
    BY DEF OnlyConsistentIsServed
  <2> DEFINE phones == config.phones
  <2>1. BooksDone = 1 .. Len(config.phonebooks) /\ PhonesDone = 1 .. Len(phones)
        /\ \A i \in PhonesDone : PathsDone(i) = 1 .. Len(phones[i].http_paths)
    BY DEF BooksDone, PhonesDone, PathsDone
  <2>2. /\ DOMAIN config.phonebooks = 1 .. Len(config.phonebooks)
        /\ DOMAIN phones = 1 .. Len(phones)
        /\ \A i \in 1 .. Len(phones) : DOMAIN phones[i].http_paths = 1 .. Len(phones[i].http_paths)
    BY ConfigTypes DEF IInv
  <2>3. \A i \in DOMAIN config.phonebooks : /\ config.phonebooks[i].provider \in config.providers
                                            /\ "ttl" \in DOMAIN config.phonebooks[i]
    BY <2>1, <2>2 DEF IInv, WiringInv, BooksInv, BookIsRight
  <2>4. \A i, j \in DOMAIN phones : Alike(phones[i], phones[j]) => i = j
    BY <2>1, <2>2 DEF IInv, WiringInv, PlansInv
  <2>5. Distinct(phones, LAMBDA p : p.name) /\ Distinct(phones, LAMBDA p : p.button_plan)
    BY <2>4 DEF Distinct, Alike
  <2>6. ASSUME NEW i \in DOMAIN phones
        PROVE  LET at == Named(config.button_plans, phones[i].button_plan)
               IN  /\ at # 0
                   /\ \A k \in DOMAIN phones[i].http_paths :
                        phones[i].http_paths[k].type # "http_state" =>
                            \E n \in DOMAIN config.button_plans[at].buttons :
                                config.button_plans[at].buttons[n].id
                                  = phones[i].http_paths[k].button_id
    <3>1. PhoneHasPlan(phones[i])
      BY <2>1, <2>2 DEF IInv, WiringInv, PlansInv
    <3>2. \A k \in DOMAIN phones[i].http_paths : PathIsRight(phones[i], phones[i].http_paths[k])
      BY <2>1, <2>2 DEF IInv, WiringInv, PathsInv
    <3> QED
      BY <3>1, <3>2 DEF PhoneHasPlan, PathIsRight
  <2> QED
    BY <2>3, <2>5, <2>6 DEF Consistent
<1> QED
  BY <1>1, Invariance, PTL

\* A path acts on a button of its type, in the plan of the phone it was configured
\* for, with the device or lot of that button: of two buttons with one id, addButton
\* (in a build whose assertion does not end the program) and addEventHandler both
\* keep the first.
THEOREM PathsActRight == Spec => []PathsActOnTheirButtons
<1>1. IInv => PathsActOnTheirButtons
  BY DEF IInv, WiringInv, RoutesInv, RouteIsRight, PathsActOnTheirButtons
<1> QED
  BY <1>1, Invariance, PTL

\* main logs off when the ping thread has ended: it cannot ping any more.
THEOREM PingEnds == Spec => []PingEndsFirst
<1>1. IInv => PingEndsFirst
  BY DEF IInv, LifeInv, PingEndsFirst
<1> QED
  BY <1>1, Invariance, PTL
=============================================================================
