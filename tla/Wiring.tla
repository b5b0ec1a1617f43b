------------------------------- MODULE Wiring -------------------------------
(***************************************************************************)
(* What main makes of the configuration (src/src/ConfigFileParser.cpp):    *)
(* phonebooks, the URI of the deskphone cache, button plans with their     *)
(* handlers and the UI of a phone, and the paths of the HTTP server that   *)
(* act on them.  One step for each element of a list in the configuration; *)
(* some end the program.  Lifecycle has the rest of main.                  *)
(*                                                                         *)
(* A configuration is a record:                                            *)
(*   providers      names of phonebook providers                           *)
(*   phonebooks     sequence of [path, provider, type] and ttl, if given   *)
(*   expire_path    the path, or "" for none                               *)
(*   button_plans   sequence of [name, buttons], a button being            *)
(*                  [id, type, target] with its hint or parking lot        *)
(*   phones         sequence of [name, button_plan, http_paths], a path    *)
(*                  being [type, button_id, path, info]                    *)
(***************************************************************************)
EXTENDS Integers, SequencesExt

CONSTANT Configs

IsList(seq) == seq \in Seq(ToSet(seq))

ASSUME ConfigsAssumption ==
    \A c \in Configs : /\ IsList(c.phonebooks) /\ IsList(c.phones)
                       /\ \A i \in DOMAIN c.phones : IsList(c.phones[i].http_paths)

VARIABLES
    main,      \* where the main thread is
    outcome,   \* how the program ended, or that it runs
    config,
    item,      \* the element of the list main is at ...
    sub,       \* ... and the element of the list in it
    adapters,  \* providers created for phonebooks
    routes,    \* GET handlers of the server, in their order
    plans      \* button_plans: what each plan in use is made of

wiring == <<config, item, sub, adapters, routes, plans>>

\* The program ends with exit(EXIT_FAILURE), by an exception while a thread of
\* main is not joined, by following a null pointer, or by an assertion.
EndsBy(how) == main' = "ended" /\ outcome' = how /\ UNCHANGED wiring
Goto(at) == main' = at /\ outcome' = outcome

Distinct(seq, field(_)) ==
    \A i, j \in DOMAIN seq : field(seq[i]) = field(seq[j]) => i = j

Named(seq, name) == SelectInSeq(seq, LAMBDA e : e.name = name)
Paths(kind) == SelectSeq(routes, LAMBDA r : r.kind = kind)

-----------------------------------------------------------------------------
(* createPhonebooks, createDeskphoneCache                                  *)

ThisBook == config.phonebooks[item]

\* Faulty variant: providers are looked for among those in use.
HasAdapter_InUse(name) == name \in adapters

\* A provider is created when a phonebook first asks for it.
HasAdapter(name) == name \in adapters \cup config.providers

CreatePhonebook ==
    /\ main = "phonebooks" /\ item <= Len(config.phonebooks)
    /\ \/ ~HasAdapter(ThisBook.provider) /\ EndsBy("failure")
       \/ /\ HasAdapter(ThisBook.provider)
          /\ IF "ttl" \in DOMAIN ThisBook
             THEN /\ adapters' = adapters \cup {ThisBook.provider}
                  /\ routes' = Append(routes, [kind |-> "phonebook", path |-> ThisBook.path,
                                               adapter |-> ThisBook.provider])
                  /\ item' = item + 1
                  /\ Goto("phonebooks") /\ UNCHANGED <<config, sub, plans>>
             ELSE EndsBy("terminated")

CreateDeskphoneCache ==
    /\ main = "phonebooks" /\ item > Len(config.phonebooks)
    /\ routes' = IF config.expire_path = "" THEN routes
                 ELSE Append(routes, [kind |-> "expire", path |-> config.expire_path])
    /\ item' = 1
    /\ Goto("phones") /\ UNCHANGED <<config, sub, adapters, plans>>

-----------------------------------------------------------------------------
(* createPhonePlans                                                        *)

ThisPhone == config.phones[item]
ThisPath == ThisPhone.http_paths[sub]

\* An id that is already there stays what it is.
FirstById(buttons) ==
    [id \in {buttons[n].id : n \in DOMAIN buttons} |->
        buttons[SelectInSeq(buttons, LAMBDA b : b.id = id)]]

\* addButton for each button; its assertion fails if an id is there already.
AddButtons(buttons) == FirstById(buttons)
AddButtonsAsserts(buttons) == ~Distinct(buttons, LAMBDA b : b.id)

\* Faulty variant: a handler replaces the one that has its id.
CreateEventHandlers_Last(buttons) ==
    [id \in {buttons[n].id : n \in DOMAIN buttons} |->
        buttons[SelectLastInSeq(buttons, LAMBDA b : b.id = id)]]

\* One handler for each button, of the kind of its type.
CreateEventHandlers(buttons) == FirstById(buttons)

\* Faulty variant: a plan of another phone is used once more.
PlanInUse_Shared(name) == FALSE

PlanInUse(name) == name \in DOMAIN plans

\* A phone brings its plan, with buttons and handlers, and is its only UI.  A build
\* with assertions ends at buttons of one id; one without keeps the first.
CreatePhonePlan ==
    /\ main = "phones" /\ item <= Len(config.phones)
    /\ LET name == ThisPhone.button_plan
           at == Named(config.button_plans, name)
           buttons == config.button_plans[at].buttons
           plan == [buttons |-> AddButtons(buttons), handlers |-> CreateEventHandlers(buttons),
                    ui |-> ThisPhone.name]
       IN  IF PlanInUse(name) \/ at = 0
           THEN EndsBy("failure")
           ELSE \/ AddButtonsAsserts(buttons) /\ EndsBy("aborted")
                \/ IF \E p \in DOMAIN plans : plans[p].ui = ThisPhone.name
                   THEN EndsBy("failure")
                   ELSE /\ plans' = [p \in DOMAIN plans \cup {name} |->
                                        IF p = name THEN plan ELSE plans[p]]
                        /\ sub' = 1
                        /\ Goto("paths") /\ UNCHANGED <<config, item, adapters, routes>>

\* getEventHandler and getButton of the phone's plan.
Plan == plans[ThisPhone.button_plan]
HasHandler == ThisPath.button_id \in DOMAIN Plan.handlers
Handler == Plan.handlers[ThisPath.button_id]

Route(kind, path) ==
    [kind |-> kind, path |-> path, ui |-> ThisPhone.name, plan |-> ThisPhone.button_plan,
     id |-> ThisPath.button_id, target |-> IF HasHandler THEN Handler.target ELSE "none"]

Serve(new) ==
    /\ routes' = routes \o new
    /\ sub' = sub + 1
    /\ Goto("paths") /\ UNCHANGED <<config, item, adapters, plans>>

ConfigureHTTPStateButton ==
    /\ ThisPath.type = "http_state"
    /\ Serve(<<Route("state", ThisPath.path)>>)

\* The handler is asked for its type, without a look whether there is one; a
\* path whose handler is of another type is not served.
ConfigureHTTPNightButton ==
    /\ ThisPath.type = "http_night"
    /\ IF HasHandler
       THEN Serve(IF Handler.type = "night_button"
                  THEN <<Route("night_button", ThisPath.path)>> ELSE <<>>)
       ELSE EndsBy("crashed")

ConfigureHTTPParkButton ==
    /\ ThisPath.type = "http_park"
    /\ IF HasHandler
       THEN Serve(IF Handler.type = "park_button"
                  THEN <<Route("park_button", ThisPath.path),
                         Route("park_info", ThisPath.info)>> ELSE <<>>)
       ELSE EndsBy("crashed")

ConfigureHTTPButton ==
    /\ main = "paths" /\ sub <= Len(ThisPhone.http_paths)
    /\ ConfigureHTTPStateButton \/ ConfigureHTTPNightButton \/ ConfigureHTTPParkButton

NextPhone ==
    /\ main = "paths" /\ sub > Len(ThisPhone.http_paths)
    /\ item' = item + 1
    /\ Goto("phones") /\ UNCHANGED <<config, sub, adapters, routes, plans>>

\* createRegisterEventHandler goes on with the plans (PhoneRegistration).
PlansDone ==
    /\ main = "phones" /\ item > Len(config.phones)
    /\ Goto("listen") /\ UNCHANGED wiring

-----------------------------------------------------------------------------

WiringInit ==
    /\ config \in Configs
    /\ item = 1 /\ sub = 1
    /\ adapters = {} /\ routes = <<>> /\ plans = <<>>

WiringStep == CreatePhonebook \/ CreateDeskphoneCache \/ CreatePhonePlan
              \/ ConfigureHTTPButton \/ NextPhone \/ PlansDone

-----------------------------------------------------------------------------
(* What a configuration must be like                                       *)

\* Names lead somewhere, a phone has a name and a plan of its own, and a path
\* that needs a button finds one.
Consistent(c) ==
    /\ \A i \in DOMAIN c.phonebooks : c.phonebooks[i].provider \in c.providers
                                      /\ "ttl" \in DOMAIN c.phonebooks[i]
    /\ Distinct(c.phones, LAMBDA p : p.name)
    /\ Distinct(c.phones, LAMBDA p : p.button_plan)
    /\ \A i \in DOMAIN c.phones :
         LET phone == c.phones[i]
             at == Named(c.button_plans, phone.button_plan)
         IN  /\ at # 0
             /\ \A k \in DOMAIN phone.http_paths :
                  phone.http_paths[k].type # "http_state" =>
                      \E n \in DOMAIN c.button_plans[at].buttons :
                          c.button_plans[at].buttons[n].id = phone.http_paths[k].button_id

\* The buttons of the plans in use have ids of their own.
OwnIds(c) ==
    \A i \in DOMAIN c.phones :
        LET at == Named(c.button_plans, c.phones[i].button_plan)
        IN  at # 0 => ~AddButtonsAsserts(c.button_plans[at].buttons)

\* What the schema of a phonebook path asks for: it knows expiry, not ttl.
ConformsToSchema(c) ==
    \A i \in DOMAIN c.phonebooks :
        /\ {"path", "provider"} \subseteq DOMAIN c.phonebooks[i]
        /\ DOMAIN c.phonebooks[i] \subseteq {"path", "provider", "type", "expiry"}
=============================================================================
