----------------------------- MODULE ButtonPlan -----------------------------
(***************************************************************************)
(* button_state::ButtonPlan with its buttons and the phone UIs it renders  *)
(* to: src/src/button_state and src/src/bridge.                            *)
(*                                                                         *)
(* Two threads work on a plan.  The AMI thread delivers the events of the  *)
(* Asterisk server one at a time: an event of an event handler calls       *)
(* PhoneButton::setOn, which invalidates the plan when the button changed; *)
(* a SuccessfulAuth event makes RegisterEventHandler publish the plan's    *)
(* page to one phone.  The main thread meanwhile registers the UIs.  The   *)
(* plan's shared mutex phone_uis_mut_ is the only synchronisation between  *)
(* them; the flags of the buttons are read without it.  invalidate renders *)
(* its UIs in parallel, and a rendering reads the buttons one by one, and  *)
(* each of them twice: for the LED and for the critical flag.              *)
(***************************************************************************)
EXTENDS LampPages, FiniteSets

VARIABLES
    lamps,        \* the buttons whose button_on_ is true
    phone_uis,    \* ButtonPlan::phone_uis_
    cached,       \* cached_button_state_ of each UI
    sharers,      \* the threads that hold phone_uis_mut_ shared
    owner,        \* the threads that hold phone_uis_mut_ exclusively
    ami,          \* where the AMI thread is
    auth,         \* the registration being published: its phone, and if it is new
    targets,      \* UIs still to be visited by publishPhoneState
    work,         \* what the AMI thread, or a worker of its for_each, does for a UI
    draft,        \* the page a thread is rendering for a UI
    action,       \* the page put in a UI's PJSIPNotify action
    unsent,       \* the phones the action of a UI is still to be sent to
    main,         \* where the main thread is
    new_ui,       \* the UI the main thread registers, or registered last
    display       \* the last page notified to each phone by each UI

vars == <<lamps, phone_uis, cached, sharers, owner, ami, auth, targets, work,
          draft, action, unsent, main, new_ui, display>>

lockVars == <<sharers, owner>>
mainVars == <<main, new_ui>>
authVars == <<auth, targets>>
sendVars == <<action, unsent, display>>

Threads == {"ami", "main"}

\* A page under construction: the buttons whose LED was read, those whose
\* critical flag was read too, and what the reads found.
Drafts == [led_read : SUBSET Buttons, crit_read : SUBSET Buttons,
           lit : SUBSET Buttons, critical : BOOLEAN]

EmptyDraft == [led_read |-> {}, crit_read |-> {}, lit |-> {}, critical |-> FALSE]

TypeOK ==
    /\ lamps \in SUBSET Buttons
    /\ phone_uis \in SUBSET UIs
    /\ cached \in [UIs -> Pages \cup {Blank}]
    /\ sharers \in SUBSET {"ami"}
    /\ owner \in SUBSET Threads
    /\ ami \in {"idle", "lock_shared", "invalidate", "lock", "publish"}
    /\ auth \in [aor : AoRs, new : BOOLEAN]
    /\ targets \in SUBSET UIs
    /\ work \in [UIs -> {"render", "check", "initialize", "notify", "done"}]
    /\ draft \in [Threads -> [UIs -> Drafts]]
    /\ action \in [UIs -> Pages \cup {Blank}]
    /\ unsent \in [UIs -> SUBSET AoRs]
    /\ main \in {"idle", "render", "unlock"}
    /\ new_ui \in UIs
    /\ display \in [UIs -> [AoRs -> Pages \cup {Blank}]]

Init ==
    /\ lamps = {}
    /\ phone_uis = {}
    /\ cached = [u \in UIs |-> Blank]
    /\ sharers = {} /\ owner = {}
    /\ ami = "idle"
    /\ auth \in [aor : AoRs, new : {FALSE}]
    /\ targets = {}
    /\ work = [u \in UIs |-> "done"]
    /\ draft = [t \in Threads |-> [u \in UIs |-> EmptyDraft]]
    /\ action = [u \in UIs |-> Blank]
    /\ unsent = [u \in UIs |-> {}]
    /\ main = "idle"
    /\ new_ui \in UIs
    /\ display = [u \in UIs |-> [a \in AoRs |-> Blank]]

-----------------------------------------------------------------------------
(* std::shared_mutex phone_uis_mut_                                        *)

\* Faulty variants, for the sensitivity of the properties: invalidate takes no
\* lock; getPhoneUIs and registerUI do not exclude each other.
CanShare_Always        == TRUE
CanOwn_IgnoringOwner   == sharers = {}

CanShare == owner = {}
CanOwn   == owner = {} /\ sharers = {}

-----------------------------------------------------------------------------
(* PhoneUI::update, run by thread t for UI u                               *)

\* The LED of a button: toButtonStateString reads isOn().
ReadLed(t, u, b) ==
    LET d == draft[t][u] IN
    /\ d.led_read = d.crit_read
    /\ b \notin d.led_read
    /\ draft' = [draft EXCEPT ![t][u] =
                    [d EXCEPT !.led_read = @ \cup {b},
                              !.lit = IF b \in lamps THEN @ \cup {b} ELSE @]]

\* Faulty variant: critical = ... instead of critical |= ...
ReadCritical_Overwriting(t, u, b) ==
    LET d == draft[t][u] IN
    /\ b \in d.led_read \ d.crit_read
    /\ draft' = [draft EXCEPT ![t][u] =
                    [d EXCEPT !.crit_read = @ \cup {b},
                              !.critical = IsCritical(lamps, b)]]

\* Its critical flag: isCritical() reads button_on_ once more.
ReadCritical(t, u, b) ==
    LET d == draft[t][u] IN
    /\ b \in d.led_read \ d.crit_read
    /\ draft' = [draft EXCEPT ![t][u] =
                    [d EXCEPT !.crit_read = @ \cup {b},
                              !.critical = @ \/ IsCritical(lamps, b)]]

Render(t, u) == \E b \in Buttons : ReadLed(t, u, b) \/ ReadCritical(t, u, b)

\* setPhoneState with the finished page, which ends the rendering.
SetPhoneState(t, u) ==
    LET d == draft[t][u] IN
    /\ d.crit_read = Buttons
    /\ cached' = [cached EXCEPT ![u] = [lit |-> d.lit, critical |-> d.critical]]
    /\ draft' = [draft EXCEPT ![t][u] = EmptyDraft]

-----------------------------------------------------------------------------
(* The AMI thread: a button changes                                        *)

\* Faulty variant: only a button that is lit invalidates the plan.
SetOn_Lighting(b, on) ==
    /\ ami = "idle"
    /\ lamps' = IF on THEN lamps \cup {b} ELSE lamps \ {b}
    /\ ami' = IF on /\ b \notin lamps THEN "lock_shared" ELSE "idle"
    /\ UNCHANGED <<phone_uis, cached, lockVars, authVars, work, draft,
                   sendVars, mainVars>>

\* PhoneButton::setOn: only a flag that changes invalidates the plan.
SetOn(b, on) ==
    /\ ami = "idle"
    /\ lamps' = IF on THEN lamps \cup {b} ELSE lamps \ {b}
    /\ ami' = IF on # (b \in lamps) THEN "lock_shared" ELSE "idle"
    /\ UNCHANGED <<phone_uis, cached, lockVars, authVars, work, draft,
                   sendVars, mainVars>>

\* Faulty variant: the cached pages are published without ui->update.
Invalidate_WithoutUpdate ==
    /\ ami = "lock_shared"
    /\ CanShare
    /\ sharers' = sharers \cup {"ami"}
    /\ work' = [u \in UIs |-> IF u \in phone_uis THEN "initialize" ELSE "done"]
    /\ ami' = "invalidate"
    /\ UNCHANGED <<lamps, phone_uis, cached, owner, authVars, draft, sendVars,
                   mainVars>>

\* ButtonPlan::invalidate takes the mutex shared and visits every UI.
Invalidate ==
    /\ ami = "lock_shared"
    /\ CanShare
    /\ sharers' = sharers \cup {"ami"}
    /\ work' = [u \in UIs |-> IF u \in phone_uis THEN "render" ELSE "done"]
    /\ ami' = "invalidate"
    /\ UNCHANGED <<lamps, phone_uis, cached, owner, authVars, draft, sendVars,
                   mainVars>>

\* A worker of the parallel for_each: update(buttons) ...
RenderUI(u) ==
    /\ work[u] = "render"
    /\ Render("ami", u)
    /\ UNCHANGED <<lamps, phone_uis, cached, lockVars, ami, authVars, work,
                   sendVars, mainVars>>

CacheUI(u) ==
    /\ work[u] = "render"
    /\ SetPhoneState("ami", u)
    /\ work' = [work EXCEPT ![u] = "initialize"]
    /\ UNCHANGED <<lamps, phone_uis, lockVars, ami, authVars, sendVars, mainVars>>

\* ... initialize(action), which reads the cached state back ...
InitializeAction(u) ==
    /\ work[u] = "initialize"
    /\ action' = [action EXCEPT ![u] = cached[u]]
    /\ unsent' = [unsent EXCEPT ![u] = IF ami = "invalidate" THEN AoRsOf[u]
                                                             ELSE {auth.aor}]
    /\ work' = [work EXCEPT ![u] = "notify"]
    /\ UNCHANGED <<lamps, phone_uis, cached, lockVars, ami, authVars, draft,
                   mainVars, display>>

\* ... and asyncInvoke of the action for one phone after the other.
Notify(u, a) ==
    /\ work[u] = "notify"
    /\ a \in unsent[u]
    /\ display' = [display EXCEPT ![u][a] = action[u]]
    /\ unsent' = [unsent EXCEPT ![u] = @ \ {a}]
    /\ UNCHANGED <<lamps, phone_uis, cached, lockVars, ami, authVars, work,
                   draft, action, mainVars>>

\* Faulty variant: the loop over the phones ends early.
Notified_Early(u) ==
    /\ work[u] = "notify"
    /\ work' = [work EXCEPT ![u] = "done"]
    /\ action' = [action EXCEPT ![u] = Blank]
    /\ UNCHANGED <<lamps, phone_uis, cached, lockVars, ami, authVars, draft,
                   unsent, mainVars, display>>

\* The loop over the phones ends, and with it the life of the action.
Notified(u) ==
    /\ work[u] = "notify"
    /\ unsent[u] = {}
    /\ work' = [work EXCEPT ![u] = "done"]
    /\ action' = [action EXCEPT ![u] = Blank]
    /\ UNCHANGED <<lamps, phone_uis, cached, lockVars, ami, authVars, draft,
                   unsent, mainVars, display>>

\* Faulty variant: the mutex is not released.
InvalidateEnd_Locked ==
    /\ ami = "invalidate"
    /\ \A u \in UIs : work[u] = "done"
    /\ ami' = "idle"
    /\ UNCHANGED <<lamps, phone_uis, cached, lockVars, authVars, work, draft,
                   sendVars, mainVars>>

\* The end of invalidate, and of the event: the mutex is released.
InvalidateEnd ==
    /\ ami = "invalidate"
    /\ \A u \in UIs : work[u] = "done"
    /\ sharers' = sharers \ {"ami"}
    /\ ami' = "idle"
    /\ UNCHANGED <<lamps, phone_uis, cached, owner, authVars, work, draft,
                   sendVars, mainVars>>

-----------------------------------------------------------------------------
(* The AMI thread: RegisterEventHandler publishes to a phone               *)

\* A SuccessfulAuth event; new is the answer of DeskphoneCache::addEndpoint.
SuccessfulAuth(a, new) ==
    /\ ami = "idle"
    /\ auth' = [aor |-> a, new |-> new]
    /\ ami' = "lock"
    /\ UNCHANGED <<lamps, phone_uis, cached, lockVars, targets, work, draft,
                   sendVars, mainVars>>

\* ButtonPlan::getPhoneUIs: takes the mutex exclusively, and returns it.
GetPhoneUIs ==
    /\ ami = "lock"
    /\ CanOwn
    /\ targets' = {u \in phone_uis : auth.aor \in AoRsOf[u]}
    /\ ami' = "publish"
    /\ UNCHANGED <<lamps, phone_uis, cached, lockVars, auth, work, draft,
                   sendVars, mainVars>>

\* publishPhoneState turns to the next UI.
PublishNext(u) ==
    /\ ami = "publish"
    /\ \A w \in UIs : work[w] = "done"
    /\ u \in targets
    /\ targets' = targets \ {u}
    /\ work' = [work EXCEPT ![u] = "check"]
    /\ UNCHANGED <<lamps, phone_uis, cached, lockVars, ami, auth, draft,
                   sendVars, mainVars>>

\* A phone that is already known gets the page only if it is critical.
PublishCheck(u) ==
    /\ work[u] = "check"
    /\ work' = [work EXCEPT ![u] =
                  IF auth.new \/ (cached[u] # Blank /\ cached[u].critical)
                  THEN "initialize" ELSE "done"]
    /\ UNCHANGED <<lamps, phone_uis, cached, lockVars, ami, authVars, draft,
                   sendVars, mainVars>>

PublishEnd ==
    /\ ami = "publish"
    /\ targets = {}
    /\ \A u \in UIs : work[u] = "done"
    /\ ami' = "idle"
    /\ UNCHANGED <<lamps, phone_uis, cached, lockVars, authVars, work, draft,
                   sendVars, mainVars>>

-----------------------------------------------------------------------------
(* The main thread: createPhonePlans registers a UI                        *)

\* Faulty variant: registerUI takes the mutex shared, as a reader would.
RegisterUI_Shared(u) ==
    /\ main = "idle"
    /\ u \notin phone_uis
    /\ CanShare
    /\ sharers' = sharers \cup {"main"}
    /\ phone_uis' = phone_uis \cup {u}
    /\ new_ui' = u
    /\ main' = "render"
    /\ UNCHANGED <<lamps, cached, owner, ami, authVars, work, draft, sendVars>>

\* ButtonPlan::registerUI takes the mutex exclusively and inserts the UI ...
RegisterUI(u) ==
    /\ main = "idle"
    /\ u \notin phone_uis
    /\ CanOwn
    /\ owner' = owner \cup {"main"}
    /\ phone_uis' = phone_uis \cup {u}
    /\ new_ui' = u
    /\ main' = "render"
    /\ UNCHANGED <<lamps, cached, sharers, ami, authVars, work, draft, sendVars>>

\* ... renders its first page ...
RenderNewUI ==
    /\ main = "render"
    /\ Render("main", new_ui)
    /\ UNCHANGED <<lamps, phone_uis, cached, lockVars, ami, authVars, work,
                   sendVars, mainVars>>

CacheNewUI ==
    /\ main = "render"
    /\ SetPhoneState("main", new_ui)
    /\ main' = "unlock"
    /\ UNCHANGED <<lamps, phone_uis, lockVars, ami, authVars, work, sendVars, new_ui>>

\* ... and releases the mutex.
RegisterUIEnd ==
    /\ main = "unlock"
    /\ owner' = owner \ {"main"}
    /\ main' = "idle"
    /\ UNCHANGED <<lamps, phone_uis, cached, sharers, ami, authVars, work, draft,
                   sendVars, new_ui>>

-----------------------------------------------------------------------------

\* Events of the Asterisk server, which may never come.
Event == \/ \E b \in Buttons, on \in BOOLEAN : SetOn(b, on)
         \/ \E a \in AoRs, new \in BOOLEAN : SuccessfulAuth(a, new)

\* What the AMI thread does about an event.
HandleEvent ==
    \/ Invalidate \/ InvalidateEnd
    \/ GetPhoneUIs \/ PublishEnd
    \/ \E u \in UIs : \/ RenderUI(u) \/ CacheUI(u)
                      \/ PublishNext(u) \/ PublishCheck(u)
                      \/ InitializeAction(u) \/ Notified(u)
                      \/ \E a \in AoRs : Notify(u, a)

MainThread == \/ \E u \in UIs : RegisterUI(u)
              \/ RenderNewUI \/ CacheNewUI \/ RegisterUIEnd

Next == Event \/ HandleEvent \/ MainThread

\* Both threads run; the server owes no event.
Fairness == WF_vars(HandleEvent) /\ WF_vars(MainThread)

Spec == Init /\ [][Next]_vars /\ Fairness

-----------------------------------------------------------------------------
(* Properties                                                              *)

\* The UIs whose registration is complete.
Registered == phone_uis \ (IF main = "idle" THEN {} ELSE {new_ui})

\* The AMI thread will still read button b for the page of u, or holds a
\* reading of its present flag that it has not yet stored.
Pending(u, b) ==
    \/ ami = "lock_shared"
    \/ /\ ami = "invalidate" /\ work[u] = "render"
       /\ \/ b \notin draft["ami"][u].led_read
          \/ b \in draft["ami"][u].lit <=> b \in lamps

\* A cached LED that differs from its button is never forgotten: whatever the
\* interleaving of registerUI with setOn, the invalidation that will correct
\* it is under way (ButtonPlan::invalidate, ButtonPlan::registerUI).
StaleLampIsPending ==
    \A u \in Registered, b \in Buttons :
        (cached[u] # Blank /\ (b \in cached[u].lit) # (b \in lamps)) => Pending(u, b)

\* Between events every registered UI caches exactly the page of its buttons,
\* LEDs and critical flag of one and the same moment, and every phone that was
\* ever notified shows it, although the pages are rendered from flags that are
\* read one at a time without a common lock.
SettledIsCurrent ==
    ami \in {"idle", "lock", "publish"} =>
        \A u \in Registered :
            /\ cached[u] = PageOf(lamps)
            /\ \A a \in AoRs : display[u][a] \in {Blank, PageOf(lamps)}

\* A UI that getPhoneUIs or invalidate hands out has a cached state: isCritical
\* and getStateString never follow the null pointer a PhoneUI is born with.
NoNullState ==
    \A u \in UIs : work[u] \in {"check", "initialize"} => cached[u] # Blank

\* A page sent to a phone is the page of the buttons at the moment it is sent,
\* never an older or a half-updated one (invalidate and publishPhoneState both
\* read the cached state back some time after it was rendered).
SentPageIsCurrent ==
    [][\A u \in UIs, a \in AoRs :
          display'[u][a] # display[u][a] => display'[u][a] = PageOf(lamps)]_vars

\* The plan keeps the promise of LampDisplay: no phone is ever more than one
\* change behind, and every phone that is behind catches up.
Promise == INSTANCE LampDisplay
ImplementsDisplay == Promise!Spec

\* A registered UI whose cached LED went stale is brought up to date: neither
\* the mutex nor the parallel workers can hold the AMI thread up for ever.
StaleLampIsRepaired ==
    \A u \in UIs, b \in Buttons :
        (u \in Registered /\ cached[u] # Blank /\ (b \in cached[u].lit) # (b \in lamps))
            ~> (cached[u] # Blank /\ (b \in cached[u].lit) = (b \in lamps))
-----------------------------------------------------------------------------
(* The inductive invariant                                                 *)

\* The mutex follows the program counters, and registerUI and invalidate
\* exclude each other.
LockInv ==
    /\ owner = IF main = "idle" THEN {} ELSE {"main"}
    /\ sharers = IF ami = "invalidate" THEN {"ami"} ELSE {}
    /\ main # "idle" => ami # "invalidate" /\ new_ui \in phone_uis

\* Only UIs whose registration is complete are worked on, by the event that
\* the AMI thread handles; a page to publish goes to a phone of the UI.
WorkInv ==
    /\ ami # "publish" => targets = {}
    /\ \A u \in targets : u \in Registered /\ auth.aor \in AoRsOf[u]
    /\ \A u \in UIs :
          /\ work[u] # "done" => u \in Registered /\ ami \in {"invalidate", "publish"}
          /\ work[u] = "render" => ami = "invalidate"
          /\ work[u] = "check" => ami = "publish"
          /\ work[u] # "done" /\ ami = "publish" => auth.aor \in AoRsOf[u]
          /\ work[u] = "notify" => unsent[u] \subseteq AoRsOf[u]

\* What was read so far agrees with the buttons in on being on.
Faithful(on, d) ==
    /\ d.crit_read \subseteq d.led_read
    /\ d.lit = on \cap d.led_read
    /\ d.critical = AnyCritical(on, d.crit_read)

\* The AMI thread changes no button while it renders; the main thread's
\* reading may be torn, but then the AMI thread waits to invalidate.
DraftInv ==
    /\ \A u \in UIs :
          /\ Faithful(lamps, draft["ami"][u])
          /\ work[u] # "render" => draft["ami"][u] = EmptyDraft
          /\ (main # "render" \/ u # new_ui) => draft["main"][u] = EmptyDraft
    /\ (main = "render" /\ ami # "lock_shared") => Faithful(lamps, draft["main"][new_ui])
    /\ main = "render" => draft["main"][new_ui].crit_read
                             \subseteq draft["main"][new_ui].led_read

\* u's page has been brought up to date since the last change, and so has
\* what u shows on phone a.
CacheIsFresh(u) == \/ ami \in {"idle", "lock", "publish"}
                   \/ ami = "invalidate" /\ work[u] # "render"
PhoneIsFresh(u, a) == \/ ami \in {"idle", "lock", "publish"}
                      \/ ami = "invalidate" /\ work[u] = "done"
                      \/ ami = "invalidate" /\ work[u] = "notify" /\ a \notin unsent[u]

PageInv ==
    /\ main = "unlock" => /\ cached[new_ui] # Blank
                          /\ ami # "lock_shared" => cached[new_ui] = PageOf(lamps)
    /\ \A u \in UIs :
          /\ u \in Registered => cached[u] # Blank
          /\ u \in Registered /\ CacheIsFresh(u) => cached[u] = PageOf(lamps)
          /\ work[u] = "notify" => action[u] = PageOf(lamps)
          /\ \A a \in AoRs :
                /\ u \notin Registered \/ a \notin AoRsOf[u] => display[u][a] = Blank
                /\ PhoneIsFresh(u, a) => display[u][a] \in {Blank, PageOf(lamps)}

\* Everything the properties of ButtonPlan and of its proof rest on.
IInv == TypeOK /\ LockInv /\ WorkInv /\ DraftInv /\ PageInv
=============================================================================
