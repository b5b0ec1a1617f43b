-------------------------- MODULE PhoneRegistration --------------------------
(***************************************************************************)
(* RegisterEventHandler: src/src/asterisk/RegisterEventHandler.cpp, with   *)
(* what it needs of the deskphone cache, of the button plans and of the    *)
(* main thread that connects them (createRegisterEventHandler).            *)
(*                                                                         *)
(* A phone that registers makes Asterisk send a SuccessfulAuth event.  The *)
(* AMI thread asks the cache whether the phone is new and, if it is or if  *)
(* a page is critical, sends it the page of each plan.  The cache answers  *)
(* from its committed table; an insertion or a removal takes effect when   *)
(* the writer commits it, and a record expires some day.  A plan tells the *)
(* phones of each change of its page itself (ButtonPlan).                  *)
(***************************************************************************)
EXTENDS Integers, Sequences

CONSTANTS
    AoRs, Plans,
    AoRsOf,       \* the phones the UI of a plan draws for
    CriticalOn,   \* plans whose page is critical when their lamp is lit ...
    CriticalOff,  \* ... and when it is not
    MaxQueue,     \* bound on the requests the cache has not committed
    MaxAuths      \* bound on the registrations that wait for the AMI thread

ASSUME PlansAssumption ==
    /\ AoRsOf \in [Plans -> SUBSET AoRs]
    /\ CriticalOn \subseteq Plans /\ CriticalOff \subseteq Plans
ASSUME QueuesAssumption == MaxQueue \in Nat \ {0} /\ MaxAuths \in Nat \ {0}

VARIABLES
    main,           \* where the main thread is
    button_plans_,  \* plans registered so far
    db,             \* phones with a committed record that has not expired
    queue,          \* requests of the cache that are not committed
    lit,            \* plans whose lamp is lit
    online,         \* phones that can be reached
    display,        \* what each phone shows of each plan
    auths,          \* SuccessfulAuth events the AMI thread has still to handle
    ami,            \* where the AMI thread is in its callback
    welcome         \* history: how the phone was last called new

vars == <<main, button_plans_, db, queue, lit, online, display, auths, ami, welcome>>

Requests == [action : {"aor_insert", "aor_remove"}, aor : AoRs]
Idle == [at |-> "idle"]
Callbacks == {Idle} \cup [at : {"publish"}, aor : AoRs, new : BOOLEAN]

\* A lamp that is lit, one that is not, and one of a phone that was rebooted.
Screens == {"on", "off", "dark"}
Page(l) == IF l \in lit THEN "on" ELSE "off"
Critical(l) == l \in (IF l \in lit THEN CriticalOn ELSE CriticalOff)

TypeOK ==
    /\ main \in {"construct", "register", "listen"}
    /\ button_plans_ \subseteq Plans
    /\ db \subseteq AoRs
    /\ queue \in Seq(Requests) /\ Len(queue) <= MaxQueue
    /\ lit \subseteq Plans
    /\ online \subseteq AoRs
    /\ display \in [AoRs -> [Plans -> Screens]]
    /\ auths \in Seq(AoRs) /\ Len(auths) <= MaxAuths
    /\ ami \in Callbacks
    /\ welcome \in [AoRs -> {"none", "early", "complete"}]

Init ==
    /\ main = "construct" /\ button_plans_ = {}
    /\ db = {} /\ queue = <<>>
    /\ lit = {}
    /\ online = {} /\ display = [p \in AoRs |-> [l \in Plans |-> "dark"]]
    /\ auths = <<>> /\ ami = Idle
    /\ welcome = [p \in AoRs |-> "none"]

-----------------------------------------------------------------------------
(* The main thread: createRegisterEventHandler                             *)

\* The constructor adds the AMI callback; there is no plan yet.
Construct ==
    /\ main = "construct"
    /\ main' = "register"
    /\ UNCHANGED <<button_plans_, db, queue, lit, online, display, auths, ami, welcome>>

\* The plans come from an unordered_map: in any order.
RegisterButtonPlan(l) ==
    /\ main = "register"
    /\ l \notin button_plans_
    /\ button_plans_' = button_plans_ \cup {l}
    /\ UNCHANGED <<main, db, queue, lit, online, display, auths, ami, welcome>>

Listen ==
    /\ main = "register"
    /\ button_plans_ = Plans
    /\ main' = "listen"
    /\ UNCHANGED <<button_plans_, db, queue, lit, online, display, auths, ami, welcome>>

-----------------------------------------------------------------------------
(* The deskphone cache                                                     *)

\* Faulty variant: a request is queued twice.
Enqueue_Twice(action, p) ==
    queue' = queue \o <<[action |-> action, aor |-> p], [action |-> action, aor |-> p]>>

Enqueue(action, p) == queue' = Append(queue, [action |-> action, aor |-> p])

\* The phones with a record once the requests todo are executed on tab: the
\* last request about a phone decides.
After(tab, todo) ==
    {p \in AoRs :
        LET about == {i \in DOMAIN todo : todo[i].aor = p}
        IN  IF about = {} THEN p \in tab
            ELSE \E i \in about : /\ todo[i].action = "aor_insert"
                                  /\ \A j \in about : j <= i}

\* The writer commits a batch of requests.
Commit(n) ==
    /\ db' = After(db, SubSeq(queue, 1, n))
    /\ queue' = SubSeq(queue, n + 1, Len(queue))
    /\ UNCHANGED <<main, button_plans_, lit, online, display, auths, ami, welcome>>

\* Time passes: a record is older than the configured expiry.
Expire(p) ==
    /\ p \in db
    /\ db' = db \ {p}
    /\ UNCHANGED <<main, button_plans_, queue, lit, online, display, auths, ami, welcome>>

\* The expire_path URI.  The server is not listening before.  One place of the
\* bounded queue is left to the AMI thread, which never waits for it.
ExpirePath(p) ==
    /\ main = "listen"
    /\ Len(queue) < MaxQueue - 1
    /\ Enqueue("aor_remove", p)
    /\ UNCHANGED <<main, button_plans_, db, lit, online, display, auths, ami, welcome>>

-----------------------------------------------------------------------------
(* The AMI thread                                                          *)

\* What addEndpoint answers: there is no unexpired record.
IsNew(p) == p \notin db

\* amiEventHandler, an event of another kind or service being ignored.
SuccessfulAuth ==
    /\ main # "construct"
    /\ ami = Idle
    /\ auths # <<>> /\ Len(queue) < MaxQueue
    /\ LET aor == Head(auths)
       IN  /\ Enqueue("aor_insert", aor)
           /\ ami' = [at |-> "publish", aor |-> aor, new |-> IsNew(aor)]
           /\ welcome' = IF IsNew(aor) /\ aor \in online
                         THEN [welcome EXCEPT ![aor] = IF button_plans_ = Plans
                                                       THEN "complete" ELSE "early"]
                         ELSE welcome
    /\ auths' = Tail(auths)
    /\ UNCHANGED <<main, button_plans_, db, lit, online, display>>

\* Nobody is subscribed: the event goes by.
AuthMissed ==
    /\ main = "construct"
    /\ auths # <<>>
    /\ auths' = Tail(auths)
    /\ UNCHANGED <<main, button_plans_, db, queue, lit, online, display, ami, welcome>>

\* Faulty variant: a critical page is sent to a new phone only.
Due_New(p, new) == {l \in button_plans_ : p \in AoRsOf[l] /\ new}

\* Faulty variant: the loop ends with the first plan whose page is sent.
Due_First(p, new) ==
    LET due == {l \in button_plans_ : p \in AoRsOf[l] /\ (new \/ Critical(l))}
    IN  IF due = {} THEN {} ELSE {CHOOSE l \in due : TRUE}

\* The plans of a phone whose page is sent to it when it registers.
Due(p, new) == {l \in button_plans_ : p \in AoRsOf[l] /\ (new \/ Critical(l))}

\* A notification reaches the phones that are on line.
Show(phones, plans) ==
    display' = [p \in AoRs |-> [l \in Plans |->
        IF p \in phones \cap online /\ l \in plans /\ p \in AoRsOf[l]
        THEN Page(l)' ELSE display[p][l]]]

\* publishPhoneState holds button_plans_mut_; only this thread changes a page.
PublishPhoneState ==
    /\ ami # Idle
    /\ lit' = lit
    /\ Show({ami.aor}, Due(ami.aor, ami.new))
    /\ ami' = Idle
    /\ UNCHANGED <<main, button_plans_, db, queue, online, auths, welcome>>

\* An event changes the lamp of a plan, which notifies its phones.
LampChange(l) ==
    /\ ami = Idle
    /\ lit' = (lit \ {l}) \cup ({l} \ lit)
    /\ Show(AoRs, {l})
    /\ UNCHANGED <<main, button_plans_, db, queue, online, auths, ami, welcome>>

-----------------------------------------------------------------------------
(* Phones and the Asterisk server                                          *)

\* A phone comes back, rebooted or not, and registers; the removal of its
\* record is up to those who use the expire_path URI.
ComeOnline(p) ==
    /\ p \notin online
    /\ Len(auths) < MaxAuths
    /\ online' = online \cup {p}
    /\ auths' = Append(auths, p)
    /\ \/ UNCHANGED display
       \/ display' = [display EXCEPT ![p] = [l \in Plans |-> "dark"]]
    /\ UNCHANGED <<main, button_plans_, db, queue, lit, ami, welcome>>

\* A phone renews its registration.
Renew(p) ==
    /\ p \in online
    /\ Len(auths) < MaxAuths
    /\ auths' = Append(auths, p)
    /\ UNCHANGED <<main, button_plans_, db, queue, lit, online, display, ami, welcome>>

GoOffline(p) ==
    /\ p \in online
    /\ online' = online \ {p}
    /\ welcome' = [welcome EXCEPT ![p] = "none"]
    /\ UNCHANGED <<main, button_plans_, db, queue, lit, display, auths, ami>>

-----------------------------------------------------------------------------

Main == Construct \/ Listen \/ \E l \in Plans : RegisterButtonPlan(l)
HandleAuth == SuccessfulAuth \/ AuthMissed \/ PublishPhoneState
Writer == \E n \in 1 .. Len(queue) : Commit(n)

Next == \/ Main \/ HandleAuth \/ Writer
        \/ \E p \in AoRs : \/ Expire(p) \/ ExpirePath(p)
                           \/ ComeOnline(p) \/ Renew(p) \/ GoOffline(p)
        \/ \E l \in Plans : LampChange(l)

\* The three threads run; phones, lamps, time and HTTP clients need not.
Fairness == WF_vars(Main) /\ WF_vars(HandleAuth) /\ WF_vars(Writer)

Spec == Init /\ [][Next]_vars /\ Fairness

-----------------------------------------------------------------------------
(* Properties                                                              *)

\* Phone p shows the page of each of its plans.
Current(p) == \A l \in Plans : p \in AoRsOf[l] => display[p][l] = Page(l)

\* The AMI thread has nothing left to do for phone p.
Answered(p) == ami # Idle => ami.aor # p

\* A phone that addEndpoint called new once every plan was registered, and that
\* has been on line since, shows the current page of each plan: publication,
\* the cache's delayed answers, renewals, removals and lamp changes together
\* never leave it behind.
WelcomedIsCurrent ==
    \A p \in AoRs : welcome[p] = "complete" /\ Answered(p) => Current(p)

\* The same, from the moment the handler subscribes to the events: "Upon
\* successful registration of a deskphone this callback will publish the current
\* lamp states to the newly registered deskphone."
NewPhoneIsTold ==
    \A p \in AoRs : welcome[p] # "none" /\ Answered(p) => Current(p)

\* Phone p is not remembered, and nothing queued makes it so.  A removal that is
\* still queued is not enough: the cache answers from its committed table.
Forgotten(p) ==
    /\ p \notin db
    /\ \A i \in DOMAIN queue : queue[i] # [action |-> "aor_insert", aor |-> p]

\* Once the program is up, the registration of a phone repairs what it shows of
\* a plan if the page is critical or the cache has forgotten the phone.
RegistrationRepairs ==
    \A p \in AoRs, l \in Plans :
        (/\ main = "listen" /\ p \in online /\ p \in AoRsOf[l]
         /\ \E i \in DOMAIN auths : auths[i] = p
         /\ Critical(l) \/ Forgotten(p))
            ~> (p \notin online \/ display[p][l] = Page(l))
=============================================================================
