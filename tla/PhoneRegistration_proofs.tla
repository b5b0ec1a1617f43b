----------------------- MODULE PhoneRegistration_proofs -----------------------
(***************************************************************************)
(* Proofs about PhoneRegistration, for any phones, plans and bounds.       *)
(***************************************************************************)
EXTENDS PhoneRegistration, SequenceTheorems, TLAPS

\* The AMI thread is between the cache's answer "new" for p and the publication.
BeingTold(p) == ami # Idle /\ ami.aor = p /\ ami.new

\* What WelcomedIsCurrent lacks to be inductive: a phone welcomed is on line, so
\* no page passes it by; every plan is registered, so each renewal that is
\* answered "new" publishes them all; and a page it lacks is under way.
WelcomeInv ==
    \A p \in AoRs : welcome[p] = "complete" =>
        /\ p \in online
        /\ button_plans_ = Plans
        /\ Current(p) \/ BeingTold(p)

IInv == TypeOK /\ WelcomeInv
-----------------------------------------------------------------------------
(* Types                                                                   *)

\* A callback that is not idle is about a phone.
LEMMA CallbackTypes ==
    /\ Idle \in Callbacks
    /\ \A c \in Callbacks : c # Idle => c.aor \in AoRs /\ c.new \in BOOLEAN
    /\ \A p \in AoRs, n \in BOOLEAN :
         /\ [at |-> "publish", aor |-> p, new |-> n] \in Callbacks
         /\ [at |-> "publish", aor |-> p, new |-> n] # Idle
BY DEF Callbacks, Idle

\* A request made while the queue has room leaves it a queue within its bound.
LEMMA EnqueueType ==
    ASSUME TypeOK, Len(queue) < MaxQueue,
           NEW a \in {"aor_insert", "aor_remove"}, NEW p \in AoRs, Enqueue(a, p)
    PROVE  queue' \in Seq(Requests) /\ Len(queue') <= MaxQueue
<1> DEFINE r == [action |-> a, aor |-> p]
<1>1. r \in Requests
  BY DEF Requests
<1>2. queue' = Append(queue, r)
  BY DEF Enqueue
<1> QED
  BY <1>1, <1>2, QueuesAssumption DEF TypeOK

\* A registration that arrives while there is room.
LEMMA ArriveType ==
    ASSUME TypeOK, Len(auths) < MaxAuths, NEW p \in AoRs, auths' = Append(auths, p)
    PROVE  auths' \in Seq(AoRs) /\ Len(auths') <= MaxAuths
BY QueuesAssumption DEF TypeOK

\* A registration that is taken is of a phone.
LEMMA TakeType ==
    ASSUME TypeOK, auths # <<>>, auths' = Tail(auths)
    PROVE  Head(auths) \in AoRs /\ auths' \in Seq(AoRs) /\ Len(auths') <= MaxAuths
BY QueuesAssumption DEF TypeOK

\* What is shown is a screen, whoever is notified of whatever.
LEMMA ShowType ==
    ASSUME TypeOK, NEW phones, NEW plans, Show(phones, plans)
    PROVE  display' \in [AoRs -> [Plans -> Screens]]
<1>1. \A l \in Plans : Page(l)' \in Screens
  BY DEF Page, Screens
<1> QED
  BY <1>1 DEF Show, TypeOK

LEMMA TypeInit == Init => TypeOK
BY QueuesAssumption, CallbackTypes, EmptySeq DEF Init, TypeOK, Screens

LEMMA TypeStep == TypeOK /\ [Next]_vars => TypeOK'
<1> SUFFICES ASSUME TypeOK, [Next]_vars PROVE TypeOK'
  OBVIOUS
<1> USE DEF TypeOK
<1>1. CASE Construct
  BY <1>1 DEF Construct
<1>2. ASSUME NEW l \in Plans, RegisterButtonPlan(l) PROVE TypeOK'
  BY <1>2 DEF RegisterButtonPlan
<1>3. CASE Listen
  BY <1>3 DEF Listen
<1>4. ASSUME NEW n \in 1 .. Len(queue), Commit(n) PROVE TypeOK'
  <2>1. db' \subseteq AoRs
    BY <1>4 DEF Commit, After
  <2>2. queue' \in Seq(Requests) /\ Len(queue') <= MaxQueue
    BY <1>4, QueuesAssumption DEF Commit
  <2> QED
    BY <1>4, <2>1, <2>2 DEF Commit
<1>5. ASSUME NEW p \in AoRs, Expire(p) PROVE TypeOK'
  BY <1>5 DEF Expire
<1>6. ASSUME NEW p \in AoRs, ExpirePath(p) PROVE TypeOK'
  <2>1. queue' \in Seq(Requests) /\ Len(queue') <= MaxQueue
    BY <1>6, EnqueueType, QueuesAssumption DEF ExpirePath
  <2> QED
    BY <1>6, <2>1 DEF ExpirePath
<1>7. CASE SuccessfulAuth
  <2>1. Head(auths) \in AoRs /\ auths' \in Seq(AoRs) /\ Len(auths') <= MaxAuths
    BY <1>7, TakeType DEF SuccessfulAuth
  <2>2. queue' \in Seq(Requests) /\ Len(queue') <= MaxQueue
    BY <1>7, <2>1, EnqueueType DEF SuccessfulAuth
  <2>3. ami' \in Callbacks
    BY <1>7, <2>1, CallbackTypes DEF SuccessfulAuth, IsNew
  <2>4. welcome' \in [AoRs -> {"none", "early", "complete"}]
    BY <1>7, <2>1 DEF SuccessfulAuth
  <2> QED
    BY <1>7, <2>1, <2>2, <2>3, <2>4 DEF SuccessfulAuth
<1>8. CASE AuthMissed
  BY <1>8, TakeType DEF AuthMissed
<1>9. CASE PublishPhoneState
  BY <1>9, ShowType, CallbackTypes DEF PublishPhoneState
<1>10. ASSUME NEW l \in Plans, LampChange(l) PROVE TypeOK'
  BY <1>10, ShowType DEF LampChange
<1>11. ASSUME NEW p \in AoRs, ComeOnline(p) PROVE TypeOK'
  <2>1. auths' \in Seq(AoRs) /\ Len(auths') <= MaxAuths
    BY <1>11, ArriveType DEF ComeOnline
  <2>2. display' \in [AoRs -> [Plans -> Screens]]
    BY <1>11 DEF ComeOnline, Screens
  <2> QED
    BY <1>11, <2>1, <2>2 DEF ComeOnline
<1>12. ASSUME NEW p \in AoRs, Renew(p) PROVE TypeOK'
  BY <1>12, ArriveType DEF Renew
<1>13. ASSUME NEW p \in AoRs, GoOffline(p) PROVE TypeOK'
  BY <1>13 DEF GoOffline
<1>14. CASE UNCHANGED vars
  BY <1>14 DEF vars
<1> QED
  BY <1>1, <1>2, <1>3, <1>4, <1>5, <1>6, <1>7, <1>8, <1>9, <1>10, <1>11, <1>12,
     <1>13, <1>14
  DEF Next, Main, HandleAuth, Writer

\* Type correctness of every behaviour; the queue of the cache and the events
\* that wait for the AMI thread keep their bounds.
THEOREM TypeCorrect == Spec => []TypeOK
BY TypeInit, TypeStep, PTL DEF Spec
-----------------------------------------------------------------------------
(* A phone that was welcomed is current                                    *)

\* A step that changes neither lamps nor screens changes nobody's being current.
LEMMA CurrentUnchanged ==
    ASSUME NEW p \in AoRs, UNCHANGED <<lit, display>>
    PROVE  Current(p)' <=> Current(p)
BY DEF Current, Page

\* A page that is published is current when it is put on a phone that is on line:
\* a registration "new" published with every plan makes its phone current.
LEMMA PublishedIsCurrent ==
    ASSUME TypeOK, NEW p \in AoRs, PublishPhoneState, p \in online,
           button_plans_ = Plans, BeingTold(p)
    PROVE  Current(p)'
<1>1. ASSUME NEW l \in Plans, p \in AoRsOf[l] PROVE display'[p][l] = Page(l)'
  <2>1. l \in Due(ami.aor, ami.new) /\ p \in {ami.aor} \cap online
    BY <1>1 DEF Due, BeingTold
  <2> QED
    BY <1>1, <2>1 DEF PublishPhoneState, Show
<1> QED
  BY <1>1 DEF Current

\* A publication takes no current page away.
LEMMA PublicationKeepsCurrent ==
    ASSUME TypeOK, NEW p \in AoRs, PublishPhoneState, Current(p)
    PROVE  Current(p)'
<1>1. ASSUME NEW l \in Plans, p \in AoRsOf[l] PROVE display'[p][l] = Page(l)'
  <2>1. Page(l)' = Page(l) /\ display[p][l] = Page(l)
    BY <1>1 DEF PublishPhoneState, Page, Current
  <2>2. display'[p][l] = Page(l)' \/ display'[p][l] = display[p][l]
    BY <1>1 DEF PublishPhoneState, Show
  <2> QED
    BY <2>1, <2>2
<1> QED
  BY <1>1 DEF Current

\* Nor does a change of a lamp, which tells every phone that is on line.
LEMMA LampChangeKeepsCurrent ==
    ASSUME TypeOK, NEW p \in AoRs, NEW k \in Plans, LampChange(k), p \in online, Current(p)
    PROVE  Current(p)'
<1>1. ASSUME NEW l \in Plans, p \in AoRsOf[l] PROVE display'[p][l] = Page(l)'
  <2>1. CASE l = k
    BY <1>1, <2>1 DEF LampChange, Show
  <2>2. CASE l # k
    <3>1. Page(l)' = Page(l) /\ display[p][l] = Page(l)
      BY <1>1, <2>2 DEF LampChange, Page, Current
    <3>2. display'[p][l] = display[p][l]
      BY <1>1, <2>2 DEF LampChange, Show
    <3> QED
      BY <3>1, <3>2
  <2> QED
    BY <2>1, <2>2
<1> QED
  BY <1>1 DEF Current

LEMMA WelcomeInit == Init => WelcomeInv
BY DEF Init, WelcomeInv

LEMMA WelcomeStep == TypeOK /\ WelcomeInv /\ [Next]_vars => WelcomeInv'
<1> SUFFICES ASSUME TypeOK, WelcomeInv, [Next]_vars,
                    NEW p \in AoRs, welcome'[p] = "complete"
             PROVE  /\ p \in online'
                    /\ button_plans_' = Plans
                    /\ Current(p)' \/ BeingTold(p)'
  BY DEF WelcomeInv
<1> DEFINE Welcomed == /\ p \in online
                       /\ button_plans_ = Plans
                       /\ Current(p) \/ BeingTold(p)
<1>a. welcome[p] = "complete" => Welcomed
  BY DEF WelcomeInv
<1>1. CASE Construct
  BY <1>1, <1>a, CurrentUnchanged DEF Construct, BeingTold
<1>2. ASSUME NEW l \in Plans, RegisterButtonPlan(l) PROVE Welcomed'
  BY <1>2, <1>a, CurrentUnchanged DEF RegisterButtonPlan, BeingTold
<1>3. CASE Listen
  BY <1>3, <1>a, CurrentUnchanged DEF Listen, BeingTold
<1>4. ASSUME NEW n \in 1 .. Len(queue), Commit(n) PROVE Welcomed'
  BY <1>4, <1>a, CurrentUnchanged DEF Commit, BeingTold
<1>5. ASSUME NEW q \in AoRs, Expire(q) \/ ExpirePath(q) PROVE Welcomed'
  BY <1>5, <1>a, CurrentUnchanged DEF Expire, ExpirePath, BeingTold
<1>6. CASE SuccessfulAuth
  <2> DEFINE aor == Head(auths)
  <2>1. aor \in AoRs
    BY <1>6, TakeType DEF SuccessfulAuth
  <2>2. CASE IsNew(aor) /\ aor \in online /\ aor = p
    <3>1. button_plans_ = Plans
      BY <1>6, <2>1, <2>2 DEF SuccessfulAuth, TypeOK
    <3>2. BeingTold(p)'
      BY <1>6, <2>2, CallbackTypes DEF SuccessfulAuth, BeingTold
    <3> QED
      BY <1>6, <2>2, <3>1, <3>2 DEF SuccessfulAuth
  <2>3. CASE ~(IsNew(aor) /\ aor \in online /\ aor = p)
    <3>1. welcome'[p] = welcome[p]
      BY <1>6, <2>1, <2>3 DEF SuccessfulAuth, TypeOK
    <3>2. Current(p)
      BY <1>6, <1>a, <3>1 DEF SuccessfulAuth, BeingTold
    <3> QED
      BY <1>6, <1>a, <3>1, <3>2, CurrentUnchanged DEF SuccessfulAuth
  <2> QED
    BY <2>2, <2>3
<1>7. CASE AuthMissed
  BY <1>7, <1>a, CurrentUnchanged DEF AuthMissed, BeingTold
<1>8. CASE PublishPhoneState
  <2>1. Welcomed
    BY <1>8, <1>a DEF PublishPhoneState
  <2>2. Current(p)'
    BY <1>8, <2>1, PublishedIsCurrent, PublicationKeepsCurrent
  <2> QED
    BY <1>8, <2>1, <2>2 DEF PublishPhoneState
<1>9. ASSUME NEW l \in Plans, LampChange(l) PROVE Welcomed'
  <2>1. p \in online /\ button_plans_ = Plans /\ Current(p)
    BY <1>9, <1>a DEF LampChange, BeingTold
  <2>2. Current(p)'
    BY <1>9, <2>1, LampChangeKeepsCurrent
  <2> QED
    BY <1>9, <2>1, <2>2 DEF LampChange
<1>10. ASSUME NEW q \in AoRs, ComeOnline(q) PROVE Welcomed'
  <2>1. Welcomed /\ p # q
    BY <1>10, <1>a DEF ComeOnline
  <2>2. lit' = lit /\ display'[p] = display[p]
    BY <1>10, <2>1 DEF ComeOnline, TypeOK
  <2>3. Current(p)' <=> Current(p)
    BY <2>2 DEF Current, Page
  <2> QED
    BY <1>10, <2>1, <2>3 DEF ComeOnline, BeingTold
<1>11. ASSUME NEW q \in AoRs, Renew(q) PROVE Welcomed'
  BY <1>11, <1>a, CurrentUnchanged DEF Renew, BeingTold
<1>12. ASSUME NEW q \in AoRs, GoOffline(q) PROVE Welcomed'
  <2>1. p # q
    BY <1>12 DEF GoOffline, TypeOK
  <2> QED
    BY <1>12, <1>a, <2>1, CurrentUnchanged DEF GoOffline, TypeOK, BeingTold
<1>13. CASE UNCHANGED vars
  BY <1>13, <1>a, CurrentUnchanged DEF vars, BeingTold
<1> QED
  BY <1>1, <1>2, <1>3, <1>4, <1>5, <1>6, <1>7, <1>8, <1>9, <1>10, <1>11, <1>12, <1>13
  DEF Next, Main, HandleAuth, Writer

\* The inductive invariant: what a phone called new lacks is on its way to it.
THEOREM Invariance == Spec => []IInv
<1>1. Init => IInv
  BY TypeInit, WelcomeInit DEF IInv
<1>2. IInv /\ [Next]_vars => IInv'
  BY TypeStep, WelcomeStep DEF IInv
<1> QED
  BY <1>1, <1>2, PTL DEF Spec

\* A phone called new by addEndpoint once every plan was registered, and on line
\* since, shows the current page of each plan whenever no registration of it is
\* being handled, for any number of phones, plans and requests.
THEOREM WelcomedCurrent == Spec => []WelcomedIsCurrent
<1>1. IInv => WelcomedIsCurrent
  BY DEF IInv, WelcomeInv, WelcomedIsCurrent, Answered, BeingTold
<1> QED
  BY <1>1, Invariance, PTL
=============================================================================
