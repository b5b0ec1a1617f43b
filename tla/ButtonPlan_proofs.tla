-------------------------- MODULE ButtonPlan_proofs --------------------------
(***************************************************************************)
(* Proofs about ButtonPlan, for any buttons, UIs and phones.               *)
(*                                                                         *)
(* IInv (defined in ButtonPlan) is shown inductive, one action at a time;  *)
(* the safety properties follow from it.                                   *)
(***************************************************************************)
EXTENDS ButtonPlan, TLAPS

\* The empty draft is a draft, and agrees with any lamps.
LEMMA EmptyDraftFacts ==
    /\ EmptyDraft \in Drafts
    /\ EmptyDraft.crit_read = {} /\ EmptyDraft.led_read = {}
    /\ \A S \in SUBSET Buttons : Faithful(S, EmptyDraft)
BY DEF EmptyDraft, Drafts, Faithful, AnyCritical

\* A page of any lamps is a page.
LEMMA PageOfType == \A S \in SUBSET Buttons : PageOf(S) \in Pages /\ PageOf(S) # Blank
<1> TAKE S \in SUBSET Buttons
<1>1. AnyCritical(S, Buttons) \in BOOLEAN
  BY DEF AnyCritical
<1>2. PageOf(S) \in Pages
  BY <1>1 DEF PageOf, Pages
<1> QED
  BY <1>2, BlankAssumption

-----------------------------------------------------------------------------
(* Type correctness *)

\* One more button read keeps a draft a draft.
LEMMA RenderType ==
    ASSUME TypeOK, NEW t \in Threads, NEW u \in UIs, Render(t, u)
    PROVE  draft' \in [Threads -> [UIs -> Drafts]]
<1> PICK b \in Buttons : ReadLed(t, u, b) \/ ReadCritical(t, u, b)
  BY DEF Render
<1> DEFINE d == draft[t][u]
<1>1. d \in Drafts
  BY DEF TypeOK
<1>2. CASE ReadLed(t, u, b)
  <2> DEFINE e == [d EXCEPT !.led_read = @ \cup {b},
                            !.lit = IF b \in lamps THEN @ \cup {b} ELSE @]
  <2>1. e \in Drafts
    BY <1>1 DEF Drafts
  <2>2. draft' = [draft EXCEPT ![t][u] = e]
    BY <1>2 DEF ReadLed
  <2> QED
    BY <2>1, <2>2 DEF TypeOK
<1>3. CASE ReadCritical(t, u, b)
  <2> DEFINE e == [d EXCEPT !.crit_read = @ \cup {b},
                            !.critical = @ \/ IsCritical(lamps, b)]
  <2>1. e \in Drafts
    BY <1>1 DEF Drafts, IsCritical
  <2>2. draft' = [draft EXCEPT ![t][u] = e]
    BY <1>3 DEF ReadCritical
  <2> QED
    BY <2>1, <2>2 DEF TypeOK
<1> QED
  BY <1>2, <1>3

\* A finished draft makes a page.
LEMMA SetPhoneStateType ==
    ASSUME TypeOK, NEW t \in Threads, NEW u \in UIs, SetPhoneState(t, u)
    PROVE  /\ draft' \in [Threads -> [UIs -> Drafts]]
           /\ cached' \in [UIs -> Pages \cup {Blank}]
<1>1. draft[t][u] \in Drafts
  BY DEF TypeOK
<1>2. [lit |-> draft[t][u].lit, critical |-> draft[t][u].critical] \in Pages
  BY <1>1 DEF Drafts, Pages
<1> QED
  BY <1>2, EmptyDraftFacts DEF TypeOK, SetPhoneState

\* Every step keeps the variables in their types.
LEMMA TypeStep == TypeOK /\ [Next]_vars => TypeOK'
<1> SUFFICES ASSUME TypeOK, [Next]_vars PROVE TypeOK'
  OBVIOUS
<1> USE DEF lockVars, mainVars, authVars, sendVars
<1>1. ASSUME NEW b \in Buttons, NEW on \in BOOLEAN, SetOn(b, on) PROVE TypeOK'
  BY <1>1 DEF TypeOK, SetOn
<1>2. CASE Invalidate
  BY <1>2 DEF TypeOK, Invalidate
<1>3. ASSUME NEW u \in UIs, RenderUI(u) PROVE TypeOK'
  BY <1>3, RenderType DEF TypeOK, RenderUI, Threads
<1>4. ASSUME NEW u \in UIs, CacheUI(u) PROVE TypeOK'
  BY <1>4, SetPhoneStateType DEF TypeOK, CacheUI, Threads
<1>5. ASSUME NEW u \in UIs, InitializeAction(u) PROVE TypeOK'
  BY <1>5, AoRsOfAssumption DEF TypeOK, InitializeAction
<1>6. ASSUME NEW u \in UIs, NEW a \in AoRs, Notify(u, a) PROVE TypeOK'
  BY <1>6 DEF TypeOK, Notify
<1>7. ASSUME NEW u \in UIs, Notified(u) PROVE TypeOK'
  BY <1>7 DEF TypeOK, Notified
<1>8. CASE InvalidateEnd
  BY <1>8 DEF TypeOK, InvalidateEnd
<1>9. ASSUME NEW a \in AoRs, NEW new \in BOOLEAN, SuccessfulAuth(a, new) PROVE TypeOK'
  BY <1>9 DEF TypeOK, SuccessfulAuth
<1>10. CASE GetPhoneUIs
  BY <1>10 DEF TypeOK, GetPhoneUIs
<1>11. ASSUME NEW u \in UIs, PublishNext(u) PROVE TypeOK'
  BY <1>11 DEF TypeOK, PublishNext
<1>12. ASSUME NEW u \in UIs, PublishCheck(u) PROVE TypeOK'
  BY <1>12 DEF TypeOK, PublishCheck
<1>13. CASE PublishEnd
  BY <1>13 DEF TypeOK, PublishEnd
<1>14. ASSUME NEW u \in UIs, RegisterUI(u) PROVE TypeOK'
  BY <1>14 DEF TypeOK, RegisterUI, Threads
<1>15. CASE RenderNewUI
  <2>1. new_ui \in UIs /\ "main" \in Threads
    BY DEF TypeOK, Threads
  <2> QED
    BY <1>15, <2>1, RenderType DEF TypeOK, RenderNewUI
<1>16. CASE CacheNewUI
  <2>1. new_ui \in UIs /\ "main" \in Threads
    BY DEF TypeOK, Threads
  <2> QED
    BY <1>16, <2>1, SetPhoneStateType DEF TypeOK, CacheNewUI
<1>17. CASE RegisterUIEnd
  BY <1>17 DEF TypeOK, RegisterUIEnd
<1>18. CASE UNCHANGED vars
  BY <1>18 DEF TypeOK, vars
<1> QED
  BY <1>1, <1>2, <1>3, <1>4, <1>5, <1>6, <1>7, <1>8, <1>9, <1>10, <1>11, <1>12,
     <1>13, <1>14, <1>15, <1>16, <1>17, <1>18
  DEF Next, Event, HandleEvent, MainThread

LEMMA TypeInit == Init => TypeOK
<1> SUFFICES ASSUME Init PROVE TypeOK
  OBVIOUS
<1>1. auth \in [aor : AoRs, new : BOOLEAN]
  BY DEF Init
<1>2. draft \in [Threads -> [UIs -> Drafts]]
  BY EmptyDraftFacts DEF Init
<1>3. /\ cached \in [UIs -> Pages \cup {Blank}]
      /\ action \in [UIs -> Pages \cup {Blank}]
      /\ display \in [UIs -> [AoRs -> Pages \cup {Blank}]]
  BY DEF Init
<1> QED
  BY <1>1, <1>2, <1>3 DEF Init, TypeOK

\* Type correctness of every behaviour (the variables of ButtonPlan).
THEOREM TypeCorrect == Spec => []TypeOK
BY TypeInit, TypeStep, PTL DEF Spec
-----------------------------------------------------------------------------
(* The inductive invariant, one conjunct at a time *)

\* The mutex follows the program counters.
LEMMA LockStep == TypeOK /\ LockInv /\ TypeOK' /\ [Next]_vars => LockInv'
<1> SUFFICES ASSUME TypeOK, LockInv, TypeOK', [Next]_vars
             PROVE  LockInv'
  OBVIOUS
<1> USE DEF lockVars, mainVars, authVars, sendVars, TypeOK, LockInv, CanShare, CanOwn
<1>1. ASSUME NEW b \in Buttons, NEW on \in BOOLEAN, SetOn(b, on) PROVE LockInv'
  BY <1>1 DEF SetOn
<1>2. CASE Invalidate
  BY <1>2 DEF Invalidate
<1>3. ASSUME NEW u \in UIs, RenderUI(u) PROVE LockInv'
  BY <1>3 DEF RenderUI
<1>4. ASSUME NEW u \in UIs, CacheUI(u) PROVE LockInv'
  BY <1>4 DEF CacheUI
<1>5. ASSUME NEW u \in UIs, InitializeAction(u) PROVE LockInv'
  BY <1>5 DEF InitializeAction
<1>6. ASSUME NEW u \in UIs, NEW a \in AoRs, Notify(u, a) PROVE LockInv'
  BY <1>6 DEF Notify
<1>7. ASSUME NEW u \in UIs, Notified(u) PROVE LockInv'
  BY <1>7 DEF Notified
<1>8. CASE InvalidateEnd
  BY <1>8 DEF InvalidateEnd
<1>9. ASSUME NEW a \in AoRs, NEW new \in BOOLEAN, SuccessfulAuth(a, new) PROVE LockInv'
  BY <1>9 DEF SuccessfulAuth
<1>10. CASE GetPhoneUIs
  BY <1>10 DEF GetPhoneUIs
<1>11. ASSUME NEW u \in UIs, PublishNext(u) PROVE LockInv'
  BY <1>11 DEF PublishNext
<1>12. ASSUME NEW u \in UIs, PublishCheck(u) PROVE LockInv'
  BY <1>12 DEF PublishCheck
<1>13. CASE PublishEnd
  BY <1>13 DEF PublishEnd
<1>14. ASSUME NEW u \in UIs, RegisterUI(u) PROVE LockInv'
  BY <1>14 DEF RegisterUI
<1>15. CASE RenderNewUI
  BY <1>15 DEF RenderNewUI
<1>16. CASE CacheNewUI
  BY <1>16 DEF CacheNewUI
<1>17. CASE RegisterUIEnd
  BY <1>17 DEF RegisterUIEnd
<1>18. CASE UNCHANGED vars
  BY <1>18 DEF vars
<1> QED
  BY <1>1, <1>2, <1>3, <1>4, <1>5, <1>6, <1>7, <1>8, <1>9, <1>10, <1>11, <1>12,
     <1>13, <1>14, <1>15, <1>16, <1>17, <1>18
  DEF Next, Event, HandleEvent, MainThread

\* Only registered UIs are worked on.
LEMMA WorkStep == TypeOK /\ LockInv /\ WorkInv /\ TypeOK' /\ [Next]_vars => WorkInv'
<1> SUFFICES ASSUME TypeOK, LockInv, WorkInv, TypeOK', [Next]_vars
             PROVE  WorkInv'
  OBVIOUS
<1> USE DEF lockVars, mainVars, authVars, sendVars, TypeOK, LockInv, WorkInv, Registered, CanOwn
<1>1. ASSUME NEW b \in Buttons, NEW on \in BOOLEAN, SetOn(b, on) PROVE WorkInv'
  <2>1. ami = "idle" /\ ami' \in {"idle", "lock_shared"}
    BY <1>1 DEF SetOn
  <2> QED
    BY <1>1, <2>1 DEF SetOn
<1>2. CASE Invalidate
  <2>1. /\ owner = {} /\ main = "idle" /\ targets = {}
        /\ Registered' = phone_uis
    BY <1>2 DEF Invalidate, CanShare
  <2>2. work' = [v \in UIs |-> IF v \in phone_uis THEN "render" ELSE "done"]
    BY <1>2 DEF Invalidate
  <2> QED
    BY <1>2, <2>1, <2>2 DEF Invalidate
<1>3. ASSUME NEW u \in UIs, RenderUI(u) PROVE WorkInv'
  BY <1>3 DEF RenderUI
<1>4. ASSUME NEW u \in UIs, CacheUI(u) PROVE WorkInv'
  BY <1>4 DEF CacheUI
<1>5. ASSUME NEW u \in UIs, InitializeAction(u) PROVE WorkInv'
  BY <1>5 DEF InitializeAction
<1>6. ASSUME NEW u \in UIs, NEW a \in AoRs, Notify(u, a) PROVE WorkInv'
  BY <1>6 DEF Notify
<1>7. ASSUME NEW u \in UIs, Notified(u) PROVE WorkInv'
  BY <1>7 DEF Notified
<1>8. CASE InvalidateEnd
  BY <1>8 DEF InvalidateEnd
<1>9. ASSUME NEW a \in AoRs, NEW new \in BOOLEAN, SuccessfulAuth(a, new) PROVE WorkInv'
  BY <1>9 DEF SuccessfulAuth
<1>10. CASE GetPhoneUIs
  BY <1>10 DEF GetPhoneUIs
<1>11. ASSUME NEW u \in UIs, PublishNext(u) PROVE WorkInv'
  BY <1>11 DEF PublishNext
<1>12. ASSUME NEW u \in UIs, PublishCheck(u) PROVE WorkInv'
  BY <1>12 DEF PublishCheck
<1>13. CASE PublishEnd
  BY <1>13 DEF PublishEnd
<1>14. ASSUME NEW u \in UIs, RegisterUI(u) PROVE WorkInv'
  BY <1>14 DEF RegisterUI
<1>15. CASE RenderNewUI
  BY <1>15 DEF RenderNewUI
<1>16. CASE CacheNewUI
  BY <1>16 DEF CacheNewUI
<1>17. CASE RegisterUIEnd
  BY <1>17 DEF RegisterUIEnd
<1>18. CASE UNCHANGED vars
  BY <1>18 DEF vars
<1> QED
  BY <1>1, <1>2, <1>3, <1>4, <1>5, <1>6, <1>7, <1>8, <1>9, <1>10, <1>11, <1>12,
     <1>13, <1>14, <1>15, <1>16, <1>17, <1>18
  DEF Next, Event, HandleEvent, MainThread

\* One more button read leaves a faithful draft faithful, and all the other
\* drafts alone.
LEMMA RenderFaithful ==
    ASSUME TypeOK, NEW t \in Threads, NEW u \in UIs, Render(t, u), UNCHANGED lamps
    PROVE  /\ Faithful(lamps, draft[t][u]) => Faithful(lamps, draft'[t][u])
           /\ draft[t][u].crit_read \subseteq draft[t][u].led_read
                => draft'[t][u].crit_read \subseteq draft'[t][u].led_read
           /\ \A s \in Threads, v \in UIs :
                 <<s, v>> # <<t, u>> => draft'[s][v] = draft[s][v]
<1> PICK b \in Buttons : ReadLed(t, u, b) \/ ReadCritical(t, u, b)
  BY DEF Render
<1> DEFINE d == draft[t][u]
           e == draft'[t][u]
<1>1. d \in Drafts
  BY DEF TypeOK
<1>2. CASE ReadLed(t, u, b)
  <2>1. e = [d EXCEPT !.led_read = @ \cup {b},
                      !.lit = IF b \in lamps THEN @ \cup {b} ELSE @]
    BY <1>2 DEF ReadLed, TypeOK
  <2>2. /\ e.led_read = d.led_read \cup {b}
        /\ e.lit = IF b \in lamps THEN d.lit \cup {b} ELSE d.lit
        /\ e.crit_read = d.crit_read
        /\ e.critical = d.critical
    BY <1>1, <2>1 DEF Drafts
  <2>3. Faithful(lamps, d) => Faithful(lamps, e)
    BY <2>2 DEF Faithful
  <2> QED
    BY <1>2, <2>2, <2>3 DEF ReadLed, TypeOK
<1>3. CASE ReadCritical(t, u, b)
  <2>1. e = [d EXCEPT !.crit_read = @ \cup {b},
                      !.critical = @ \/ IsCritical(lamps, b)]
    BY <1>3 DEF ReadCritical, TypeOK
  <2>2. /\ e.led_read = d.led_read
        /\ e.lit = d.lit
        /\ e.crit_read = d.crit_read \cup {b}
        /\ e.critical = (d.critical \/ IsCritical(lamps, b))
    BY <1>1, <2>1 DEF Drafts
  <2>3. b \in d.led_read
    BY <1>3 DEF ReadCritical
  <2>4. AnyCritical(lamps, e.crit_read)
          = (AnyCritical(lamps, d.crit_read) \/ IsCritical(lamps, b))
    BY <2>2 DEF AnyCritical
  <2>5. Faithful(lamps, d) => Faithful(lamps, e)
    BY <2>2, <2>3, <2>4 DEF Faithful
  <2> QED
    BY <1>3, <2>2, <2>3, <2>5 DEF ReadCritical, TypeOK
<1> QED
  BY <1>2, <1>3

\* The same, for the UI that is being registered.
LEMMA RenderNewUIFaithful ==
    ASSUME TypeOK, RenderNewUI
    PROVE  /\ Faithful(lamps, draft["main"][new_ui])
                => Faithful(lamps, draft'["main"][new_ui])
           /\ draft["main"][new_ui].crit_read \subseteq draft["main"][new_ui].led_read
                => draft'["main"][new_ui].crit_read
                      \subseteq draft'["main"][new_ui].led_read
           /\ \A v \in UIs :
                /\ draft'["ami"][v] = draft["ami"][v]
                /\ v # new_ui => draft'["main"][v] = draft["main"][v]
<1>1. PICK w \in UIs : w = new_ui
  BY DEF TypeOK
<1>2. "main" \in Threads /\ "ami" \in Threads
  BY DEF Threads
<1>3. Render("main", w)
  BY <1>1 DEF RenderNewUI, Render, ReadLed, ReadCritical
<1>4. UNCHANGED lamps
  BY DEF RenderNewUI
<1>5. /\ Faithful(lamps, draft["main"][w]) => Faithful(lamps, draft'["main"][w])
      /\ draft["main"][w].crit_read \subseteq draft["main"][w].led_read
           => draft'["main"][w].crit_read \subseteq draft'["main"][w].led_read
      /\ \A s \in Threads, v \in UIs :
            <<s, v>> # <<"main", w>> => draft'[s][v] = draft[s][v]
  BY <1>2, <1>3, <1>4, RenderFaithful
<1> QED
  BY <1>1, <1>2, <1>5

\* What was read agrees with the lamps, or will be read again.
LEMMA DraftStep == TypeOK /\ LockInv /\ WorkInv /\ DraftInv /\ TypeOK' /\ [Next]_vars => DraftInv'
<1> SUFFICES ASSUME TypeOK, LockInv, WorkInv, DraftInv, TypeOK', [Next]_vars
             PROVE  DraftInv'
  OBVIOUS
<1> USE DEF lockVars, mainVars, authVars, sendVars, TypeOK, LockInv, WorkInv, DraftInv, CanShare
<1>1. ASSUME NEW b \in Buttons, NEW on \in BOOLEAN, SetOn(b, on) PROVE DraftInv'
  <2>1. ami = "idle" /\ lamps' \in SUBSET Buttons
    BY <1>1 DEF SetOn
  <2>2. \A u \in UIs : work[u] = "done" /\ draft["ami"][u] = EmptyDraft
    BY <2>1
  <2>3. \A u \in UIs : Faithful(lamps', draft'["ami"][u])
    BY <1>1, <2>1, <2>2, EmptyDraftFacts DEF SetOn
  <2>4. CASE on = (b \in lamps)
    <3>1. lamps' = lamps /\ ami' = "idle"
      BY <1>1, <2>4 DEF SetOn
    <3> QED
      BY <1>1, <2>3, <3>1 DEF SetOn
  <2>5. CASE on # (b \in lamps)
    <3>1. ami' = "lock_shared"
      BY <1>1, <2>5 DEF SetOn
    <3> QED
      BY <1>1, <2>3, <3>1 DEF SetOn
  <2> QED
    BY <2>4, <2>5
<1>2. CASE Invalidate
  BY <1>2 DEF Invalidate
<1>3. ASSUME NEW u \in UIs, RenderUI(u) PROVE DraftInv'
  <2>1. /\ Render("ami", u) /\ UNCHANGED lamps
        /\ "ami" \in Threads /\ "main" \in Threads
    BY <1>3 DEF RenderUI, Threads
  <2>2. /\ Faithful(lamps, draft'["ami"][u])
        /\ \A s \in Threads, v \in UIs :
              <<s, v>> # <<"ami", u>> => draft'[s][v] = draft[s][v]
    BY <2>1, RenderFaithful
  <2> QED
    BY <1>3, <2>1, <2>2 DEF RenderUI
<1>4. ASSUME NEW u \in UIs, CacheUI(u) PROVE DraftInv'
  <2>1. draft' = [draft EXCEPT !["ami"][u] = EmptyDraft]
    BY <1>4 DEF CacheUI, SetPhoneState
  <2>2. /\ draft'["ami"][u] = EmptyDraft
        /\ \A v \in UIs : v # u => draft'["ami"][v] = draft["ami"][v]
        /\ draft'["main"] = draft["main"]
    BY <2>1 DEF Threads
  <2> QED
    BY <1>4, <2>2, EmptyDraftFacts DEF CacheUI
<1>5. ASSUME NEW u \in UIs, InitializeAction(u) PROVE DraftInv'
  BY <1>5 DEF InitializeAction
<1>6. ASSUME NEW u \in UIs, NEW a \in AoRs, Notify(u, a) PROVE DraftInv'
  BY <1>6 DEF Notify
<1>7. ASSUME NEW u \in UIs, Notified(u) PROVE DraftInv'
  BY <1>7 DEF Notified
<1>8. CASE InvalidateEnd
  BY <1>8 DEF InvalidateEnd
<1>9. ASSUME NEW a \in AoRs, NEW new \in BOOLEAN, SuccessfulAuth(a, new) PROVE DraftInv'
  BY <1>9 DEF SuccessfulAuth
<1>10. CASE GetPhoneUIs
  BY <1>10 DEF GetPhoneUIs
<1>11. ASSUME NEW u \in UIs, PublishNext(u) PROVE DraftInv'
  BY <1>11 DEF PublishNext
<1>12. ASSUME NEW u \in UIs, PublishCheck(u) PROVE DraftInv'
  BY <1>12 DEF PublishCheck
<1>13. CASE PublishEnd
  BY <1>13 DEF PublishEnd
<1>14. ASSUME NEW u \in UIs, RegisterUI(u) PROVE DraftInv'
  <2>1. draft["main"][u] = EmptyDraft
    BY <1>14 DEF RegisterUI
  <2>2. /\ EmptyDraft.crit_read \subseteq EmptyDraft.led_read
        /\ Faithful(lamps, EmptyDraft)
    BY EmptyDraftFacts
  <2> QED
    BY <1>14, <2>1, <2>2 DEF RegisterUI
<1>15. CASE RenderNewUI
  <2>1. main = "render" /\ UNCHANGED <<lamps, ami, work, main, new_ui>>
    BY <1>15 DEF RenderNewUI
  <2>2. \A v \in UIs :
          /\ draft'["ami"][v] = draft["ami"][v]
          /\ v # new_ui => draft'["main"][v] = draft["main"][v]
    BY <1>15, RenderNewUIFaithful
  <2>3. /\ draft'["main"][new_ui].crit_read \subseteq draft'["main"][new_ui].led_read
        /\ ami # "lock_shared" => Faithful(lamps, draft'["main"][new_ui])
    BY <1>15, <2>1, RenderNewUIFaithful
  <2>4. \A v \in UIs :
          /\ Faithful(lamps', draft'["ami"][v])
          /\ work'[v] # "render" => draft'["ami"][v] = EmptyDraft
          /\ (main' # "render" \/ v # new_ui') => draft'["main"][v] = EmptyDraft
    BY <2>1, <2>2
  <2> QED
    BY <2>1, <2>3, <2>4
<1>16. CASE CacheNewUI
  <2>1. draft' = [draft EXCEPT !["main"][new_ui] = EmptyDraft]
    BY <1>16 DEF CacheNewUI, SetPhoneState
  <2>2. /\ draft'["main"][new_ui] = EmptyDraft
        /\ \A v \in UIs : v # new_ui => draft'["main"][v] = draft["main"][v]
        /\ draft'["ami"] = draft["ami"]
    BY <2>1 DEF Threads
  <2> QED
    BY <1>16, <2>2 DEF CacheNewUI
<1>17. CASE RegisterUIEnd
  BY <1>17 DEF RegisterUIEnd
<1>18. CASE UNCHANGED vars
  BY <1>18 DEF vars
<1> QED
  BY <1>1, <1>2, <1>3, <1>4, <1>5, <1>6, <1>7, <1>8, <1>9, <1>10, <1>11, <1>12,
     <1>13, <1>14, <1>15, <1>16, <1>17, <1>18
  DEF Next, Event, HandleEvent, MainThread

\* A finished faithful draft makes the page of the lamps.
LEMMA SetPhoneStatePage ==
    ASSUME TypeOK, NEW t \in Threads, NEW u \in UIs, SetPhoneState(t, u)
    PROVE  /\ cached'[u] # Blank
           /\ Faithful(lamps, draft[t][u]) => cached'[u] = PageOf(lamps)
           /\ \A v \in UIs : v # u => cached'[v] = cached[v]
<1> DEFINE d == draft[t][u]
           p == [lit |-> d.lit, critical |-> d.critical]
<1>1. d \in Drafts /\ d.crit_read = Buttons
  BY DEF TypeOK, SetPhoneState
<1>2. cached'[u] = p /\ \A v \in UIs : v # u => cached'[v] = cached[v]
  BY DEF TypeOK, SetPhoneState
<1>3. p \in Pages
  BY <1>1 DEF Drafts, Pages
<1>4. p # Blank
  BY <1>3, BlankAssumption
<1>5. ASSUME Faithful(lamps, d) PROVE p = PageOf(lamps)
  <2>1. d.led_read = Buttons
    BY <1>1, <1>5 DEF Faithful, Drafts
  <2>2. d.lit = lamps
    BY <1>5, <2>1 DEF Faithful, TypeOK
  <2>3. d.critical = AnyCritical(lamps, Buttons)
    BY <1>1, <1>5 DEF Faithful
  <2> QED
    BY <2>2, <2>3 DEF PageOf
<1> QED
  BY <1>2, <1>4, <1>5

\* The same for the UI that is being registered.
LEMMA CacheNewUIPage ==
    ASSUME TypeOK, CacheNewUI
    PROVE  /\ cached'[new_ui] # Blank
           /\ Faithful(lamps, draft["main"][new_ui]) => cached'[new_ui] = PageOf(lamps)
           /\ \A v \in UIs : v # new_ui => cached'[v] = cached[v]
<1>1. PICK w \in UIs : w = new_ui
  BY DEF TypeOK
<1>2. SetPhoneState("main", w) /\ "main" \in Threads
  BY <1>1 DEF CacheNewUI, SetPhoneState, Threads
<1> QED
  BY <1>1, <1>2, SetPhoneStatePage

\* Every page is the page of the lamps, unless it is still to be rendered.
LEMMA PageStep ==
    TypeOK /\ LockInv /\ WorkInv /\ DraftInv /\ PageInv /\ TypeOK' /\ [Next]_vars
        => PageInv'
<1> SUFFICES ASSUME TypeOK, LockInv, WorkInv, DraftInv, PageInv, TypeOK', [Next]_vars
             PROVE  PageInv'
  OBVIOUS
<1> USE DEF lockVars, mainVars, authVars, sendVars, TypeOK, LockInv, WorkInv, PageInv,
            Registered, CacheIsFresh, PhoneIsFresh, CanShare, CanOwn
<1>1. ASSUME NEW b \in Buttons, NEW on \in BOOLEAN, SetOn(b, on) PROVE PageInv'
  <2>1. /\ ami = "idle" /\ ami' \in {"idle", "lock_shared"}
        /\ ami' = "idle" => lamps' = lamps
        /\ UNCHANGED <<phone_uis, cached, work, action, unsent, main, new_ui, display>>
    BY <1>1 DEF SetOn
  <2>2. \A v \in UIs : work[v] = "done"
    BY <2>1
  <2> QED
    BY <2>1, <2>2
<1>2. CASE Invalidate
  BY <1>2 DEF Invalidate
<1>3. ASSUME NEW u \in UIs, RenderUI(u) PROVE PageInv'
  BY <1>3 DEF RenderUI
<1>4. ASSUME NEW u \in UIs, CacheUI(u) PROVE PageInv'
  <2>1. /\ work[u] = "render" /\ work' = [work EXCEPT ![u] = "initialize"]
        /\ SetPhoneState("ami", u) /\ "ami" \in Threads
        /\ UNCHANGED <<lamps, phone_uis, ami, action, unsent, main, new_ui, display>>
    BY <1>4 DEF CacheUI, Threads
  <2>2. Faithful(lamps, draft["ami"][u])
    BY DEF DraftInv
  <2>3. /\ cached'[u] # Blank /\ cached'[u] = PageOf(lamps)
        /\ \A v \in UIs : v # u => cached'[v] = cached[v]
    BY <2>1, <2>2, SetPhoneStatePage
  <2>4. ami = "invalidate" /\ main = "idle"
    BY <2>1
  <2> QED
    BY <2>1, <2>3, <2>4
<1>5. ASSUME NEW u \in UIs, InitializeAction(u) PROVE PageInv'
  BY <1>5 DEF InitializeAction
<1>6. ASSUME NEW u \in UIs, NEW a \in AoRs, Notify(u, a) PROVE PageInv'
  BY <1>6 DEF Notify
<1>7. ASSUME NEW u \in UIs, Notified(u) PROVE PageInv'
  BY <1>7 DEF Notified
<1>8. CASE InvalidateEnd
  BY <1>8 DEF InvalidateEnd
<1>9. ASSUME NEW a \in AoRs, NEW new \in BOOLEAN, SuccessfulAuth(a, new) PROVE PageInv'
  BY <1>9 DEF SuccessfulAuth
<1>10. CASE GetPhoneUIs
  BY <1>10 DEF GetPhoneUIs
<1>11. ASSUME NEW u \in UIs, PublishNext(u) PROVE PageInv'
  BY <1>11 DEF PublishNext
<1>12. ASSUME NEW u \in UIs, PublishCheck(u) PROVE PageInv'
  BY <1>12 DEF PublishCheck
<1>13. CASE PublishEnd
  BY <1>13 DEF PublishEnd
<1>14. ASSUME NEW u \in UIs, RegisterUI(u) PROVE PageInv'
  BY <1>14 DEF RegisterUI
<1>15. CASE RenderNewUI
  BY <1>15 DEF RenderNewUI
<1>16. CASE CacheNewUI
  <2>1. /\ main = "render" /\ main' = "unlock"
        /\ UNCHANGED <<lamps, phone_uis, ami, work, action, unsent, new_ui, display>>
    BY <1>16 DEF CacheNewUI
  <2>2. ami # "lock_shared" => Faithful(lamps, draft["main"][new_ui])
    BY <2>1 DEF DraftInv
  <2>3. /\ cached'[new_ui] # Blank
        /\ ami # "lock_shared" => cached'[new_ui] = PageOf(lamps)
        /\ \A v \in UIs : v # new_ui => cached'[v] = cached[v]
    BY <1>16, <2>2, CacheNewUIPage
  <2> QED
    BY <2>1, <2>3
<1>17. CASE RegisterUIEnd
  BY <1>17 DEF RegisterUIEnd
<1>18. CASE UNCHANGED vars
  BY <1>18 DEF vars
<1> QED
  BY <1>1, <1>2, <1>3, <1>4, <1>5, <1>6, <1>7, <1>8, <1>9, <1>10, <1>11, <1>12,
     <1>13, <1>14, <1>15, <1>16, <1>17, <1>18
  DEF Next, Event, HandleEvent, MainThread

LEMMA InvInit == Init => IInv
<1> SUFFICES ASSUME Init PROVE IInv
  OBVIOUS
<1>1. TypeOK
  BY TypeInit
<1>2. LockInv /\ WorkInv
  BY DEF Init, LockInv, WorkInv
<1>3. DraftInv
  <2>1. /\ main = "idle" /\ lamps \in SUBSET Buttons
        /\ \A t \in Threads, u \in UIs : draft[t][u] = EmptyDraft
    BY DEF Init
  <2> QED
    BY <2>1, EmptyDraftFacts DEF DraftInv, Threads
<1>4. PageInv
  BY DEF Init, PageInv, Registered, CacheIsFresh
<1> QED
  BY <1>1, <1>2, <1>3, <1>4 DEF IInv

LEMMA InvStep == IInv /\ [Next]_vars => IInv'
BY TypeStep, LockStep, WorkStep, DraftStep, PageStep DEF IInv

\* The invariant that everything below follows from.
THEOREM Invariance == Spec => []IInv
BY InvInit, InvStep, PTL DEF Spec

-----------------------------------------------------------------------------
(* The properties of ButtonPlan *)

\* A stale cached LED always has the invalidation that corrects it under way.
THEOREM StaleLampsPending == Spec => []StaleLampIsPending
<1>1. IInv => StaleLampIsPending
  <2> SUFFICES ASSUME IInv, NEW u \in Registered, NEW b \in Buttons,
                      (b \in cached[u].lit) # (b \in lamps)
               PROVE  Pending(u, b)
    BY DEF StaleLampIsPending
  <2>1. u \in UIs
    BY DEF IInv, TypeOK, Registered
  <2>2. cached[u] # PageOf(lamps)
    BY DEF PageOf
  <2>3. ami = "lock_shared" \/ (ami = "invalidate" /\ work[u] = "render")
    BY <2>1, <2>2 DEF IInv, TypeOK, PageInv, CacheIsFresh
  <2>4. Faithful(lamps, draft["ami"][u])
    BY <2>1 DEF IInv, DraftInv
  <2> QED
    BY <2>3, <2>4 DEF Pending, Faithful
<1> QED
  BY <1>1, Invariance, PTL

\* Between events every registered UI caches the page of its buttons, and its
\* phones show that page.
THEOREM SettledCurrent == Spec => []SettledIsCurrent
<1>1. IInv => SettledIsCurrent
  BY DEF IInv, TypeOK, PageInv, SettledIsCurrent, CacheIsFresh, PhoneIsFresh, Registered
<1> QED
  BY <1>1, Invariance, PTL

\* The pointer to a cached state is never followed while it is null.
THEOREM NullSafety == Spec => []NoNullState
<1>1. IInv => NoNullState
  BY DEF IInv, WorkInv, PageInv, NoNullState
<1> QED
  BY <1>1, Invariance, PTL

\* What a step sends to a phone is the page of the lamps.
LEMMA SentPage ==
    ASSUME IInv, [Next]_vars, NEW u \in UIs, NEW a \in AoRs,
           display'[u][a] # display[u][a]
    PROVE  display'[u][a] = PageOf(lamps) /\ UNCHANGED lamps
<1> USE DEF lockVars, mainVars, authVars, sendVars
<1>1. ASSUME NEW v \in UIs, NEW c \in AoRs, Notify(v, c)
      PROVE  display'[u][a] = PageOf(lamps) /\ UNCHANGED lamps
  <2>1. display' = [display EXCEPT ![v][c] = action[v]] /\ UNCHANGED lamps
    BY <1>1 DEF Notify
  <2>2. action[v] = PageOf(lamps)
    BY <1>1 DEF Notify, IInv, PageInv
  <2> QED
    BY <2>1, <2>2 DEF IInv, TypeOK
<1>2. UNCHANGED display \/ \E v \in UIs, c \in AoRs : Notify(v, c)
  BY DEF Next, Event, HandleEvent, MainThread, SetOn, Invalidate, RenderUI, CacheUI,
     InitializeAction, Notified, InvalidateEnd, SuccessfulAuth, GetPhoneUIs, PublishNext,
     PublishCheck, PublishEnd, RegisterUI, RenderNewUI, CacheNewUI, RegisterUIEnd, vars
<1> QED
  BY <1>1, <1>2

\* No phone is ever sent an older or a half-updated page.
THEOREM SentPagesCurrent == Spec => SentPageIsCurrent
<1>1. IInv /\ [Next]_vars =>
        [\A u \in UIs, a \in AoRs :
            display'[u][a] # display[u][a] => display'[u][a] = PageOf(lamps)]_vars
  BY SentPage
<1> QED
  BY <1>1, Invariance, PTL DEF Spec, SentPageIsCurrent

-----------------------------------------------------------------------------
(* ButtonPlan implements LampDisplay *)

\* Every step of ButtonPlan is a step of LampDisplay, or leaves what can be
\* seen of it unchanged.
LEMMA DisplayStep == IInv /\ [Next]_vars => [Promise!Next]_(Promise!dvars)
<1> SUFFICES ASSUME IInv, [Next]_vars PROVE [Promise!Next]_(Promise!dvars)
  OBVIOUS
<1> USE DEF lockVars, mainVars, authVars, sendVars
<1>1. ASSUME NEW b \in Buttons, NEW on \in BOOLEAN, SetOn(b, on)
      PROVE  [Promise!Next]_(Promise!dvars)
  <2>1. ami = "idle" /\ UNCHANGED display
    BY <1>1 DEF SetOn
  <2>2. CASE on = (b \in lamps)
    <3>1. UNCHANGED lamps
      BY <1>1, <2>2 DEF SetOn
    <3> QED
      BY <2>1, <3>1 DEF Promise!dvars
  <2>3. CASE on # (b \in lamps)
    <3>1. lamps' = IF b \in lamps THEN lamps \ {b} ELSE lamps \cup {b}
      BY <1>1, <2>3 DEF SetOn
    <3>2. \A u \in UIs, a \in AoRs : display[u][a] \in {Blank, PageOf(lamps)}
      BY <2>1 DEF IInv, PageInv, PhoneIsFresh
    <3>3. \A u \in UIs, a \in AoRs : ~ Promise!Behind(u, a)
      BY <3>2 DEF Promise!Behind, Promise!PageOf, Promise!AnyCritical, Promise!IsCritical,
                  PageOf, AnyCritical, IsCritical
    <3>4. Promise!Change
      BY <2>1, <3>1, <3>3 DEF Promise!Change
    <3> QED
      BY <3>4 DEF Promise!Next
  <2> QED
    BY <2>2, <2>3
<1>2. ASSUME NEW u \in UIs, NEW a \in AoRs, Notify(u, a)
      PROVE  [Promise!Next]_(Promise!dvars)
  <2>1. action[u] = PageOf(lamps)
    BY <1>2 DEF Notify, IInv, PageInv
  <2>2. display' = [display EXCEPT ![u][a] = PageOf(lamps)] /\ UNCHANGED lamps
    BY <1>2, <2>1 DEF Notify
  <2>3. Promise!Show(u, a)
    BY <2>2 DEF Promise!Show, Promise!PageOf, Promise!AnyCritical, Promise!IsCritical,
                PageOf, AnyCritical, IsCritical
  <2> QED
    BY <2>3 DEF Promise!Next
<1>3. \/ \E b \in Buttons, on \in BOOLEAN : SetOn(b, on)
      \/ \E u \in UIs, a \in AoRs : Notify(u, a)
      \/ UNCHANGED <<lamps, display>>
  BY DEF Next, Event, HandleEvent, MainThread, Invalidate, RenderUI, CacheUI,
     InitializeAction, Notified, InvalidateEnd, SuccessfulAuth, GetPhoneUIs, PublishNext,
     PublishCheck, PublishEnd, RegisterUI, RenderNewUI, CacheNewUI, RegisterUIEnd, vars
<1> QED
  BY <1>1, <1>2, <1>3 DEF Promise!dvars

\* No phone is ever more than one change of the lamps behind: the safety part
\* of what LampDisplay promises.
THEOREM ImplementsDisplaySafety == Spec => Promise!Safety
<1>1. Init => Promise!Init
  BY DEF Init, Promise!Init
<1> QED
  BY <1>1, DisplayStep, Invariance, PTL DEF Spec, Promise!Safety

=============================================================================
