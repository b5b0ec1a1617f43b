------------------------ MODULE DeskphoneCache_proofs ------------------------
(***************************************************************************)
(* Proofs about DeskphoneCache, for any phones, endpoints and bounds.      *)
(***************************************************************************)
EXTENDS DeskphoneCache, ListLemmas

\* The three kinds of call and request are told apart by their fields.
LEMMA RequestTypes ==
    /\ \A k \in Keys, t \in 1 .. MaxTime :
         [action |-> "aor_insert", key |-> k, expiry |-> t + Expiry] \in Inserts
    /\ \A a \in AoRs, ip \in IPs :
         [action |-> "aor_remove", aor |-> a, ip |-> ip] \in Removes
BY ExpiryAssumption, BoundsAssumption DEF Inserts, Removes, Expiries

LEMMA CallTypes ==
    /\ \A c \in Calls : c # NobodyCalls =>
         c.key \in Keys /\ c.found \in BOOLEAN /\ c.time \in 1 .. MaxTime
    /\ \A k \in Keys, f \in BOOLEAN, t \in 1 .. MaxTime :
         [at |-> "enqueue", key |-> k, found |-> f, time |-> t] \in Calls
BY DEF Calls

\* Executing a request makes a table of a table.
LEMMA ExecuteType ==
    ASSUME NEW tab \in Tables, NEW r \in Requests
    PROVE  Execute(tab, r) \in Tables
<1>1. 0 \in Expiries
  BY ExpiryAssumption, BoundsAssumption DEF Expiries
<1>2. CASE r \in Inserts
  BY <1>2 DEF Execute, Tables, Inserts
<1>3. CASE r \in Removes
  BY <1>1, <1>3 DEF Execute, Tables, Removes
<1> QED
  BY <1>2, <1>3 DEF Requests

LEMMA TypeInit == Init => TypeOK
<1>1. NoRecords \in Tables
  BY ExpiryAssumption, BoundsAssumption DEF NoRecords, Tables, Expiries
<1>2. NobodyCalls \in Calls
  BY DEF Calls
<1>3. <<>> \in Seq(Requests) /\ Len(<<>>) = 0
  BY EmptySeq
<1> QED
  BY <1>1, <1>2, <1>3, BoundsAssumption DEF Init, TypeOK, Pending

\* Every step keeps the variables in their types, and the queue in its bound.
LEMMA TypeStep == TypeOK /\ [Next]_vars => TypeOK'
<1> SUFFICES ASSUME TypeOK, [Next]_vars PROVE TypeOK'
  OBVIOUS
<1> USE BoundsAssumption DEF TypeOK, NotifyOne, Pending
<1>1. ASSUME NEW k \in Keys, AddEndpointQuery(k) PROVE TypeOK'
  <2>1. (db[k] > now) \in BOOLEAN
    OBVIOUS
  <2>2. caller' \in Calls /\ caller' # NobodyCalls
    BY <1>1, <2>1, CallTypes DEF AddEndpointQuery, NobodyCalls
  <2> QED
    BY <1>1, <2>2 DEF AddEndpointQuery
<1>2. CASE AddEndpointEnqueue
  <2>1. caller.key \in Keys /\ caller.time \in 1 .. MaxTime
    BY <1>2, CallTypes DEF AddEndpointEnqueue
  <2> DEFINE r == [action |-> "aor_insert", key |-> caller.key,
                   expiry |-> caller.time + Expiry]
  <2>2. r \in Requests
    BY <2>1, RequestTypes DEF Requests
  <2>3. batch_' = Append(batch_, r) /\ batch_' \in Seq(Requests)
        /\ Len(batch_') = Len(batch_) + 1
    BY <1>2, <2>2 DEF AddEndpointEnqueue
  <2>4. caller # NobodyCalls /\ caller' = NobodyCalls /\ NobodyCalls \in Calls
    BY <1>2 DEF AddEndpointEnqueue, Calls
  <2>5. announced' \in SUBSET Keys
    BY <1>2, <2>1 DEF AddEndpointEnqueue
  <2> QED
    BY <1>2, <2>3, <2>4, <2>5 DEF AddEndpointEnqueue
<1>3. ASSUME NEW a \in AoRs, NEW ip \in IPs, DeleteEndpoint(a, ip) PROVE TypeOK'
  BY <1>3, RequestTypes DEF DeleteEndpoint, Requests
<1>4. CASE WriterWhile
  BY <1>4 DEF WriterWhile
<1>5. CASE WriterLock
  BY <1>5 DEF WriterLock
<1>6. CASE WriterSwap
  BY <1>6 DEF WriterSwap
<1>7. CASE WriterWait
  BY <1>7 DEF WriterWait
<1>8. CASE WriterBegin
  BY <1>8 DEF WriterBegin
<1>9. CASE WriterExecute
  BY <1>9, ExecuteType DEF WriterExecute
<1>10. CASE WriterCommit
  BY <1>10 DEF WriterCommit
<1>11. CASE SpuriousWakeup
  BY <1>11 DEF SpuriousWakeup
<1>12. CASE StopWriteThread
  BY <1>12 DEF StopWriteThread
<1>13. CASE StopNotify
  BY <1>13 DEF StopNotify
<1>14. CASE StopJoin
  BY <1>14, ExpiryAssumption DEF StopJoin, Tables, Expiries
<1>15. CASE Restart
  <2>1. NoRecords \in Tables
    BY ExpiryAssumption DEF NoRecords, Tables, Expiries
  <2>2. NobodyCalls \in Calls
    BY DEF Calls
  <2>3. <<>> \in Seq(Requests) /\ Len(<<>>) = 0
    BY EmptySeq
  <2> QED
    BY <1>15, <2>1, <2>2, <2>3 DEF Restart, InitializeDatabase
<1>16. CASE Tick
  BY <1>16 DEF Tick
<1>17. CASE UNCHANGED vars
  BY <1>17 DEF vars
<1> QED
  BY <1>1, <1>2, <1>3, <1>4, <1>5, <1>6, <1>7, <1>8, <1>9, <1>10, <1>11, <1>12,
     <1>13, <1>14, <1>15, <1>16, <1>17
  DEF Next, Request, Writer, Stop

\* Type correctness of every behaviour (the variables of DeskphoneCache).
THEOREM TypeCorrect == Spec => []TypeOK
BY TypeInit, TypeStep, PTL DEF Spec
-----------------------------------------------------------------------------
(* A phone that is called known was called new before *)

LEMMA AnnouncedInit == Init => AnnouncedInv
BY DEF Init, AnnouncedInv, RecordsAnnounced, RequestsAnnounced, KnownWasAnnounced,
       NoRecords

\* One more request keeps the invariant on a queue, if what it adds is announced.
LEMMA AppendAnnounced ==
    ASSUME NEW todo \in Seq(Requests), NEW r \in Requests, NEW known,
           \A i \in 1 .. Len(todo) : todo[i].action = "aor_insert" => todo[i].key \in known,
           r.action = "aor_insert" => r.key \in known
    PROVE  \A i \in 1 .. Len(Append(todo, r)) :
              Append(todo, r)[i].action = "aor_insert" => Append(todo, r)[i].key \in known
<1> TAKE i \in 1 .. Len(Append(todo, r))
<1>1. CASE i \in 1 .. Len(todo)
  <2>1. Append(todo, r)[i] = todo[i]
    BY <1>1
  <2> QED
    BY <1>1, <2>1
<1>2. CASE i = Len(todo) + 1
  <2>1. Append(todo, r)[i] = r
    BY <1>2
  <2> QED
    BY <2>1
<1> QED
  BY <1>1, <1>2

LEMMA AnnouncedStep == TypeOK /\ AnnouncedInv /\ [Next]_vars => AnnouncedInv'
<1> SUFFICES ASSUME TypeOK, AnnouncedInv, [Next]_vars PROVE AnnouncedInv'
  OBVIOUS
<1> USE DEF TypeOK, AnnouncedInv, RecordsAnnounced, RequestsAnnounced, KnownWasAnnounced
<1>1. ASSUME NEW k \in Keys, AddEndpointQuery(k) PROVE AnnouncedInv'
  <2>1. caller' = [at |-> "enqueue", key |-> k, found |-> db[k] > now, time |-> now]
    BY <1>1 DEF AddEndpointQuery
  <2>2. db[k] > now => db[k] # 0
    BY BoundsAssumption
  <2>3. caller'.found => caller'.key \in announced
    BY <2>1, <2>2
  <2> QED
    BY <1>1, <2>3 DEF AddEndpointQuery
<1>2. CASE AddEndpointEnqueue
  <2> DEFINE r == [action |-> "aor_insert", key |-> caller.key,
                   expiry |-> caller.time + Expiry]
  <2>1. caller.key \in Keys /\ caller.time \in 1 .. MaxTime
    BY <1>2, CallTypes DEF AddEndpointEnqueue
  <2>2. r \in Requests /\ r.action = "aor_insert" /\ r.key = caller.key
    BY <2>1, RequestTypes DEF Requests
  <2>3. announced \subseteq announced' /\ caller.key \in announced'
    BY <1>2 DEF AddEndpointEnqueue
  <2>4. batch_' = Append(batch_, r)
    BY <1>2 DEF AddEndpointEnqueue
  <2>5. RequestsAnnounced(batch_)'
    BY <2>2, <2>3, <2>4, AppendAnnounced
  <2> QED
    BY <1>2, <2>3, <2>5 DEF AddEndpointEnqueue
<1>3. ASSUME NEW a \in AoRs, NEW ip \in IPs, DeleteEndpoint(a, ip) PROVE AnnouncedInv'
  <2> DEFINE r == [action |-> "aor_remove", aor |-> a, ip |-> ip]
  <2>1. r \in Requests /\ r.action # "aor_insert"
    BY RequestTypes DEF Requests
  <2>2. batch_' = Append(batch_, r) /\ UNCHANGED announced
    BY <1>3 DEF DeleteEndpoint
  <2>3. RequestsAnnounced(batch_)'
    BY <2>1, <2>2, AppendAnnounced
  <2> QED
    BY <1>3, <2>3 DEF DeleteEndpoint
<1>4. CASE WriterWhile
  BY <1>4 DEF WriterWhile
<1>5. CASE WriterLock
  BY <1>5 DEF WriterLock
<1>6. CASE WriterSwap
  BY <1>6 DEF WriterSwap
<1>7. CASE WriterWait
  BY <1>7 DEF WriterWait
<1>8. CASE WriterBegin
  BY <1>8 DEF WriterBegin
<1>9. CASE WriterExecute
  <2> DEFINE r == Head(batch)
  <2>1. /\ batch # <<>> /\ batch' = Tail(batch) /\ tx' = Execute(tx, r)
        /\ UNCHANGED <<db, batch_, caller, now, announced>>
    BY <1>9 DEF WriterExecute
  <2>2. 1 \in 1 .. Len(batch) /\ r = batch[1] /\ r \in Requests
    BY <2>1
  <2>3. RecordsAnnounced(tx)'
    <3>1. CASE r \in Inserts
      BY <2>1, <2>2, <3>1 DEF Execute, Inserts, Tables
    <3>2. CASE r \in Removes
      BY <2>1, <2>2, <3>2 DEF Execute, Removes, Tables
    <3> QED
      BY <2>2, <3>1, <3>2 DEF Requests
  <2>4. \A i \in 1 .. Len(batch') : i + 1 \in 1 .. Len(batch) /\ batch'[i] = batch[i + 1]
    BY <2>1
  <2>5. RequestsAnnounced(batch)'
    BY <2>1, <2>4
  <2> QED
    BY <2>1, <2>3, <2>5
<1>10. CASE WriterCommit
  BY <1>10 DEF WriterCommit
<1>11. CASE SpuriousWakeup
  BY <1>11 DEF SpuriousWakeup
<1>12. CASE StopWriteThread
  BY <1>12 DEF StopWriteThread
<1>13. CASE StopNotify
  BY <1>13 DEF StopNotify
<1>14. CASE StopJoin
  BY <1>14 DEF StopJoin
<1>15. CASE Restart
  BY <1>15 DEF Restart, InitializeDatabase, NoRecords
<1>16. CASE Tick
  BY <1>16 DEF Tick
<1>17. CASE UNCHANGED vars
  BY <1>17 DEF vars
<1> QED
  BY <1>1, <1>2, <1>3, <1>4, <1>5, <1>6, <1>7, <1>8, <1>9, <1>10, <1>11, <1>12,
     <1>13, <1>14, <1>15, <1>16, <1>17
  DEF Next, Request, Writer, Stop

LEMMA BatchInit == Init => BatchInv
BY DEF Init, BatchInv

\* The writer's batch is not empty only between the swap and the commit.
LEMMA BatchStep == TypeOK /\ BatchInv /\ [Next]_vars => BatchInv'
<1> SUFFICES ASSUME TypeOK, BatchInv, [Next]_vars PROVE BatchInv'
  OBVIOUS
<1> USE DEF BatchInv, NotifyOne
<1>1. ASSUME NEW k \in Keys, AddEndpointQuery(k) PROVE BatchInv'
  BY <1>1 DEF TypeOK, AddEndpointQuery
<1>2. CASE AddEndpointEnqueue
  BY <1>2 DEF AddEndpointEnqueue
<1>3. ASSUME NEW a \in AoRs, NEW ip \in IPs, DeleteEndpoint(a, ip) PROVE BatchInv'
  BY <1>3 DEF DeleteEndpoint
<1>4. CASE WriterWhile \/ WriterLock \/ WriterSwap \/ WriterWait \/ SpuriousWakeup
  BY <1>4 DEF WriterWhile, WriterLock, WriterSwap, WriterWait, SpuriousWakeup
<1>5. CASE WriterBegin \/ WriterExecute \/ WriterCommit
  BY <1>5 DEF WriterBegin, WriterExecute, WriterCommit
<1>6. CASE StopWriteThread \/ StopNotify \/ StopJoin
  BY <1>6 DEF StopWriteThread, StopNotify, StopJoin
<1>7. CASE Restart
  BY <1>7 DEF Restart
<1>8. CASE Tick
  <2>1. caller # NobodyCalls => caller.time \in 1 .. MaxTime
    BY CallTypes DEF TypeOK
  <2> QED
    BY <1>8, <2>1 DEF Tick, TypeOK
<1>9. CASE UNCHANGED vars
  BY <1>9 DEF vars
<1> QED
  BY <1>1, <1>2, <1>3, <1>4, <1>5, <1>6, <1>7, <1>8, <1>9
  DEF Next, Request, Writer, Stop

\* The inductive invariant of the cache.
THEOREM Invariance == Spec => []IInv
<1>1. Init => IInv
  BY TypeInit, AnnouncedInit, BatchInit DEF IInv
<1>2. IInv /\ [Next]_vars => IInv'
  BY TypeStep, AnnouncedStep, BatchStep DEF IInv
<1> QED
  BY <1>1, <1>2, PTL DEF Spec

\* addEndpoint calls a phone known only if it called it new before in this run
\* of the program.
THEOREM KnownAnnounced == Spec => []KnownWasAnnounced
<1>1. IInv => KnownWasAnnounced
  BY DEF IInv, AnnouncedInv
<1> QED
  BY <1>1, Invariance, PTL
-----------------------------------------------------------------------------
(* What a queue of requests does to a table *)

\* LastHit is the greatest of the hits, and the only one that is.
LEMMA LastHitIsLast ==
    ASSUME NEW todo \in Seq(Requests), NEW k \in Keys, Hits(k, todo) # {}
    PROVE  /\ LastHit(k, todo) \in Hits(k, todo)
           /\ \A j \in Hits(k, todo) : j <= LastHit(k, todo)
           /\ LastHit(k, todo) \in 1 .. Len(todo)
<1>1. Len(todo) \in Nat /\ Hits(k, todo) \in SUBSET (1 .. Len(todo))
  BY DEF Hits
<1>2. \E x \in Hits(k, todo) : \A y \in Hits(k, todo) : y <= x
  BY <1>1, GreatestExists
<1> QED
  BY <1>1, <1>2 DEF LastHit

LEMMA LastHitUnique ==
    ASSUME NEW todo \in Seq(Requests), NEW k \in Keys, NEW i \in Hits(k, todo),
           \A j \in Hits(k, todo) : j <= i
    PROVE  LastHit(k, todo) = i
<1>1. /\ LastHit(k, todo) \in Hits(k, todo) /\ i <= LastHit(k, todo)
      /\ LastHit(k, todo) <= i /\ i \in Nat /\ LastHit(k, todo) \in Nat
  BY LastHitIsLast DEF Hits
<1> QED
  BY <1>1

\* A request changes the records it is about, to a value that does not depend
\* on the table, and no others.
LEMMA ExecuteHit ==
    ASSUME NEW tab \in Tables, NEW r \in Requests, NEW k \in Keys
    PROVE  /\ ~ Hit(k, r) => Execute(tab, r)[k] = tab[k]
           /\ \A other \in Tables :
                Hit(k, r) => Execute(tab, r)[k] = Execute(other, r)[k]
<1>1. CASE r \in Inserts
  BY <1>1 DEF Execute, Hit, Inserts, Tables
<1>2. CASE r \in Removes
  BY <1>2 DEF Execute, Hit, Removes, Tables
<1> QED
  BY <1>1, <1>2 DEF Requests

LEMMA OverlayType ==
    ASSUME NEW tab \in Tables, NEW todo \in Seq(Requests)
    PROVE  Overlay(tab, todo) \in Tables
<1>1. ASSUME NEW k \in Keys, Hits(k, todo) # {}
      PROVE  Execute(tab, todo[LastHit(k, todo)])[k] \in Expiries
  <2>1. todo[LastHit(k, todo)] \in Requests
    BY <1>1, LastHitIsLast
  <2>2. Execute(tab, todo[LastHit(k, todo)]) \in Tables
    BY <2>1, ExecuteType
  <2> QED
    BY <2>2 DEF Tables
<1> QED
  BY <1>1 DEF Overlay, Tables

LEMMA OverlayEmpty ==
    ASSUME NEW tab \in Tables
    PROVE  Overlay(tab, <<>>) = tab
<1>1. \A k \in Keys : Hits(k, <<>>) = {}
  BY DEF Hits
<1> QED
  BY <1>1 DEF Overlay, Tables

\* A request at the end of the queue acts on the table the others make.
LEMMA OverlayAppend ==
    ASSUME NEW tab \in Tables, NEW todo \in Seq(Requests), NEW r \in Requests
    PROVE  Overlay(tab, Append(todo, r)) = Execute(Overlay(tab, todo), r)
<1> DEFINE n == Len(todo)
           more == Append(todo, r)
<1>1. /\ more \in Seq(Requests) /\ Len(more) = n + 1 /\ n \in Nat
      /\ more[n + 1] = r /\ \A i \in 1 .. n : more[i] = todo[i]
  OBVIOUS
<1> HIDE DEF more
<1>2. /\ Overlay(tab, todo) \in Tables
      /\ Execute(Overlay(tab, todo), r) \in Tables
      /\ Overlay(tab, more) \in Tables
  BY <1>1, OverlayType, ExecuteType
<1>3. ASSUME NEW k \in Keys
      PROVE  Overlay(tab, more)[k] = Execute(Overlay(tab, todo), r)[k]
  <2>1. CASE Hit(k, r)
    <3>1. n + 1 \in Hits(k, more) /\ \A j \in Hits(k, more) : j <= n + 1
      BY <1>1, <2>1 DEF Hits
    <3>2. LastHit(k, more) = n + 1
      BY <1>1, <3>1, LastHitUnique
    <3>3. Overlay(tab, more)[k] = Execute(tab, r)[k]
      BY <1>1, <3>1, <3>2 DEF Overlay
    <3> QED
      BY <1>2, <2>1, <3>3, ExecuteHit
  <2>2. CASE ~ Hit(k, r)
    <3>1. Hits(k, more) = Hits(k, todo)
      BY <1>1, <2>2 DEF Hits
    <3>2. Execute(Overlay(tab, todo), r)[k] = Overlay(tab, todo)[k]
      BY <1>2, <2>2, ExecuteHit
    <3>3. CASE Hits(k, todo) = {}
      BY <3>1, <3>2, <3>3 DEF Overlay
    <3>4. CASE Hits(k, todo) # {}
      <4>1. LastHit(k, more) = LastHit(k, todo)
        BY <3>1 DEF LastHit
      <4>2. LastHit(k, todo) \in 1 .. n
        BY <3>4, LastHitIsLast
      <4>3. more[LastHit(k, more)] = todo[LastHit(k, todo)]
        BY <1>1, <4>1, <4>2
      <4> QED
        BY <3>1, <3>2, <3>4, <4>3 DEF Overlay
    <3> QED
      BY <3>3, <3>4
  <2> QED
    BY <2>1, <2>2
<1>4. Overlay(tab, more) = Execute(Overlay(tab, todo), r)
  BY <1>2, <1>3 DEF Tables
<1> QED
  BY <1>4 DEF more

\* Executing the first request of the queue does not change what the queue
\* makes of the table.
LEMMA OverlayHeadTail ==
    ASSUME NEW tab \in Tables, NEW todo \in Seq(Requests), todo # <<>>
    PROVE  Overlay(Execute(tab, Head(todo)), Tail(todo)) = Overlay(tab, todo)
<1> DEFINE rest == Tail(todo)
           r == Head(todo)
           tab1 == Execute(tab, r)
<1>1. /\ rest \in Seq(Requests) /\ Len(todo) = Len(rest) + 1 /\ Len(rest) \in Nat
      /\ r = todo[1] /\ r \in Requests
      /\ \A i \in 1 .. Len(rest) : rest[i] = todo[i + 1]
  OBVIOUS
<1>2. tab1 \in Tables
  BY <1>1, ExecuteType
<1> HIDE DEF rest, r, tab1
<1>3. Overlay(tab1, rest) \in Tables /\ Overlay(tab, todo) \in Tables
  BY <1>1, <1>2, OverlayType
<1>4. ASSUME NEW k \in Keys
      PROVE  Overlay(tab1, rest)[k] = Overlay(tab, todo)[k]
  <2>1. CASE Hits(k, rest) # {}
    <3> DEFINE i == LastHit(k, rest)
    <3>1. i \in Hits(k, rest) /\ i \in 1 .. Len(rest) /\ \A j \in Hits(k, rest) : j <= i
      BY <1>1, <2>1, LastHitIsLast
    <3>2. i + 1 \in Hits(k, todo)
      BY <1>1, <3>1 DEF Hits
    <3>3. ASSUME NEW j \in Hits(k, todo) PROVE j <= i + 1
      <4>1. CASE j = 1
        BY <3>1, <4>1
      <4>2. CASE j # 1
        <5>1. j - 1 \in Hits(k, rest)
          BY <1>1, <4>2 DEF Hits
        <5> QED
          BY <3>1, <5>1 DEF Hits
      <4> QED
        BY <4>1, <4>2
    <3>4. LastHit(k, todo) = i + 1
      BY <3>2, <3>3, LastHitUnique
    <3>5. rest[i] = todo[i + 1] /\ rest[i] \in Requests /\ Hit(k, rest[i])
      BY <1>1, <3>1 DEF Hits
    <3>6. Overlay(tab, todo)[k] = Execute(tab, rest[i])[k]
      BY <3>2, <3>4, <3>5 DEF Overlay
    <3>7. Overlay(tab1, rest)[k] = Execute(tab1, rest[i])[k]
      BY <2>1 DEF Overlay
    <3> QED
      BY <1>2, <3>5, <3>6, <3>7, ExecuteHit
  <2>2. CASE Hits(k, rest) = {}
    <3>1. Overlay(tab1, rest)[k] = tab1[k]
      BY <2>2 DEF Overlay
    <3>2. \A j \in Hits(k, todo) : j = 1
      <4> SUFFICES ASSUME NEW j \in Hits(k, todo), j # 1 PROVE FALSE
        OBVIOUS
      <4>1. j - 1 \in Hits(k, rest)
        BY <1>1 DEF Hits
      <4> QED
        BY <2>2, <4>1
    <3>3. CASE Hit(k, r)
      <4>1. 1 \in Hits(k, todo)
        BY <1>1, <3>3 DEF Hits
      <4>2. LastHit(k, todo) = 1
        BY <3>2, <4>1, LastHitUnique
      <4> QED
        BY <1>1, <3>1, <4>1, <4>2 DEF Overlay, tab1
    <3>4. CASE ~ Hit(k, r)
      <4>1. Hits(k, todo) = {}
        BY <1>1, <3>2, <3>4 DEF Hits
      <4> QED
        BY <1>1, <3>1, <3>4, <4>1, ExecuteHit DEF Overlay, tab1
    <3> QED
      BY <3>3, <3>4
  <2> QED
    BY <2>1, <2>2
<1>5. Overlay(tab1, rest) = Overlay(tab, todo)
  BY <1>3, <1>4 DEF Tables
<1> QED
  BY <1>5 DEF rest, r, tab1
-----------------------------------------------------------------------------
(* The cache implements EndpointTable *)

\* Facts about the two halves of the queue: what the writer took, and the rest.
LEMMA QueueAppend ==
    ASSUME NEW s \in Seq(Requests), NEW t \in Seq(Requests), NEW r \in Requests
    PROVE  s \o Append(t, r) = Append(s \o t, r)
<1>1. <<r>> \in Seq(Requests) /\ s \o t \in Seq(Requests)
  BY ConcatProperties
<1>2. Append(t, r) = t \o <<r>> /\ Append(s \o t, r) = (s \o t) \o <<r>>
  BY <1>1, AppendIsConcat
<1> QED
  BY <1>1, <1>2, ConcatAssociative

LEMMA QueueHeadTail ==
    ASSUME NEW s \in Seq(Requests), NEW t \in Seq(Requests), s # <<>>
    PROVE  /\ s \o t \in Seq(Requests) /\ s \o t # <<>>
           /\ Head(s \o t) = Head(s)
           /\ Tail(s \o t) = Tail(s) \o t
<1>1. /\ s \o t \in Seq(Requests) /\ Len(s \o t) = Len(s) + Len(t)
      /\ Len(s) \in Nat \ {0} /\ Len(t) \in Nat
      /\ \A i \in 1 .. Len(s) + Len(t) :
            (s \o t)[i] = IF i <= Len(s) THEN s[i] ELSE t[i - Len(s)]
  BY ConcatProperties
<1>2. s \o t # <<>>
  BY <1>1
<1>3. Head(s \o t) = Head(s)
  BY <1>1
<1>4. /\ Tail(s) \in Seq(Requests) /\ Len(Tail(s)) = Len(s) - 1
      /\ \A i \in 1 .. Len(s) - 1 : Tail(s)[i] = s[i + 1]
  BY HeadTailProperties
<1>5. /\ Tail(s \o t) \in Seq(Requests) /\ Len(Tail(s \o t)) = Len(s) + Len(t) - 1
      /\ \A i \in 1 .. Len(s) + Len(t) - 1 : Tail(s \o t)[i] = (s \o t)[i + 1]
  BY <1>1, <1>2, HeadTailProperties
<1>6. /\ Tail(s) \o t \in Seq(Requests)
      /\ Len(Tail(s) \o t) = Len(s) + Len(t) - 1
      /\ \A i \in 1 .. Len(s) + Len(t) - 1 :
            (Tail(s) \o t)[i] = IF i <= Len(s) - 1 THEN Tail(s)[i] ELSE t[i - (Len(s) - 1)]
  BY <1>1, <1>4, ConcatProperties
<1>7. ASSUME NEW i \in 1 .. Len(s) + Len(t) - 1
      PROVE  Tail(s \o t)[i] = (Tail(s) \o t)[i]
  <2>1. i + 1 \in 1 .. Len(s) + Len(t) /\ (i + 1 <= Len(s) <=> i <= Len(s) - 1)
    BY <1>1
  <2>2. Tail(s \o t)[i] = IF i + 1 <= Len(s) THEN s[i + 1] ELSE t[i + 1 - Len(s)]
    BY <1>1, <1>5, <2>1
  <2>3. i + 1 - Len(s) = i - (Len(s) - 1)
    BY <1>1
  <2>4. i <= Len(s) - 1 => Tail(s)[i] = s[i + 1]
    BY <1>1, <1>4
  <2> QED
    BY <1>6, <2>1, <2>2, <2>3, <2>4
<1>8. Tail(s \o t) = Tail(s) \o t
  BY <1>5, <1>6, <1>7, SeqEqual
<1> QED
  BY <1>1, <1>2, <1>3, <1>8

\* The table the pending requests are applied to, and those requests.
Base == IF writer = "execute" THEN tx ELSE db
Queue == batch \o batch_

LEMMA QueueType ==
    ASSUME TypeOK
    PROVE  Base \in Tables /\ Queue \in Seq(Requests) /\ Requested \in Tables
<1>1. Base \in Tables /\ Queue \in Seq(Requests)
  BY ConcatProperties DEF TypeOK, Base, Queue
<1> QED
  BY <1>1, OverlayType DEF Requested, Base, Queue

LEMMA RequestedUnchanged ==
    ASSUME Base' = Base, Queue' = Queue
    PROVE  Requested' = Requested
BY DEF Requested, Base, Queue

\* A request that is made acts on the table at once.
LEMMA RequestedAppend ==
    ASSUME TypeOK, NEW r \in Requests, batch_' = Append(batch_, r), UNCHANGED batch,
           Base' = Base
    PROVE  Requested' = Execute(Requested, r)
<1>1. Queue' = Append(Queue, r)
  BY QueueAppend DEF Queue, TypeOK
<1>2. Requested = Overlay(Base, Queue)
  BY DEF Requested, Base, Queue
<1>3. Requested' = Overlay(Base', Queue')
  BY DEF Requested, Base, Queue
<1>4. Overlay(Base, Append(Queue, r)) = Execute(Overlay(Base, Queue), r)
  BY QueueType, OverlayAppend
<1> QED
  BY <1>1, <1>2, <1>3, <1>4

\* Every step makes one change to the table of the requests, or none.
LEMMA TableStep == IInv /\ [Next]_vars => [Table!Next]_(Table!tvars)
<1> SUFFICES ASSUME IInv, [Next]_vars PROVE [Table!Next]_(Table!tvars)
  OBVIOUS
<1> USE DEF NotifyOne
<1>0. TypeOK /\ BatchInv /\ IInv
  BY DEF IInv
<1>1. ASSUME Base' = Base, Queue' = Queue, now' = now PROVE UNCHANGED Table!tvars
  BY <1>1, RequestedUnchanged DEF Table!tvars
<1>2. ASSUME NEW k \in Keys, AddEndpointQuery(k) PROVE UNCHANGED Table!tvars
  BY <1>1, <1>2 DEF AddEndpointQuery, Base, Queue
<1>3. CASE AddEndpointEnqueue
  <2> DEFINE r == [action |-> "aor_insert", key |-> caller.key,
                   expiry |-> caller.time + Expiry]
  <2>1. caller.key \in Keys /\ caller.time \in 1 .. MaxTime /\ caller.time <= now
        /\ now \in 1 .. MaxTime
    BY <1>0, <1>3, CallTypes DEF AddEndpointEnqueue, TypeOK, BatchInv
  <2>2. r \in Requests /\ r.action = "aor_insert" /\ r.key = caller.key
        /\ r.expiry = caller.time + Expiry
    BY <2>1, RequestTypes DEF Requests
  <2>3. Base' = Base
    BY <1>3 DEF AddEndpointEnqueue, Base
  <2>4. Requested' = Execute(Requested, r)
    BY <1>0, <1>3, <2>2, <2>3, RequestedAppend DEF AddEndpointEnqueue
  <2>5. Requested' = Table!Insert(Requested, caller.key, caller.time + Expiry)
    BY <2>2, <2>4 DEF Execute, Table!Insert
  <2>6. caller.time \in 1 .. now /\ now' = now
    BY <1>3, <2>1 DEF AddEndpointEnqueue
  <2>7. Table!Add(caller.key)
    BY <2>5, <2>6 DEF Table!Add
  <2> QED
    BY <2>1, <2>7 DEF Table!Next, Table!Keys, Keys
<1>4. ASSUME NEW a \in AoRs, NEW ip \in IPs, DeleteEndpoint(a, ip) PROVE Table!Next
  <2> DEFINE r == [action |-> "aor_remove", aor |-> a, ip |-> ip]
  <2>1. r \in Requests /\ r.action # "aor_insert" /\ r.aor = a /\ r.ip = ip
    BY RequestTypes DEF Requests
  <2>2. Base' = Base
    BY <1>4 DEF DeleteEndpoint, Base
  <2>3. Requested' = Execute(Requested, r)
    BY <1>0, <1>4, <2>1, <2>2, RequestedAppend DEF DeleteEndpoint
  <2>4. Requested' = Table!Expire(Requested, a, ip)
    BY <2>1, <2>3 DEF Execute, Table!Expire, Table!Keys, Keys
  <2>5. Table!Remove(a, ip)
    BY <1>4, <2>4 DEF DeleteEndpoint, Table!Remove
  <2> QED
    BY <2>5 DEF Table!Next
<1>5. CASE WriterWhile \/ WriterLock \/ WriterWait \/ SpuriousWakeup
  BY <1>1, <1>5 DEF WriterWhile, WriterLock, WriterWait, SpuriousWakeup, Base, Queue
<1>6. CASE WriterSwap
  <2>1. batch = <<>> /\ batch' = batch_ /\ batch_' = <<>> /\ batch_ \in Seq(Requests)
    BY <1>0, <1>6 DEF WriterSwap, BatchInv, TypeOK
  <2>2. Queue' = batch_ /\ Queue = batch_
    BY <2>1, ConcatEmptySeq DEF Queue
  <2> QED
    BY <1>1, <1>6, <2>2 DEF WriterSwap, Base
<1>7. CASE WriterBegin
  BY <1>1, <1>7 DEF WriterBegin, Base, Queue
<1>8. CASE WriterExecute
  <2>1. Queue \in Seq(Requests) /\ Queue # <<>> /\ Head(batch) = Head(Queue)
        /\ Queue' = Tail(Queue)
    BY <1>0, <1>8, QueueHeadTail DEF WriterExecute, Queue, TypeOK
  <2>2. Base = tx /\ Base' = Execute(Base, Head(Queue)) /\ Base \in Tables
    BY <1>0, <1>8, <2>1 DEF WriterExecute, Base, TypeOK
  <2>3. Overlay(Base', Queue') = Overlay(Base, Queue)
    BY <2>1, <2>2, OverlayHeadTail
  <2>4. Requested' = Requested
    BY <2>3 DEF Requested, Base, Queue
  <2> QED
    BY <1>8, <2>4 DEF WriterExecute, Table!tvars
<1>9. CASE WriterCommit
  BY <1>1, <1>9 DEF WriterCommit, Base, Queue
<1>10. CASE StopWriteThread
  BY <1>1, <1>10 DEF StopWriteThread, Base, Queue
<1>11. CASE StopNotify
  BY <1>1, <1>11 DEF StopNotify, Base, Queue
<1>12. CASE StopJoin
  <2> DEFINE gone == {k \in Keys : Hits(k, Queue) = {} /\ db[k] < now}
  <2>1. /\ Base = db /\ Queue' = Queue /\ now' = now
        /\ Base' = [k \in Keys |-> IF db[k] < now THEN 0 ELSE db[k]]
    BY <1>12 DEF StopJoin, Base, Queue
  <2>2. /\ db \in Tables /\ Base' \in Tables /\ Queue \in Seq(Requests)
        /\ now \in 1 .. MaxTime
    BY <1>0, <1>12, TypeStep, QueueType, <2>1, ExpiryAssumption, BoundsAssumption
    DEF TypeOK, Tables, Expiries
  <2>3. Requested = Overlay(db, Queue) /\ Requested' = Overlay(Base', Queue)
    BY <2>1 DEF Requested, Base, Queue
  <2>4. gone \in SUBSET {k \in Keys : Requested[k] <= now}
    <3> SUFFICES ASSUME NEW k \in gone PROVE Requested[k] <= now
      OBVIOUS
    <3>1. Requested[k] = db[k]
      BY <2>3 DEF Overlay
    <3> QED
      BY <2>2, <3>1 DEF Tables, Expiries
  <2>5. ASSUME NEW k \in Keys
        PROVE  Requested'[k] = IF k \in gone THEN 0 ELSE Requested[k]
    <3>1. CASE Hits(k, Queue) = {}
      BY <2>1, <2>3, <3>1 DEF Overlay
    <3>2. CASE Hits(k, Queue) # {}
      <4> DEFINE r == Queue[LastHit(k, Queue)]
      <4>1. /\ LastHit(k, Queue) \in Hits(k, Queue)
            /\ LastHit(k, Queue) \in 1 .. Len(Queue)
        BY <2>2, <3>2, LastHitIsLast
      <4>2. r \in Requests /\ Hit(k, r)
        BY <2>2, <4>1 DEF Hits
      <4>3. Requested[k] = Execute(db, r)[k] /\ Requested'[k] = Execute(Base', r)[k]
        BY <2>3, <3>2 DEF Overlay
      <4> QED
        BY <2>2, <3>2, <4>2, <4>3, ExecuteHit
    <3> QED
      BY <3>1, <3>2
  <2>6. Requested' = [k \in Keys |-> IF k \in gone THEN 0 ELSE Requested[k]]
    BY <2>2, <2>3, <2>5, OverlayType DEF Tables
  <2>7. Table!Purge
    BY <2>1, <2>4, <2>6 DEF Table!Purge, Table!Keys, Keys
  <2> QED
    BY <2>7 DEF Table!Next
<1>13. CASE Restart
  <2>1. Queue' = <<>> /\ Base' = NoRecords
    BY <1>13, EmptySeq, ConcatEmptySeq DEF Restart, InitializeDatabase, Queue, Base
  <2>2. NoRecords \in Tables
    BY ExpiryAssumption, BoundsAssumption DEF NoRecords, Tables, Expiries
  <2>3. Requested' = NoRecords
    BY <2>1, <2>2, OverlayEmpty DEF Requested, Base, Queue
  <2>4. Table!Restart
    BY <1>13, <2>3 DEF Restart, Table!Restart, NoRecords, Table!Keys, Keys
  <2> QED
    BY <2>4 DEF Table!Next
<1>14. CASE Tick
  <2>1. Requested' = Requested
    BY <1>14, RequestedUnchanged DEF Tick, Base, Queue
  <2> QED
    BY <1>14, <2>1 DEF Tick, Table!Tick, Table!Next
<1>15. CASE UNCHANGED vars
  BY <1>1, <1>15 DEF vars, Base, Queue
<1> QED
  BY <1>2, <1>3, <1>4, <1>5, <1>6, <1>7, <1>8, <1>9, <1>10, <1>11, <1>12,
     <1>13, <1>14, <1>15
  DEF Next, Request, Writer, Stop

\* The cache implements the table: its requests take effect one at a time, in
\* the order they are made, whatever the writer thread has done about them.
THEOREM ImplementsEndpointTable == Spec => ImplementsTable
<1>1. Init => Table!Init
  <2> SUFFICES ASSUME Init PROVE Table!Init
    OBVIOUS
  <2>1. NoRecords \in Tables
    BY ExpiryAssumption, BoundsAssumption DEF NoRecords, Tables, Expiries
  <2>2. batch \o batch_ = <<>>
    BY EmptySeq, ConcatEmptySeq DEF Init
  <2>3. Requested = NoRecords
    BY <2>1, <2>2, OverlayEmpty DEF Init, Requested
  <2> QED
    BY <2>3 DEF Init, Table!Init, NoRecords, Table!Keys, Keys
<1> QED
  BY <1>1, TableStep, Invariance, PTL DEF Spec, ImplementsTable, Table!Spec
=============================================================================
