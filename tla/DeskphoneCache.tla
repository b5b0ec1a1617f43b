--------------------------- MODULE DeskphoneCache ---------------------------
(***************************************************************************)
(* DeskphoneCache: src/src/cache/DeskphoneCache.cpp.                       *)
(*                                                                         *)
(* The AMI thread adds endpoints (RegisterEventHandler), HTTP threads      *)
(* expire them (the expire_path URI).  Both only append to batch_, under   *)
(* batch_mut_, and notify; the db_writer thread swaps the batch out and    *)
(* writes it in one transaction.  A SELECT of addEndpoint sees what is     *)
(* committed.  The main thread constructs the object and, when it is       *)
(* destroyed, stops the writer: there the flag is set and the condition    *)
(* variable notified without batch_mut_.  The process may be killed at any *)
(* moment; the database file stays.                                        *)
(***************************************************************************)
EXTENDS Integers, Sequences

CONSTANTS AoRs, Endpoints, IPs, IpOf, Expiry,
          MaxTime,     \* bound on the clock
          MaxPending   \* bound on the requests that are not yet written

ASSUME IpOfAssumption    == IpOf \in [Endpoints -> IPs]
ASSUME ExpiryAssumption  == Expiry \in Nat \ {0}
ASSUME BoundsAssumption  == MaxTime \in Nat \ {0} /\ MaxPending \in Nat \ {0}

VARIABLES
    now,        \* clock_t::now()
    db,         \* committed expiry of each record; 0 when expired or absent
    tx,         \* the table inside the writer's transaction
    batch_,     \* requests enqueued
    batch,      \* requests the writer still has to execute
    run,        \* batch_write_run_
    writer,     \* where the db_writer thread is
    main,       \* where the main thread is
    caller,     \* the addEndpoint call of the AMI thread
    announced   \* history: the records addEndpoint has returned true for

vars == <<now, db, tx, batch_, batch, run, writer, main, caller, announced>>

Keys == AoRs \X Endpoints
Expiries == 0 .. MaxTime + Expiry
Tables == [Keys -> Expiries]

\* Requests: HandsetData of an aor_insert, and of an aor_remove.
Inserts == [action : {"aor_insert"}, key : Keys, expiry : Expiries]
Removes == [action : {"aor_remove"}, aor : AoRs, ip : IPs]
Requests == Inserts \cup Removes

NobodyCalls == [at |-> "none"]
Calls == {NobodyCalls}
         \cup [at : {"enqueue"}, key : Keys, found : BOOLEAN, time : 1 .. MaxTime]

\* Requests made and not yet executed, the one being made included.
Pending == Len(batch_) + Len(batch) + (IF caller = NobodyCalls THEN 0 ELSE 1)

TypeOK ==
    /\ now \in 1 .. MaxTime
    /\ db \in Tables
    /\ tx \in Tables
    /\ batch_ \in Seq(Requests) /\ batch \in Seq(Requests)
    /\ Pending <= MaxPending
    /\ run \in BOOLEAN
    /\ writer \in {"while", "lock", "predicate", "block", "blocked", "begin",
                   "execute", "ended"}
    /\ main \in {"running", "notify", "join", "stopped"}
    /\ caller \in Calls
    /\ announced \in SUBSET Keys

NoRecords == [k \in Keys |-> 0]

Init ==
    /\ now = 1
    /\ db = NoRecords /\ tx = NoRecords
    /\ batch_ = <<>> /\ batch = <<>>
    /\ run = TRUE
    /\ writer = "while" /\ main = "running"
    /\ caller = NobodyCalls
    /\ announced = {}

-----------------------------------------------------------------------------
(* batch_mut_ and batch_write_cv_                                          *)

\* The writer holds the mutex while it evaluates the predicate of wait.
Unlocked == writer \notin {"predicate", "block"}

\* Faulty variant: the notification is forgotten.
NotifyOne_Forgotten == UNCHANGED writer

\* notify_one: the writer wakes if it is blocked; otherwise nothing happens.
NotifyOne == writer' = IF writer = "blocked" THEN "lock" ELSE writer

-----------------------------------------------------------------------------
(* Requests                                                                *)

\* addEndpoint: the query for an unexpired record ...
AddEndpointQuery(k) ==
    /\ main = "running"
    /\ caller = NobodyCalls
    /\ Pending < MaxPending
    /\ caller' = [at |-> "enqueue", key |-> k, found |-> db[k] > now, time |-> now]
    /\ UNCHANGED <<now, db, tx, batch_, batch, run, writer, main, announced>>

\* ... and the request, which lasts from the time of the query.
AddEndpointEnqueue ==
    /\ caller # NobodyCalls
    /\ Unlocked
    /\ batch_' = Append(batch_, [action |-> "aor_insert", key |-> caller.key,
                                 expiry |-> caller.time + Expiry])
    /\ NotifyOne
    /\ announced' = IF caller.found THEN announced ELSE announced \cup {caller.key}
    /\ caller' = NobodyCalls
    /\ UNCHANGED <<now, db, tx, batch, run, main>>

\* deleteEndpoint, called from an HTTP thread.
DeleteEndpoint(a, ip) ==
    /\ main = "running"
    /\ Unlocked
    /\ Pending < MaxPending
    /\ batch_' = Append(batch_, [action |-> "aor_remove", aor |-> a, ip |-> ip])
    /\ NotifyOne
    /\ UNCHANGED <<now, db, tx, batch, run, main, caller, announced>>

-----------------------------------------------------------------------------
(* writeThread                                                             *)

\* while (batch_write_run_): read without the mutex.
WriterWhile ==
    /\ writer = "while"
    /\ writer' = IF run THEN "lock" ELSE "ended"
    /\ UNCHANGED <<now, db, tx, batch_, batch, run, main, caller, announced>>

WriterLock ==
    /\ writer = "lock"
    /\ writer' = "predicate"
    /\ UNCHANGED <<now, db, tx, batch_, batch, run, main, caller, announced>>

\* Faulty variant: the batch is copied instead of swapped.
WriterSwap_Copying ==
    /\ writer = "predicate"
    /\ ~ run \/ batch_ # <<>>
    /\ batch' = batch_
    /\ writer' = "begin"
    /\ UNCHANGED <<now, db, tx, batch_, run, main, caller, announced>>

\* The predicate of wait holds: the batches are swapped and the mutex freed.
WriterSwap ==
    /\ writer = "predicate"
    /\ ~ run \/ batch_ # <<>>
    /\ batch_' = batch /\ batch' = batch_
    /\ writer' = "begin"
    /\ UNCHANGED <<now, db, tx, run, main, caller, announced>>

\* It does not hold: the writer gives up the mutex and blocks.
WriterWait ==
    /\ \/ writer = "predicate" /\ run /\ batch_ = <<>> /\ writer' = "block"
       \/ writer = "block" /\ writer' = "blocked"
    /\ UNCHANGED <<now, db, tx, batch_, batch, run, main, caller, announced>>

\* A condition variable may wake up for no reason.
SpuriousWakeup ==
    /\ writer = "blocked"
    /\ writer' = "lock"
    /\ UNCHANGED <<now, db, tx, batch_, batch, run, main, caller, announced>>

WriterBegin ==
    /\ writer = "begin"
    /\ tx' = db
    /\ writer' = "execute"
    /\ UNCHANGED <<now, db, batch_, batch, run, main, caller, announced>>

\* What the prepared statement of a request does to the table: the upsert of
\* add_aor, or del_aor, which expires every endpoint of the phone at the ip.
Execute(tab, r) ==
    IF r.action = "aor_insert"
    THEN [tab EXCEPT ![r.key] = r.expiry]
    ELSE [k \in Keys |-> IF k[1] = r.aor /\ IpOf[k[2]] = r.ip THEN 0 ELSE tab[k]]

\* Faulty variant: the requests of a batch are executed last in, first out.
WriterExecute_Reversed ==
    /\ writer = "execute"
    /\ batch # <<>>
    /\ tx' = Execute(tx, batch[Len(batch)])
    /\ batch' = SubSeq(batch, 1, Len(batch) - 1)
    /\ UNCHANGED <<now, db, batch_, run, writer, main, caller, announced>>

WriterExecute ==
    /\ writer = "execute"
    /\ batch # <<>>
    /\ tx' = Execute(tx, Head(batch))
    /\ batch' = Tail(batch)
    /\ UNCHANGED <<now, db, batch_, run, writer, main, caller, announced>>

\* Faulty variant: the transaction is committed before the batch is executed.
WriterCommit_Early ==
    /\ writer = "execute"
    /\ db' = tx
    /\ writer' = "while"
    /\ UNCHANGED <<now, tx, batch_, batch, run, main, caller, announced>>

WriterCommit ==
    /\ writer = "execute"
    /\ batch = <<>>
    /\ db' = tx
    /\ writer' = "while"
    /\ UNCHANGED <<now, tx, batch_, batch, run, main, caller, announced>>

-----------------------------------------------------------------------------
(* Start and stop                                                          *)

\* The destructor: no AMI callback and no HTTP request is left by then.
StopWriteThread ==
    /\ main = "running"
    /\ caller = NobodyCalls
    /\ run' = FALSE
    /\ main' = "notify"
    /\ UNCHANGED <<now, db, tx, batch_, batch, writer, caller, announced>>

StopNotify ==
    /\ main = "notify"
    /\ NotifyOne
    /\ main' = "join"
    /\ UNCHANGED <<now, db, tx, batch_, batch, run, caller, announced>>

\* join returns; the records that have expired are deleted.
StopJoin ==
    /\ main = "join"
    /\ writer = "ended"
    /\ db' = [k \in Keys |-> IF db[k] < now THEN 0 ELSE db[k]]
    /\ main' = "stopped"
    /\ UNCHANGED <<now, tx, batch_, batch, run, writer, caller, announced>>

\* Faulty variant: the records are left as they are.
InitializeDatabase_AsLeft(tab) == tab

\* What starting the program does to the records in the file: they expire.
InitializeDatabase(tab) == NoRecords

\* The process ends, stopped or killed, and is started again; what it held in
\* memory is gone, and the transaction under way with it.
Restart ==
    /\ db' = InitializeDatabase(db)
    /\ tx' = NoRecords
    /\ batch_' = <<>> /\ batch' = <<>>
    /\ run' = TRUE
    /\ writer' = "while" /\ main' = "running"
    /\ caller' = NobodyCalls
    /\ announced' = {}
    /\ UNCHANGED now

Tick ==
    /\ now < MaxTime
    /\ now' = now + 1
    /\ UNCHANGED <<db, tx, batch_, batch, run, writer, main, caller, announced>>

-----------------------------------------------------------------------------

Request == \/ \E k \in Keys : AddEndpointQuery(k)
           \/ \E a \in AoRs, ip \in IPs : DeleteEndpoint(a, ip)

Writer == \/ WriterWhile \/ WriterLock \/ WriterSwap \/ WriterWait
          \/ WriterBegin \/ WriterExecute \/ WriterCommit

Stop == StopNotify \/ StopJoin

Next == \/ Request \/ AddEndpointEnqueue
        \/ Writer \/ SpuriousWakeup
        \/ StopWriteThread \/ Stop
        \/ Restart \/ Tick

\* The writer and the destructor run; nothing is owed by the outside, and no
\* spurious wakeup.
Fairness == WF_vars(Writer) /\ WF_vars(Stop)

Spec == Init /\ [][Next]_vars /\ Fairness

-----------------------------------------------------------------------------
(* Properties                                                              *)

\* addEndpoint calls a phone known only if it has called it new since the
\* program started: whatever is pending, expired, deleted or left in the file
\* by an earlier run, RegisterEventHandler is told once that the phone is new.
KnownWasAnnounced ==
    (caller # NobodyCalls /\ caller.found) => caller.key \in announced

\* Request r is about record k.
Hit(k, r) == IF r.action = "aor_insert" THEN r.key = k
                                        ELSE r.aor = k[1] /\ r.ip = IpOf[k[2]]

\* The table tab once the requests todo are executed: what a record becomes is
\* decided by the last request about it.
Hits(k, todo) == {i \in 1 .. Len(todo) : Hit(k, todo[i])}
LastHit(k, todo) == CHOOSE i \in Hits(k, todo) : \A j \in Hits(k, todo) : j <= i
Overlay(tab, todo) ==
    [k \in Keys |-> IF Hits(k, todo) = {} THEN tab[k]
                    ELSE Execute(tab, todo[LastHit(k, todo)])[k]]

\* The table as it will be once every request made so far is executed.
Requested == Overlay(IF writer = "execute" THEN tx ELSE db, batch \o batch_)

\* The requests take effect in the order they were made, none is lost and none
\* is repeated by the batches of the writer.
Table == INSTANCE EndpointTable WITH table <- Requested
ImplementsTable == Table!Spec

\* A request does not stay in the queue, unless the program stops: no wakeup of
\* the writer is lost to addEndpoint and deleteEndpoint.
QueueIsWritten == (batch_ # <<>>) ~> (batch_ = <<>> \/ ~ run)

\* stopWriteThread stops the writer and returns.
StopReturns == (main = "join") ~> (main # "join")

-----------------------------------------------------------------------------
(* The inductive invariant                                                 *)

\* A record that is not absent, and a request that adds one, belong to a phone
\* that was called new; so was a phone that is being called known.
RecordsAnnounced(tab) == \A k \in Keys : tab[k] # 0 => k \in announced
RequestsAnnounced(todo) ==
    \A i \in 1 .. Len(todo) :
        todo[i].action = "aor_insert" => todo[i].key \in announced

AnnouncedInv == /\ RecordsAnnounced(db) /\ RecordsAnnounced(tx)
                /\ RequestsAnnounced(batch_) /\ RequestsAnnounced(batch)
                /\ KnownWasAnnounced

\* The writer empties its batch before it looks at the queue again, and the
\* time of a call is one the clock has shown.
BatchInv == /\ batch # <<>> => writer \in {"begin", "execute"}
            /\ caller # NobodyCalls => caller.time <= now

IInv == TypeOK /\ AnnouncedInv /\ BatchInv
=============================================================================
