--------------------------- MODULE EndpointTable ---------------------------
(***************************************************************************)
(* What the deskphone cache promises: a table of the phones that are on    *)
(* the network, updated by one request at a time.                          *)
(***************************************************************************)
EXTENDS Integers

CONSTANTS
    AoRs,       \* names of phones on the Asterisk server
    Endpoints,  \* addresses a phone registers from
    IPs,        \* IP addresses
    IpOf,       \* the ip field of an endpoint
    Expiry,     \* how long a registration is remembered
    MaxTime     \* bound on the clock

\* A record of the table, PRIMARY KEY(aor, endpoint).
Keys == AoRs \X Endpoints

\* An expiry of 0 stands for a record that is expired from the start, or absent.
Expiries == 0 .. MaxTime + Expiry

VARIABLES table,  \* when each record expires
          now     \* the clock

tvars == <<table, now>>

\* The record of phone a at endpoint e is to last until x.
Insert(tab, k, x) == [tab EXCEPT ![k] = x]

\* The records of phone a at address ip are expired.
Expire(tab, a, ip) ==
    [k \in Keys |-> IF k[1] = a /\ IpOf[k[2]] = ip THEN 0 ELSE tab[k]]

Init == /\ table = [k \in Keys |-> 0]
        /\ now = 1

\* A phone registers; the time it is remembered until counts from a moment
\* that may have passed.
Add(k) == /\ \E t \in 1 .. now : table' = Insert(table, k, t + Expiry)
          /\ UNCHANGED now

Remove(a, ip) == table' = Expire(table, a, ip) /\ UNCHANGED now

\* Records that have expired may be dropped.
Purge == /\ \E gone \in SUBSET {k \in Keys : table[k] <= now} :
               table' = [k \in Keys |-> IF k \in gone THEN 0 ELSE table[k]]
         /\ UNCHANGED now

\* The program starts anew, and knows no phone.
Restart == table' = [k \in Keys |-> 0] /\ UNCHANGED now

Tick == now < MaxTime /\ now' = now + 1 /\ UNCHANGED table

Next == \/ \E k \in Keys : Add(k)
        \/ \E a \in AoRs, ip \in IPs : Remove(a, ip)
        \/ Purge
        \/ Restart
        \/ Tick

Spec == Init /\ [][Next]_tvars
=============================================================================
