----------------------------- MODULE Lifecycle -----------------------------
(***************************************************************************)
(* The life of the program: main, the signal handler and the ping thread   *)
(* (src/src/main.cpp), around the construction that is in Wiring.          *)
(*                                                                         *)
(* The HTTP server blocks main until a SIGTERM stops it.  The ping thread  *)
(* sleeps on a condition variable with a mutex of its own and a timeout;   *)
(* main clears its flag and notifies it, with no mutex.                    *)
(***************************************************************************)
EXTENDS Wiring

VARIABLES
    handler,          \* the action of SIGTERM is the program's
    server,           \* g_server
    connection,       \* the AMI connection
    thread_run_flag,
    ping,             \* where the ping thread is
    told              \* history: the program has handled a SIGTERM

life == <<handler, server, connection, thread_run_flag, ping, told>>
vars == <<main, outcome, wiring, life>>

Startup == {"args", "load", "daemonize", "user", "syslog", "server", "sigaction", "connect", "ping"}
Building == {"phonebooks", "phones", "paths"}
Shutdown == {"stop", "notify", "join", "logoff", "destroy"}

TypeOK ==
    /\ main \in Startup \cup Building \cup {"listen", "serving"} \cup Shutdown \cup {"ended"}
    /\ outcome \in {"running", "success", "failure", "killed", "terminated", "crashed",
                    "aborted"}
    /\ config \in Configs
    /\ item \in Nat /\ sub \in Nat
    /\ adapters \subseteq config.providers
    /\ \A i \in DOMAIN routes : {"kind", "path"} \subseteq DOMAIN routes[i]
    /\ handler \in BOOLEAN /\ told \in BOOLEAN /\ thread_run_flag \in BOOLEAN
    /\ server \in {"none", "created", "listening", "stopped"}
    /\ server = "listening" => main = "serving"
    /\ connection \in {"none", "connected", "logged_off"}
    /\ ping \in {"none", "invoke", "predicate", "block", "sleep", "check", "done"}

Init ==
    /\ main = "args" /\ outcome = "running"
    /\ WiringInit
    /\ handler = FALSE /\ server = "none" /\ connection = "none"
    /\ thread_run_flag = TRUE /\ ping = "none"
    /\ told = FALSE

-----------------------------------------------------------------------------
(* main, before its threads                                                *)

\* A step that may instead end the program.
Either(from, to) ==
    /\ main = from
    /\ \/ Goto(to) /\ UNCHANGED wiring
       \/ EndsBy("failure")

\* getApplicationParameters, and a configuration file that exists.
GetApplicationParameters == Either("args", "load") /\ UNCHANGED life

\* The file is read and follows the schema.
LoadConfigFile == Either("load", "daemonize") /\ UNCHANGED life

Daemonize == Either("daemonize", "user") /\ UNCHANGED life

\* Groups first, the user last; a group that does not exist is a null pointer.
SetUserGroup ==
    /\ Either("user", "syslog") \/ (main = "user" /\ EndsBy("crashed"))
    /\ UNCHANGED life

ConfigureSyslog == Either("syslog", "server") /\ UNCHANGED life

CreateHTTPServer ==
    /\ Either("server", "sigaction")
    /\ server' = IF main' = "sigaction" THEN "created" ELSE server
    /\ UNCHANGED <<handler, connection, thread_run_flag, ping, told>>

Sigaction ==
    /\ Either("sigaction", "connect")
    /\ handler' = (main' = "connect")
    /\ UNCHANGED <<server, connection, thread_run_flag, ping, told>>

\* The connection is made and the login accepted.
CreateAMIConnection ==
    /\ Either("connect", "ping")
    /\ connection' = IF main' = "ping" THEN "connected" ELSE connection
    /\ UNCHANGED <<handler, server, thread_run_flag, ping, told>>

CreateAmiPingThread ==
    /\ main = "ping"
    /\ Goto("phonebooks") /\ UNCHANGED wiring
    /\ ping' = "invoke"
    /\ UNCHANGED <<handler, server, connection, thread_run_flag, told>>

-----------------------------------------------------------------------------
(* main, while it serves and when it stops                                 *)

\* listen comes back at once if it cannot bind.
Listen ==
    /\ main = "listen" /\ UNCHANGED wiring
    /\ \/ Goto("serving") /\ server' = "listening"
       \/ Goto("stop") /\ UNCHANGED server
    /\ UNCHANGED <<handler, connection, thread_run_flag, ping, told>>

\* Faulty variant: the server listens in a thread of its own.
ListenReturns_AtOnce ==
    /\ main = "serving"
    /\ Goto("stop") /\ UNCHANGED wiring /\ UNCHANGED life

ListenReturns ==
    /\ main = "serving" /\ server = "stopped"
    /\ Goto("stop") /\ UNCHANGED wiring /\ UNCHANGED life

StopPing ==
    /\ main = "stop"
    /\ Goto("notify") /\ UNCHANGED wiring
    /\ thread_run_flag' = FALSE
    /\ UNCHANGED <<handler, server, connection, ping, told>>

\* Only a thread that sleeps hears it.
NotifyAll ==
    /\ main = "notify"
    /\ Goto("join") /\ UNCHANGED wiring
    /\ ping' = IF ping = "sleep" THEN "predicate" ELSE ping
    /\ UNCHANGED <<handler, server, connection, thread_run_flag, told>>

\* Faulty variant: the thread is detached.
Join_Detached ==
    /\ main = "join"
    /\ Goto("logoff") /\ UNCHANGED wiring /\ UNCHANGED life

Join ==
    /\ main = "join" /\ ping = "done"
    /\ Goto("logoff") /\ UNCHANGED wiring /\ UNCHANGED life

Logoff ==
    /\ main = "logoff"
    /\ connection' = "logged_off"
    /\ Goto("destroy") /\ UNCHANGED wiring
    /\ UNCHANGED <<handler, server, thread_run_flag, ping, told>>

\* What main has built is destroyed, the deskphone cache with its writer thread too
\* (by g_server if its routes hold the cache), and the process ends.
Destroy ==
    /\ main = "destroy"
    /\ main' = "ended" /\ outcome' = "success" /\ UNCHANGED wiring /\ UNCHANGED life

-----------------------------------------------------------------------------
(* The signal                                                              *)

\* SIGTERM: it kills the program until the handler is set; the handler stops the
\* server, which does nothing unless the server is listening.
SignalHandler ==
    /\ main # "ended" /\ ~told
    /\ IF handler
       THEN /\ told' = TRUE
            /\ server' = IF server = "listening" THEN "stopped" ELSE server
            /\ UNCHANGED <<main, outcome, wiring>>
       ELSE EndsBy("killed") /\ UNCHANGED <<server, told>>
    /\ UNCHANGED <<handler, connection, thread_run_flag, ping>>

-----------------------------------------------------------------------------
(* The ping thread                                                         *)

PingGoto(from, to) ==
    /\ outcome = "running" /\ ping = from
    /\ ping' = to
    /\ UNCHANGED <<main, outcome, wiring, handler, server, connection, thread_run_flag, told>>

Ping == PingGoto("invoke", "predicate")
WaitPredicate == PingGoto("predicate", IF thread_run_flag THEN "block" ELSE "check")
Block == PingGoto("block", "sleep")

\* Faulty variant: the wait has no timeout.
WaitTimeout_Never == PingGoto("sleep", "sleep")

\* wait_for looks at the flag once more, to the same effect as the loop.
WaitTimeout == PingGoto("sleep", "check")
SpuriousWakeup == PingGoto("sleep", "predicate")
While == PingGoto("check", IF thread_run_flag THEN "invoke" ELSE "done")

-----------------------------------------------------------------------------

MainThread ==
    \/ GetApplicationParameters \/ LoadConfigFile \/ Daemonize \/ SetUserGroup
    \/ ConfigureSyslog \/ CreateHTTPServer \/ Sigaction \/ CreateAMIConnection
    \/ CreateAmiPingThread
    \/ WiringStep /\ UNCHANGED life
    \/ Listen \/ ListenReturns \/ StopPing \/ NotifyAll \/ Join \/ Logoff
PingThread == Ping \/ WaitPredicate \/ Block \/ WaitTimeout \/ While

\* The process is gone.
Ended == main = "ended" /\ UNCHANGED vars

Next == MainThread \/ Destroy \/ PingThread \/ SpuriousWakeup \/ SignalHandler \/ Ended

\* Threads run, Asterisk answers a Ping and the Logoff, and 120 seconds pass.  Destroy
\* is not owed: stopWriteThread may wait for ever (StopReturns of DeskphoneCache).
Fairness == WF_vars(MainThread) /\ WF_vars(PingThread) /\ WF_vars(WaitTimeout)

Spec == Init /\ [][Next]_vars /\ Fairness

-----------------------------------------------------------------------------
(* Properties                                                              *)

\* A program that serves was given a consistent configuration: every reference
\* that main does not check before it uses it ends the program in some way.
OnlyConsistentIsServed == main \in {"listen", "serving"} => Consistent(config)

\* A path that acts on a button acts on one of its type, in the plan of the
\* phone it was configured for, with the device or lot configured for it, two
\* buttons of the same id included.
PathsActOnTheirButtons ==
    \A i \in DOMAIN routes : routes[i].kind \in {"night_button", "park_button"} =>
        LET r == routes[i]
            button == plans[r.plan].buttons[r.id]
        IN  /\ button.type = r.kind /\ button.target = r.target
            /\ plans[r.plan].ui = r.ui

\* A consistent configuration is served, by any build if its buttons have ids of their
\* own: addButton asserts that they do.
ConsistentIsServed ==
    (main = "phonebooks" /\ Consistent(config) /\ OwnIds(config)) ~> main = "listen"

\* The connection is logged off only when no thread can ping through it.
PingEndsFirst == connection = "logged_off" => ping = "done"

\* Once the server has been stopped main gets to log off, even if the ping thread
\* misses the notification. That the process then ends is not promised.
StoppedServerLogsOff == server = "stopped" ~> connection = "logged_off"

\* "When the application encounters a termination signal it will tell the HTTP
\* server to stop, allowing the application to continue on and stop": main comes to
\* the end of what it does, or has ended.
SigtermStops == told ~> main \in {"destroy", "ended"}

\* "expiry: _mandatory: false, _default: 60": a phonebook path need only have
\* what its schema asks for.
SchemaSuffices == ConformsToSchema(config) => outcome # "terminated"
=============================================================================
