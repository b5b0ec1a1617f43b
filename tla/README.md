# A verification of lamp_monitor

`lamp_monitor` keeps the lamps of SIP deskphones in step with an Asterisk
server.  It listens to the Asterisk Manager Interface (AMI), turns extension
states into buttons that are on or off, renders the buttons of a *button plan*
into a page of Yealink XML, and has Asterisk NOTIFY the page to the phones.  It
also remembers which phones are on the network (an SQLite table), serves
phonebooks and button presses over HTTP, and keeps the AMI connection alive.

This directory holds TLA+ models of its concurrent core, the TLC
configurations that check them on small instances, and proofs, checked by
TLAPS, that hold for instances of any size.  Paths below are relative to the
repository (`src/src/...` in `PROJECT.json`).

## 1. The system

### Threads

| thread | what it does |
|---|---|
| main | parses the configuration, builds everything (`createPhonePlans`, `createRegisterEventHandler`), then blocks in `httplib::Server::listen`; tears down |
| AMI | the callback thread of `cpp_ami::Connection`: runs `amiEventHandler` of every handler, one event at a time |
| workers | `std::execution::par` inside `ButtonPlan::invalidate`; they live only while the calling thread waits for them |
| HTTP | the pool of `httplib::Server`: button presses, phone state, phonebooks, expiry of phones |
| db_writer | `DeskphoneCache::writeThread` |
| ping | `createAmiPingThread` |

That the AMI thread delivers one event at a time is an assumption about
`cpp_ami`, which is not in the repository.  The code relies on it:
`ParkEventHandler::parked_extens_` is changed by the callback without any lock.

### Components

| component (code) | state | operations | who calls it | what makes it correct | module |
|---|---|---|---|---|---|
| button plan, buttons (`button_state/`) | `buttons_`, `phone_uis_` under `phone_uis_mut_`; an atomic flag for each button; `event_handlers_` | `setOn`, `invalidate`, `registerUI`, `getPhoneUIs`, `addButton`, `addEventHandler` | AMI thread, main | pages sent are current; a stale page is being corrected | `ButtonPlan`, `Wiring` |
| phone UI (`bridge/PhoneUi`, `bridge/yealink/PhoneUi`) | `cached_button_state_`, `compatible_aors_`, each with a mutex | `update`, `initialize`, `isCritical`, `getStateString` | the plan, the registration handler, HTTP | nobody sees a null state; LEDs and critical flag of a page belong together | `ButtonPlan`, `NightLamp` (HTTP) |
| deskphone cache (`cache/`) | the table, `batch_`, `batch_write_run_`, a condition variable | `addEndpoint`, `deleteEndpoint`, writer thread, construction, destruction | AMI, HTTP, main | requests take effect once, in order; a phone that the program does not know is called new; stopping returns | `DeskphoneCache` |
| registration handler (`asterisk/RegisterEventHandler`) | `button_plans_` | `amiEventHandler`, `publishPhoneState`, `registerButtonPlan` | AMI, main | a phone that comes online gets its page | `PhoneRegistration`, `ButtonPlan` |
| park handler, park button (`asterisk/ParkEventHandler`, `bridge/yealink/ParkButton`) | `parking_hints_`, `parked_extens_` | constructor, `amiEventHandler`; list and details over HTTP | AMI, main, HTTP | the lamp and the menu show what the lot holds | `ParkLamp` |
| night handler, night button (`asterisk/NightEventHandler`, `bridge/NightButton`) | `hint_` | constructor, `amiEventHandler`; `pushButton` over HTTP | AMI, main, HTTP | the lamp, and each phone that pushed, settle on the device | `NightLamp` |
| phonebooks and their renderers (`phonebook/`) | cached string, time stamp, a mutex | `getPhonebook` | HTTP | no older than the TTL; just the matching records | `Phonebook` |
| match expressions (`match/`) | symbol table, string table, AST | `isMatch` | phonebooks, AoR provider | the answer is the expression's value for this record | `Phonebook` |
| AoR provider (`bridge/provider`, `asterisk/config`) | none after construction | `getCompatibleAoRs` | constructor of a UI | all matching phones | `Phonebook` |
| lifecycle (`main.cpp`) | server, ping thread, signal handler | start, SIGTERM, stop | operating system | stops when told to, in order | `Lifecycle` |
| configuration (`ConfigFileParser.cpp`) | the server's routes, the plans | `create*`, `configureHTTP*` | main | what is served is what was configured | `Wiring` |

How they interact: an ExtensionStatus event reaches the park and night handlers,
which call `PhoneButton::setOn`; a flag that changes calls
`ButtonPlan::invalidate`, which renders every UI of the plan and notifies every
phone of each.  A SuccessfulAuth event reaches the registration handler, which
asks the cache whether the phone is new and, if it is or if the page is
critical, sends it the cached page of each plan.  Everything from `main` runs
while these callbacks are already being delivered: the handlers subscribe in
their constructors, before the plan has a UI and before the registration
handler has a plan.

### What is hard

- pages are rendered from atomic flags read one at a time, each twice, with no
  lock that would keep them still; `registerUI` renders while the AMI thread
  may change a flag and wait for the mutex;
- the page is cached, and read back later by another function or thread;
- the cache answers from the committed table while requests are queued, in a
  batch and in an open transaction;
- condition variables notified without the mutex of those who wait;
- a table in a file that outlives the process;
- objects that subscribe to events before they are complete;
- one fact that reaches a phone, or the program, by two ways of different speed:
  list and change events, a reply and a notification, a lamp and a menu;
- a matcher that learns its symbols from the records it meets, shared without
  a lock.

The list with the line each one bites at is `"hazards"` in `PROJECT.json`.  The
repository has no tests.

## 2. The modules

| module | what it is |
|---|---|
| `LampPages` | the constants and the vocabulary of buttons, critical flags and pages |
| `LampDisplay` | abstract: what a plan promises to those who look at phones |
| `ButtonPlan` | the plan, its buttons and UIs, the AMI thread, the workers and the main thread |
| `MCButtonPlan` | its instance for TLC |
| `ButtonPlan_proofs` | theorems about it |
| `EndpointTable` | abstract: a table of phones updated by one request at a time |
| `DeskphoneCache` | the cache with its writer thread, stop, crash and restart |
| `MCDeskphoneCache` | its instance for TLC |
| `DeskphoneCache_proofs` | theorems about it |
| `PhoneRegistration`, `MCPhoneRegistration` | phones that come and go, the registration handler, what it needs of cache and plans |
| `PhoneRegistration_proofs` | theorems about it |
| `ParkLamp`, `MCParkLamp` | the park handler and the park button between Asterisk and a phone |
| `NightLamp`, `MCNightLamp` | the night handler and the night button |
| `Phonebook`, `MCPhonebook` | phonebooks and UIs made of `pjsip_wizard.conf`, with the matcher |
| `Wiring` | what main makes of the configuration; extended by `Lifecycle` |
| `Lifecycle`, `MCLifecycle` | main, SIGTERM and the ping thread, around `Wiring` |
| `ParkLamp_proofs`, `NightLamp_proofs`, `Phonebook_proofs`, `Lifecycle_proofs` | theorems about them; the last about `Wiring` too |
| `ListLemmas` | what the proofs share about numbers, sequences and queues of events |

Operators named `X_Something` that the text calls a faulty variant of `X` are not
part of any specification: they are what `X` would be with a plausible mistake,
kept to confirm that a property notices it (`"mutants"` in `PROJECT.json`).

### ButtonPlan

State.  `lamps` is the set of buttons whose `button_on_` is set; `phone_uis` and
`cached` are `phone_uis_` and each UI's `cached_button_state_`, with `Blank` for
null; `sharers` and `owner` are `phone_uis_mut_`.  `ami` and `main` are program
counters: the AMI thread waits for the mutex to invalidate (`lock_shared`),
invalidates, waits for it in `getPhoneUIs` (`lock`), or publishes.  `work[u]` is
where a UI's worker is (or, while publishing, the AMI thread itself), `draft` the
XML under construction, `action` and `unsent` the PJSIPNotify and the phones it is
still to go to, `display` the last page notified to each phone by each UI.
`display` ends at `asyncInvoke`: that Asterisk delivers actions in the order they
are sent is outside this program.

Steps.  A page is built by `ReadLed` and `ReadCritical`, one per atomic load:
`toButtonStateString` calls `isOn()`, and `isCritical()` loads the flag again.
TLC and the proofs thus see every torn reading.  The buttons are read in any
order (the code's order, that of an `unordered_map`, is unspecified but fixed;
a superset).  `SetOn` covers `exchange` and `triggerLampFieldUpdate`.  The
exclusive section of `getPhoneUIs` is one step: nothing in it waits and its
result is a function of what the mutex protects.  `SuccessfulAuth` takes the
cache's answer as an input; which answers are possible is `DeskphoneCache`'s
business.

More general than the program: `createPhonePlans` gives each plan exactly one UI
and registers it before the registration handler exists, so the second UI, and a
registration of a phone during `registerUI`, are possibilities of the class
`ButtonPlan` that today's wiring does not use.

Not in it: `removeButton` (no caller), `setAoRs` (called by the constructor
only: `AoRsOf` is a constant; `Phonebook` has the request it comes from), the HTTP
threads that read the cached state (`GetHTTPState` of `NightLamp`).

| property | what it says |
|---|---|
| `StaleLampIsPending` | a cached LED that differs from its flag has its correction under way: the AMI thread waits for the mutex, or is rendering this UI and has still to read this flag or to store what it read |
| `SettledIsCurrent` | when the AMI thread is not invalidating, every registered UI caches exactly the page of the flags, and every phone it ever notified shows it |
| `NoNullState` | `isCritical` and `getStateString` never meet the null pointer a UI is born with |
| `SentPageIsCurrent` | a page is sent only while it is the page of the flags |
| `ImplementsDisplay` | `LampDisplay`: no phone is more than one change behind, and one that is behind catches up |
| `StaleLampIsRepaired` | a stale cached LED is eventually right |

`LampDisplay` is the specification a user would write: a lamp changes only when
no phone is behind, a page put on a phone is the current one, and phones that are
behind catch up.  The refinement mapping is the identity on `lamps` and
`display`.  That it holds depends on the AMI thread invalidating before it takes
the next event, on the mutex, and on the order of `update` and `initialize`.

Fairness: weak on the AMI thread's handling of an event and on the main thread.
Both are ordinary threads that nothing here can suspend for ever; the mutex is
released by steps that are themselves fair.  The main thread's fairness includes
registering UIs, which it does unconditionally at start.  No event is owed by the
server.

### DeskphoneCache

State.  `db` is the committed table as the expiry of each record, 0 when it is
expired (`del_aor`, `initializeDatabase`) or absent, which no query tells apart.
`tx` is the table inside the writer's transaction; `batch_` and `batch` the
shared and the writer's vectors, a request leaving `batch` as its statement
executes; `run` is `batch_write_run_`; `writer` the writer's program counter.
`predicate` and `block` are the two moments within `wait` in which the writer
holds `batch_mut_`: it has not yet looked at the predicate, or has found it false
and is not yet asleep.  Those who take the mutex cannot act then; `stopWriteThread`,
which does not take it, can.  `caller` is an `addEndpoint` of the AMI thread
between its query and its request; `announced` a history variable.

Time is a counter; `Expiry` the configured lifetime.  `Restart` is a crash, a kill
or a new start after a stop, at any step: memory and the open transaction are
gone and `initializeDatabase` runs on what was committed.  Statements are taken
to succeed (their results are only asserted in the code).

| property | what it says |
|---|---|
| `KnownWasAnnounced` | `addEndpoint` calls a phone known only if it has called it new in this run of the program |
| `ImplementsTable` | with the table taken as what the pending requests will make of the committed one (or of the open transaction), every step is one request, one clean-up, a restart, a tick of the clock, or nothing: no request is lost, repeated or overtaken by batching |
| `QueueIsWritten` | a request does not stay in `batch_` while the program runs |
| `StopReturns` | `stopWriteThread` comes back; **it does not hold**, see below |

Fairness: weak on the writer and on the main thread once it is in the destructor.
None on the clock, the callers, a restart, or a spurious wakeup.

**Finding.** `stopWriteThread` (`DeskphoneCache.cpp:133`) clears the flag and
notifies without `batch_mut_`.  When both happen after the writer found the
predicate of `wait` false and before it sleeps, the notification is lost and
`join` waits for ever; `DeskphoneCache.hpp:79` promises "Stops the batch writing
thread."  The run `cache_stop` gives the schedule: construct, the writer enters
`wait` with an empty queue, the destructor sets the flag and notifies, the writer
blocks.

### PhoneRegistration

The composition that decides whether a phone is told: the main thread that
registers plans, the AMI thread, the cache, and phones.  The cache is `db`, the
phones with an unexpired committed record, and `queue`, the requests the writer
has not committed; `IsNew` reads `db` only.  A batch is any prefix of the queue.
Which of the requests of a phone decides is the last one (`After`).  A phone has
one address, so `deleteEndpoint` is about the phone.  A page is the lamp of a
plan, one lamp for each; that a publication or notification shows the current
page is what `ButtonPlan` proves.  `display` is what the phone shows: a phone off
line misses what is sent, and comes back as it was or rebooted.

| property | what it says |
|---|---|
| `WelcomedIsCurrent` | a phone called new once every plan was registered, and on line since, shows the current page of all its plans |
| `RegistrationRepairs` | while the program serves, a registration that waits to be handled repairs the phone's page of a plan, provided the page is critical or the phone is forgotten and nothing queued makes it known |
| `NewPhoneIsTold` | the first property from the moment of the subscription on; **it does not hold** |

A known phone that missed a change of a page that is not critical is not told:
the comment at `RegisterEventHandler.cpp:69` says so, and no property contradicts
it.  Fairness: weak on the three threads; none on phones, lamps, time and HTTP.

**Finding.** The callback is added before the plans are registered
(`RegisterEventHandler.cpp:17`, `ConfigFileParser.cpp:453-456`).  A phone whose
SuccessfulAuth falls in between is remembered for the whole expiry and told
nothing, or only some of its plans; its renewals are then "known".

### ParkLamp

State.  `status` and `parked` are the Asterisk server's; `events` the
ExtensionStatus events on their way to the AMI thread; `list` the
ExtensionStateList of the handler; `main` the constructor's step, with the
assignment of `parking_hints_` (`ParkEventHandler.cpp:28`) as a beginning and an
end.  `parked_extens_`, `parking_hints_` and `lamp` are the code's.  `screen` is
what a phone shows of the button's menu.  Asterisk puts the events of a list
anywhere among those that wait, each list event and change event carrying the
status at its time.  The AMI thread handles one event at a time.

`AmiEventHandler` reads `parking_hints_` while the main thread assigns it: a data
race.  The model takes either the old or the new set's answer; that a hash table
caught in a move does nothing worse is an assumption.

| property | what it says |
|---|---|
| `LampFollowsLot` | when the list has been answered and no event waits, the lamp is lit if a space of the lot is in use, and not if all are idle |
| `MenuAgreesWithLamp` | then the menu, which comes by a ParkedCalls action, lists a call exactly if the lamp is lit |
| `ItemLeadsToItsCall` | an item of any menu leads to its call while that is parked in its space |
| `ParkedCallIsShown` | a space that stays in use lights the lamp |

Fairness: weak on the constructor, the AMI thread, and Asterisk's answer.  A
handler that got no hints (the fetch failed) is excepted: its lamp stays dark,
which is the code's choice and listed as a hazard.  What `ParkedCalls` answers
when it fails is not modelled.

### NightLamp

State.  `device` is the night device in Asterisk; `setvars` the Setvar actions
posted by pushes; `request` the HTTP request of each phone (a push that has read
the button, or an answer on its way) and `led` what each phone shows.
`PushButton` is the read of `isOn()`; `PostAction` the clone, its rendering and
the action the scope guard posts.  Between the two anything may happen.  An
answer and a notification are not ordered.  Asterisk executes an action or
refuses it, and announces the device's changes.

`astray` remembers the phones whose answer could not be right: the lamp changed
after the answer was read, the Setvar was refused, or the push came before the
list was answered.  A change of the lamp notifies every phone, and clears it.

| property | what it says |
|---|---|
| `LampFollowsDevice` | whoever changed the device, and however pushes overlap: when no event waits the lamp is that of the device |
| `ButtonShowsLamp` | when all has settled every phone shows the lamp, unless it is astray |
| `NightIsShown` | a device that stays in use lights the lamp |

The exceptions of `ButtonShowsLamp` are what the code does: nothing corrects a
phone that shows an overtaken or refused answer until the lamp next changes.

### Phonebook

State.  `thread` is what each HTTP thread, and the main thread while it constructs
a UI, is doing, one step for each access to what may be shared: the file, the
matcher's tables, the expression.  `matcher` is each provider's `is_valid_ast_`
and `string_table_`; `owner` and `cache` each phonebook's mutex, text and time
stamp.  A record is a function from keys to values; the expression is its
symbols and the set of their values it accepts, which is what `exprtk` computes.
Compiling asks for each symbol that the tables do not have, in the order of the
expression, and ends at one the record lacks, with the compiled flag cleared; evaluating takes the value of every
symbol from the record.  A caller ID is one as expected, an odd one (the regular
expression does not match, and an entry without name and number is listed), an
empty one, or none.

| property | what it says |
|---|---|
| `MatchIsRight` | a list under construction has exactly the records so far that match (`Matches`, a definition without tables), whatever the matcher met before |
| `NeverOlder` | a phonebook is never replaced by one of an older file |
| `StaleAtMostTtl` | a phonebook served from the cache has been out of date for at most its life, counted from the store (a change between Asterisk's answer and the store is not counted before it) |
| `MutexIsReleased` | a phonebook's mutex is released, whatever the file holds |

Weak fairness for each thread's step: no step waits for another but for the mutex,
and that a thread gets the mutex is not claimed.  Values that are no strings (an
exception in the code) and malformed expressions are not modelled.

**Finding.** Phonebooks that name the same provider share its matcher
(`ConfigFileParser.cpp:152-167`), as the two of the sample configuration do.  Two
requests at once then mix values of two records: `phonebook_shared` shows a list
with the wrong records.

### Wiring and Lifecycle

`Wiring` goes through the lists of a configuration, one element a step: phonebooks
and providers, the expire path, and each phone with its plan, buttons, handlers
and paths.  Each step takes its place in `routes` and `plans`, or ends the
program, by `exit`, an exception that leaves main while `ping_thread` is joinable
("terminated"), a null pointer ("crashed"), or the assertion of `addButton`
(`ButtonPlan.cpp:107`, "aborted").  With two buttons of one id both builds are
followed: one with assertions aborts, one without them keeps the first button and
goes on.  `Lifecycle` is the rest of main.
Reading and checking the file, becoming a daemon, users and groups, syslog, the
connection and the login are steps that succeed or end the program.  The ping
thread's `wait_for` is `predicate`, `block`, `sleep`: main, which holds no mutex,
may clear the flag and notify at any of them.  `Destroy` is the end of main's block
(`main.cpp:119`) and its return: the cache is destroyed there, or after main if a
route of `g_server` holds it.

| property | what it says |
|---|---|
| `OnlyConsistentIsServed` | the program serves only a configuration all of whose references lead somewhere |
| `ConsistentIsServed` | and it comes to serve each that does and whose buttons have ids of their own, once the phonebooks are begun |
| `PathsActOnTheirButtons` | a path acts on a button of its type, in its phone's plan, with the device or lot of that button |
| `PingEndsFirst` | Logoff comes after the end of the ping thread |
| `StoppedServerLogsOff` | once the server is stopped main gets to log off, even if the ping thread misses the notification (its timeout helps); that the process then ends is not claimed |
| `SigtermStops` | after a SIGTERM that the program handles, main comes to the end of its block, or has ended; **it does not hold** |
| `SchemaSuffices` | a configuration as the schemas ask for is not terminated; **it does not hold** |

Fairness: weak on main up to the Logoff and on the ping thread, its timeout
included: 120 seconds pass, and Asterisk answers.  No signal is owed, nor is
`Destroy`: `~DeskphoneCache` joins the writer, which may never return (the finding
of `cache_stop`).  `httplib` is outside the
repository: `stop()` on a server that is not listening is taken to do nothing,
and `listen` to block until it is stopped, or to return at once when it cannot
bind.

**Findings.** A SIGTERM between `sigaction` (`main.cpp:89`) and `listen`
(`main.cpp:109`) is lost.  A phonebook needs `ttl` (`Phonebook.cpp:21`), which its
schema does not have: the schema has `expiry`, optional, which nothing reads.

## 3. The runs

| run | instance | shows |
|---|---|---|
| `plan` | 2 buttons, 2 UIs, 2 phones; 85,877 states | the properties of `ButtonPlan` |
| `cache` | 1 phone, 2 endpoints at one address, clock to 3, expiry 1, 3 requests pending; 244,964 states | the properties of `DeskphoneCache` but one |
| `cache_stop` | the same | `StopReturns` is violated |
| `register` | 1 phone, 2 plans, 3 requests queued, 2 registrations waiting; 50,880 states | `WelcomedIsCurrent`, `RegistrationRepairs` |
| `register_start` | the same | `NewPhoneIsTold` is violated |
| `park` | a lot of 2 spaces, 1 space of another lot, 2 calls, 2 changes waiting; 426,806 states | the properties of `ParkLamp` |
| `night` | 2 phones, the night device and another, 2 changes and 2 actions waiting; 504,603 states | the properties of `NightLamp` |
| `phonebook` | 2 HTTP threads, 1 phonebook, 1 UI, a provider each, 3 files, 2 changes of the file, clock to 3; 282,060 states | the properties of `Phonebook` |
| `phonebook_shared` | 2 phonebooks with one provider, one file | `MatchIsRight` is violated |
| `lifecycle` | 10 configurations; 1,195 states | the properties of `Lifecycle` but two |
| `lifecycle_signal` | the sample configuration | `SigtermStops` is violated |
| `wiring_schema` | a configuration that follows the schema | `SchemaSuffices` is violated |

Why these sizes are enough.

- `plan`: two buttons are what a torn page needs; one alerts when lit and the
  other when not, so that the critical flag depends on both.  Two UIs let two
  workers run in parallel and one UI be registered while another is in use; one
  renders for both phones and the other for one, so `hasAoR` matters.  The plan
  has no counters and needs no bound.
- `cache`: two endpoints at one address let `deleteEndpoint` expire several
  records at once and let a request be about another record than the one in
  question; with a clock to 3 and an expiry of 1 a record can be found, expire,
  and be inserted again.  `MaxPending` is 3: one request in the transaction, one
  in the queue and one being made.
- `register`: phones do not influence one another but through the queue, whose
  requests are for one phone each; two plans are what the loop of
  `publishPhoneState` needs, one of them critical when lit.  Three requests are an
  insertion, a removal and an insertion again; `MaxQueue` and `MaxAuths` disable
  registrations and removals; the AMI thread finds a full queue when several
  registrations wait, and goes on when the writer, which is fair, has committed.
- `park`: two spaces of the lot are what an event for one of them needs to
  disagree with the other, the third is the one whose hint is not known.
  `MaxEvents` disables changes of the lot.
- `night`: two phones that push at once, an action of each, and a device changed
  by others; `MaxEvents` disables changes, and the execution of actions until
  the AMI thread has made room; `MaxSetvars` disables pushes.
- `phonebook`: the expression has two symbols, so that a compilation can end
  half way; between them the files have a record that matches, one that does not,
  ones that lack either key, and each sort of caller ID.  With a life of 1, two
  changes and a clock to 3 a phonebook is made, served late, and made again twice.
  The lower limit of the life, 120 minutes in the code, is `MinTtl`.
- `lifecycle`: the sample, one configuration with two phones, one with two
  buttons of one id, and one for each reference that leads nowhere.

But for that queue, every bound disables actions of the environment only.  Deadlock is checked in
every run; in `Lifecycle` the process that is gone may stutter.  `wiring_schema`
ends at its violation after a few states.

## 4. The proofs

All theorems hold for every value of the constants that satisfies the named
assumptions: the critical sets are sets of buttons, each UI has a set of phones,
`Blank` is not a page, each endpoint has an address, the expiry and the bounds
are positive, plans draw for sets of phones, the watched hint is one of the
hints, parking spaces are finitely many numbers and the lot has a first and a last
one, phonebooks are not UIs and have a provider each, and what the configuration
has as a list is one.  Other sets may be empty or infinite.  One theorem has a
hypothesis besides, `OwnProviders` (below).  Every safety property that a passing
run checks is the statement of a theorem.

**ButtonPlan_proofs.** `Invariance` proves `IInv`, from which `StaleLampsPending`,
`SettledCurrent`, `NullSafety`, `SentPagesCurrent` and `ImplementsDisplaySafety`
follow.  The safety properties are not inductive by themselves.  What is missing
is why a page comes out right although the flags are read without a lock:

- `LockInv`: the mutex follows the program counters, so `registerUI` and
  `invalidate` exclude each other;
- `WorkInv`: only UIs whose registration is complete are worked on;
- `DraftInv`: what a thread has read so far agrees with the flags *as they are
  now*.  For the AMI thread always, since nobody else changes a flag; for the
  main thread unless the AMI thread waits for the mutex, in which case the page
  will be rendered again;
- `PageInv`: hence a UI whose worker has passed `update` caches the current
  page, its action holds it, and the phones already notified show it.

One lemma per part shows that every action preserves it, and one
(`DisplayStep`) maps every step to a step of `LampDisplay`.

**DeskphoneCache_proofs.** `Invariance` proves `IInv`: types, `AnnouncedInv`
(every record and every queued insertion belongs to a phone that was called new,
which makes `KnownWasAnnounced` inductive) and `BatchInv` (the writer's batch is
empty outside a transaction).  `ImplementsEndpointTable` proves the refinement.
Its heart is `Overlay(tab, todo)`, the table after the requests `todo`, defined
without recursion by the last request about each record; `OverlayAppend` and
`OverlayHeadTail` show that this is the same as executing the requests one by
one, from either end.  They need that a non-empty set of positions has a
greatest element, which `GreatestExists` (in `ListLemmas`) gets from the well-foundedness of `<`.

**PhoneRegistration_proofs.** `Invariance` proves `IInv`: types and `WelcomeInv`,
from which `WelcomedCurrent` follows.  `WelcomedIsCurrent` excepts a phone whose
registration is being handled, so it says too little of the moment before the
publication.  `WelcomeInv` adds it: a phone that was welcomed is on line, every
plan is registered, and it shows every current page or the AMI thread is about
to send it all of them.  Nothing is assumed of the cache: `db` may answer "new" or
"known" to any registration; the argument is that a page changes only in the AMI
thread, between callbacks, and reaches all phones on line.

**ListLemmas.**  `LastIn(q, A, G)` says that the last element of a queue that is
in `A`, if there is one, is in `G`; lemmas say what an element at the end, the
head taken off, and an insertion anywhere do to it.  With `A` the events about a
device and `G` those that tell its state as it is now, it is what both handlers
rely on, and what makes it hold wherever Asterisk puts the answer to the list
among the changes.

**ParkLamp_proofs.** `Invariance` proves `IInv`, from which `LampIsTheLots` and
`MenuShowsWhatTheLampSays` follow.  `LampFollowsLot` speaks of quiet moments only.
`SpaceInv` says for each space what holds in between: the last event about it tells
its state, and if there is none and the list has been answered, `parked_extens_`
is right about it.  It needs `StartInv`, how far the constructor has come (nothing
is announced before the subscription, the list comes after the hints are stored),
and `LampInv`, that the lamp is lit exactly while `parked_extens_` is not empty.
The menu goes by `parked`, the lamp by `status`: `StatusInv` relates them.
`ItemsLeadToTheirCalls` is an action property; it needs that a list of a lot's
calls has every call (`ParkedCallsListed`) and that the search by extension finds
the one (`DetailFound`), in whatever order Asterisk lists them.

**NightLamp_proofs.** `Invariance` proves `IInv`.  `DeviceInv` is the argument of
the park handler for one device, and gives `LampIsTheDevices`.  For
`PhonesShowTheLamp`, `PhoneInv` says of every phone, astray ones excepted, at every
moment: what it shows (`LedInv`), and what its answer under way will make it show
(`AnswerInv`), is the lamp, or something is coming that will make it the lamp: an
event that waits, or an action of this phone that waits for Asterisk (`Coming`).  A
push that no change has overtaken carries the opposite of the lamp (`PushInv`).
`SlotInv` is there for the type of `setvars`: each push that has still to post its
action has its place in the queue.

**Phonebook_proofs.** `Invariance` proves `IInv`, whether phonebooks share providers
or not: `LockInv` (a mutex is held exactly by the thread that is past its lock),
`ServerInv` (no phonebook is asked for while a UI is constructed), `AgeInv` (a file
that a thread has fetched is no older than the one of the list it makes, because
the thread holds the mutex) and `StaleInv` (a phonebook has not been out of date
longer than it exists, and its time stamp says how long that is).  They give
`NoOlderPhonebook` and `NotStaleForLong`, both action properties.  `ListsMatch`
assumes `OwnProviders`: no two phonebooks name the same provider.  Without it the
property does not hold, which is the finding of `phonebook_shared`; UIs may share
providers with one another and with phonebooks.  `Exclusive` shows that then a
matcher has one user at a time.  `MatchInv` says that while the expression is
evaluated every symbol already taken has its value in *this* record, whatever
values the tables were filled with, and that the list so far is right; that a
symbol the record lacks ends the record is why one not yet taken does no harm.

**Lifecycle_proofs.** `Invariance` proves `IInv`, for configurations with any lists.
`BooksDone`, `PhonesDone` and `PathsDone` are the elements main is past, by where
it is; `BooksInv`, `PlansInv` and `PathsInv` say that each of these is as
`Consistent` asks for, so that main has checked all of them when it gets to
`listen` (`ServedAreConsistent`).  `PlansInv` also has that the buttons of a plan
are those of its handlers, and no two phones done have a plan or a name in common;
`RoutesInv`, that each path acts on the button it was made for, whatever plans are
added later (`PathsActRight`).  `LifeInv` has that main logs off after the
join, from which `PingEnds` follows.

Only model-checked: the liveness properties (`StaleLampIsRepaired`, `QueueIsWritten`,
`RegistrationRepairs`, `ParkedCallIsShown`, `NightIsShown`, `MutexIsReleased`,
`ConsistentIsServed`, `StoppedServerLogsOff`), fairness being out of the prover's reach,
and with them the liveness half of `ImplementsDisplay`.

Three definitions are written so that they can be proved about: `ParkedCalls` takes
the order of its calls from a choice (any order; the code sorts nothing),
`Listed` says what a list has by the places of its entries instead of by recursion,
and functions are extended by constructors, since the prover has no definition of
`:>` and `@@`.

## 5. Not modelled, and what is left

Not modelled:

- `cpp_ami`, `httplib`, `exprtk`, `yaml-schema-cpp`, `dbpool`: not in the
  repository; each module says what it takes them to do.  In particular
  `cpp_ami` delivers one event at a time, in order, and `invoke` returns.
- Failures of SQL statements: a release build goes on after a failed BEGIN or
  COMMIT.
- `ButtonPlan::removeButton`, `DeskphoneCache::forEachAOR` (no callers).
- Text: XML, URIs, log messages, colours, labels and flash modes; command line
  help.
- The destruction of what main built, except the cache: the order in which
  handlers remove their callbacks, which thread destroys them, and what `exit`
  does to objects with static lifetime.
- Exceptions from documents of an unexpected shape (a key whose value is no
  string, a parking lot without a position).

Left to do, in this order:

1. Between the modules: that the queue of `PhoneRegistration` does what
   `DeskphoneCache` does, and that what `MatchIsRight` says of a list under
   construction holds of the text that is served.
2. Failing statements in `DeskphoneCache`: what `ImplementsTable` then becomes.
3. The destruction order at the end of main.

## 6. Running

    tlc -config MCButtonPlan.cfg MCButtonPlan.tla
    tlc -config MCDeskphoneCache.cfg MCDeskphoneCache.tla
    tlc -config MCDeskphoneCache_stop.cfg MCDeskphoneCache.tla
    tlc -config MCPhoneRegistration.cfg MCPhoneRegistration.tla
    tlc -config MCPhoneRegistration_start.cfg MCPhoneRegistration.tla
    tlc -config MCParkLamp.cfg MCParkLamp.tla
    tlc -config MCNightLamp.cfg MCNightLamp.tla
    tlc -config MCPhonebook.cfg MCPhonebook.tla
    tlc -config MCPhonebook_shared.cfg MCPhonebook.tla
    tlc -config MCLifecycle.cfg MCLifecycle.tla
    tlc -config MCLifecycle_signal.cfg MCLifecycle.tla
    tlc -config MCLifecycle_schema.cfg MCLifecycle.tla
    tlapm ButtonPlan_proofs.tla
    tlapm DeskphoneCache_proofs.tla
    tlapm PhoneRegistration_proofs.tla
    tlapm ListLemmas.tla
    tlapm ParkLamp_proofs.tla
    tlapm NightLamp_proofs.tla
    tlapm Phonebook_proofs.tla
    tlapm Lifecycle_proofs.tla
