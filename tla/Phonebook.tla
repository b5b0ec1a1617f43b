----------------------------- MODULE Phonebook -----------------------------
(***************************************************************************)
(* What is made of pjsip_wizard.conf: the phonebooks phones fetch over     *)
(* HTTP (src/src/phonebook/) and the phones a UI draws for                 *)
(* (src/src/bridge/provider/), both through a provider that asks Asterisk  *)
(* for the file and matches each record against an expression              *)
(* (src/include/match/JsonExpressionMatcher.hpp).                          *)
(*                                                                         *)
(* The matcher learns the symbols of its expression from the records it    *)
(* meets: it compiles the expression anew for each record until one has    *)
(* all of them, and then evaluates what it compiled.  A phonebook has a    *)
(* mutex; a provider, and the matcher in it, has none.                     *)
(***************************************************************************)
EXTENDS Integers, SequencesExt

CONSTANTS
    Clients,      \* HTTP threads
    Main,         \* the thread that constructs the UIs
    Books, UIs,
    Providers,
    ProviderOf,   \* the provider of each phonebook and UI
    FormatOf,     \* the type of phone of each phonebook
    Symbols,      \* the symbols of the match expression, in its order
    SymbolMap,    \* the configured pairs of a symbol and a key
    Accepts,      \* the values of the symbols for which the expression holds
    Files,        \* what pjsip_wizard.conf can contain: sequences of records
    Ttl, MinTtl,  \* configured life of a phonebook, and the least it is given
    MaxTime, MaxVersion

Lists == Books \cup UIs
Threads == Clients \cup {Main}
Free == "free"
ASSUME ListsAssumption == /\ Books \cap UIs = {} /\ Main \notin Clients /\ Free \notin Threads
                          /\ ProviderOf \in [Lists -> Providers]
ASSUME SymbolsAssumption == Symbols \in Seq(ToSet(Symbols))
ASSUME TtlAssumption == Ttl \in Nat /\ MinTtl \in Nat \ {0}
ASSUME BoundsAssumption == MaxTime \in Nat /\ MaxVersion \in Nat

VARIABLES
    now,
    file, version,  \* the file as it is, and the number of its changes
    matcher,        \* of each provider: is_valid_ast_ and string_table_
    owner,          \* the thread that holds cached_phonebook_mut_
    cache,          \* cached_phonebook_ and timestamp_, or a UI's compatible_aors_
    thread,         \* what each thread is doing
    source,         \* history: the version each list was made of
    stale           \* history: how long each list has been out of date, from its store on

vars == <<now, file, version, matcher, owner, cache, thread, source, stale>>

expiry_ == IF Ttl > MinTtl THEN Ttl ELSE MinTtl
Never == -1
Idle == [at |-> "idle"]
Busy(t) == thread[t] # Idle
SymbolSet == ToSet(Symbols)

\* The first pair with the symbol decides; a symbol without one is its own key.
GetSymbol(symbol) ==
    LET at == SelectInSeq(SymbolMap, LAMBDA pair : pair[1] = symbol)
    IN  IF at = 0 THEN symbol ELSE SymbolMap[at][2]

Has(rec, symbol) == GetSymbol(symbol) \in DOMAIN rec
Value(rec, symbol) == rec[GetSymbol(symbol)]

\* What a phonebook lists of a record: a caller ID that is not as expected makes
\* an entry without name and number.
CallerDetails(rec) ==
    IF "callerid" \notin DOMAIN rec \/ rec.callerid = "" THEN <<>>
    ELSE IF rec.callerid = "odd" THEN <<"nameless">> ELSE <<rec.callerid>>

\* What a UI lists of a record.
CompatibleAoR(rec) == IF "auth" \in DOMAIN rec THEN <<rec.auth>> ELSE <<>>

Extract(l, rec) == IF l \in Books THEN CallerDetails(rec) ELSE CompatibleAoR(rec)

\* An item for each entry, in the words of the phone; the AoRs of a UI are a set.
Snom(entries) == [item \in DOMAIN entries |-> <<"item", entries[item]>>]
Yealink(entries) == [item \in DOMAIN entries |-> <<"DirectoryEntry", entries[item]>>]
Render(l, entries) ==
    CASE l \in UIs -> ToSet(entries)
      [] FormatOf[l] = "snom" -> Snom(entries)
      [] OTHER -> Yealink(entries)

TypeOK ==
    /\ now \in 0 .. MaxTime /\ version \in 0 .. MaxVersion /\ file \in Files
    /\ \A r \in Providers : /\ matcher[r].valid \in BOOLEAN
                            /\ DOMAIN matcher[r].strings \subseteq SymbolSet
                            /\ matcher[r].valid => DOMAIN matcher[r].strings = SymbolSet
    /\ owner \in [Lists -> Threads \cup {Free}]
    /\ \A l \in Lists : cache[l].timestamp \in Never .. MaxTime + expiry_
    /\ \A t \in Threads : Busy(t) => thread[t].list \in Lists
    /\ source \in [Lists -> -1 .. MaxVersion]
    /\ stale \in [Books -> Nat]

Init ==
    /\ now = 0 /\ version = 0 /\ file \in Files
    /\ matcher = [r \in Providers |-> [valid |-> FALSE, strings |-> <<>>]]
    /\ owner = [l \in Lists |-> Free]
    /\ cache = [l \in Lists |-> [text |-> IF l \in UIs THEN {} ELSE <<>>, timestamp |-> Never]]
    /\ thread = [t \in Threads |-> Idle]
    /\ source = [l \in Lists |-> -1]
    /\ stale = [b \in Books |-> 0]

-----------------------------------------------------------------------------
(* Asterisk and the clock                                                  *)

ChangeFile(f) ==
    /\ f # file /\ version < MaxVersion
    /\ file' = f /\ version' = version + 1
    /\ UNCHANGED <<now, matcher, owner, cache, thread, source, stale>>

Tick ==
    /\ now < MaxTime
    /\ now' = now + 1
    /\ stale' = [b \in Books |-> IF source[b] = version \/ cache[b].timestamp = Never
                                 THEN 0 ELSE stale[b] + 1]
    /\ UNCHANGED <<file, version, matcher, owner, cache, thread, source>>

-----------------------------------------------------------------------------
(* Phonebook::getPhonebook, and the constructor of PhoneUI                 *)

Goto(t, at) == thread' = [thread EXCEPT ![t].at = at]

\* The UIs are constructed before the HTTP server listens.
Request(t, l) ==
    /\ ~Busy(t)
    /\ IF t = Main THEN l \in UIs /\ source[l] = -1
       ELSE l \in Books /\ ~Busy(Main) /\ \A u \in UIs : source[u] # -1
    /\ thread' = [thread EXCEPT ![t] =
                      [at |-> "lock", list |-> l, file |-> <<>>, done |-> 0,
                       rest |-> {}, out |-> <<>>, version |-> -1]]
    /\ UNCHANGED <<now, file, version, matcher, owner, cache, source, stale>>

\* Faulty variant: the mutex is taken to look at the time stamp only.
LockGuard_Early(t) ==
    /\ thread[t].at = "lock" /\ owner[thread[t].list] = Free
    /\ UNCHANGED owner

LockGuard(t) ==
    /\ thread[t].at = "lock" /\ owner[thread[t].list] = Free
    /\ owner' = [owner EXCEPT ![thread[t].list] = t]

Enter(t) ==
    /\ LockGuard(t)
    /\ Goto(t, IF cache[thread[t].list].timestamp < now THEN "ask" ELSE "serve")
    /\ UNCHANGED <<now, file, version, matcher, cache, source, stale>>

\* GetConfigJSON; nothing is listed when it fails.
Ask(t) ==
    /\ thread[t].at = "ask"
    /\ \E answer \in {file, <<>>} :
         thread' = [thread EXCEPT ![t].at = "next", ![t].file = answer,
                                  ![t].version = IF answer = file THEN version ELSE -1]
    /\ UNCHANGED <<now, file, version, matcher, owner, cache, source, stale>>

\* The list is complete.  A change of the file since Asterisk's answer counts for stale
\* from here on.
Store(t) ==
    /\ thread[t].at = "next" /\ thread[t].done = Len(thread[t].file)
    /\ LET l == thread[t].list
       IN  /\ cache' = [cache EXCEPT ![l] = [text |-> Render(l, thread[t].out),
                                             timestamp |-> now + expiry_]]
           /\ source' = [source EXCEPT ![l] = IF l \in UIs THEN version
                                              ELSE thread[t].version]
           /\ stale' = [b \in Books |-> IF b = l THEN 0 ELSE stale[b]]
    /\ Goto(t, "serve")
    /\ UNCHANGED <<now, file, version, matcher, owner>>

\* Faulty variant: each use of the phonebook extends its life.
Serve_Extending(t) ==
    /\ thread[t].at = "serve"
    /\ owner' = [owner EXCEPT ![thread[t].list] = Free]
    /\ cache' = [cache EXCEPT ![thread[t].list].timestamp =
                     IF now < MaxTime THEN now + expiry_ ELSE @]
    /\ thread' = [thread EXCEPT ![t] = Idle]
    /\ UNCHANGED <<now, file, version, matcher, source, stale>>

\* Faulty variant: the mutex is not released.
Serve_Locked(t) ==
    /\ thread[t].at = "serve"
    /\ thread' = [thread EXCEPT ![t] = Idle]
    /\ UNCHANGED <<now, file, version, matcher, owner, cache, source, stale>>

Serve(t) ==
    /\ thread[t].at = "serve"
    /\ owner' = [owner EXCEPT ![thread[t].list] = Free]
    /\ thread' = [thread EXCEPT ![t] = Idle]
    /\ UNCHANGED <<now, file, version, matcher, cache, source, stale>>

-----------------------------------------------------------------------------
(* JSONExpressionMatcher::isMatch, for the next record of the file         *)

Record(t) == thread[t].file[thread[t].done + 1]
Matcher(t) == matcher[ProviderOf[thread[t].list]]

NextRecord(t, entries) ==
    thread' = [thread EXCEPT ![t].at = "next", ![t].done = @ + 1, ![t].out = @ \o entries]

IsMatch(t) ==
    /\ thread[t].at = "next" /\ thread[t].done < Len(thread[t].file)
    /\ thread' = [thread EXCEPT
           ![t].at = IF Matcher(t).valid THEN "evaluate" ELSE "compile",
           ![t].rest = IF Matcher(t).valid THEN DOMAIN Matcher(t).strings ELSE {}]
    /\ UNCHANGED <<now, file, version, matcher, owner, cache, source, stale>>

SetMatcher(t, m) == matcher' = [matcher EXCEPT ![ProviderOf[thread[t].list]] = m]
Known(t, symbol) == symbol \in DOMAIN Matcher(t).strings

\* The parser meets a symbol that is not in the table: the resolver adds it with
\* its value in this record, or the compilation fails there.
Resolve(t) ==
    /\ thread[t].at = "compile"
    /\ LET at == SelectInSeq(Symbols, LAMBDA s : ~Known(t, s))
           symbol == Symbols[at]
       IN  /\ at # 0
           /\ IF Has(Record(t), symbol)
              THEN /\ SetMatcher(t, [Matcher(t) EXCEPT !.strings =
                         [s \in DOMAIN @ \cup {symbol} |->
                             IF s = symbol THEN Value(Record(t), s) ELSE @[s]]])
                   /\ UNCHANGED thread
              ELSE SetMatcher(t, [Matcher(t) EXCEPT !.valid = FALSE]) /\ NextRecord(t, <<>>)
    /\ UNCHANGED <<now, file, version, owner, cache, source, stale>>

\* Faulty variant: the values met while compiling are taken for this record's.
Compiled_Unevaluated(t) ==
    /\ thread[t].at = "compile"
    /\ \A s \in SymbolSet : Known(t, s)
    /\ SetMatcher(t, [Matcher(t) EXCEPT !.valid = TRUE])
    /\ thread' = [thread EXCEPT ![t].at = "evaluate", ![t].rest = {}]
    /\ UNCHANGED <<now, file, version, owner, cache, source, stale>>

\* Faulty variant: the expression counts as compiled before its symbols are known.
Compiled_Early(t) ==
    /\ thread[t].at = "compile"
    /\ SetMatcher(t, [Matcher(t) EXCEPT !.valid = TRUE])
    /\ thread' = [thread EXCEPT ![t].at = "evaluate", ![t].rest = DOMAIN Matcher(t).strings]
    /\ UNCHANGED <<now, file, version, owner, cache, source, stale>>

\* Every symbol is known: the expression stays compiled.
Compiled(t) ==
    /\ thread[t].at = "compile"
    /\ \A s \in SymbolSet : Known(t, s)
    /\ SetMatcher(t, [Matcher(t) EXCEPT !.valid = TRUE])
    /\ thread' = [thread EXCEPT ![t].at = "evaluate", ![t].rest = SymbolSet]
    /\ UNCHANGED <<now, file, version, owner, cache, source, stale>>

\* evaluate takes the value of a symbol from the record, in any order.
Update(t, s) ==
    /\ thread[t].at = "evaluate" /\ s \in thread[t].rest
    /\ IF Has(Record(t), s)
       THEN /\ SetMatcher(t, [Matcher(t) EXCEPT !.strings[s] = Value(Record(t), s)])
            /\ thread' = [thread EXCEPT ![t].rest = @ \ {s}]
       ELSE NextRecord(t, <<>>) /\ UNCHANGED matcher
    /\ UNCHANGED <<now, file, version, owner, cache, source, stale>>

\* The value of the expression decides.
Evaluate(t) ==
    /\ thread[t].at = "evaluate" /\ thread[t].rest = {}
    /\ NextRecord(t, IF Matcher(t).strings \in Accepts
                     THEN Extract(thread[t].list, Record(t)) ELSE <<>>)
    /\ UNCHANGED <<now, file, version, matcher, owner, cache, source, stale>>

-----------------------------------------------------------------------------

Step(t) ==
    /\ Busy(t)
    /\ \/ Enter(t) \/ Ask(t) \/ IsMatch(t) \/ Resolve(t) \/ Compiled(t)
       \/ (\E s \in SymbolSet : Update(t, s)) \/ Evaluate(t) \/ Store(t) \/ Serve(t)

Next == \/ Tick
        \/ \E f \in Files : ChangeFile(f)
        \/ \E t \in Threads : Step(t) \/ \E l \in Lists : Request(t, l)

\* A thread that can go on with its request does; the mutex promises no order.
Fairness == \A t \in Threads : WF_vars(Step(t))

Spec == Init /\ [][Next]_vars /\ Fairness

-----------------------------------------------------------------------------
(* Properties                                                              *)

\* What the expression says of a record, without tables: every symbol has a
\* value in it and the values are accepted.
Matches(rec) ==
    /\ \A s \in SymbolSet : Has(rec, s)
    /\ [s \in SymbolSet |-> Value(rec, s)] \in Accepts

\* The list of the first n records of a file: it has one entry for each that matches
\* and has something to list, at the place the record has among those.
Wanted(l, f, n) == {i \in 1 .. n : Matches(f[i]) /\ Extract(l, f[i]) # <<>>}
Listed(l, f, n, out) ==
    /\ Len(out) = Cardinality(Wanted(l, f, n))
    /\ \A i \in Wanted(l, f, n) : Extract(l, f[i]) = <<out[Cardinality(Wanted(l, f, i))]>>

\* "Returns true if YAML node node matches the match expression": whatever the
\* matcher has met before, records without some of the symbols included, a list
\* under construction has just the records that match.
MatchIsRight ==
    \A t \in Threads : Busy(t) /\ thread[t].at = "next" =>
        Listed(thread[t].list, thread[t].file, thread[t].done, thread[t].out)

\* A phonebook is not replaced by one made of an older file, however requests
\* for it overlap; a failed request makes it empty.
NeverOlder ==
    [][\A l \in Books : source'[l] # source[l] => source'[l] = -1 \/ source'[l] > source[l]
                                                  \/ source[l] = -1]_vars

\* A phonebook that is served from the cache, an empty one after a failure
\* included, has been out of date for no longer than its life, not counting the
\* time between Asterisk's answer and the store.
StaleAtMostTtl ==
    [][\A t \in Clients : Enter(t) /\ thread'[t].at = "serve"
           => stale[thread[t].list] <= expiry_]_vars

\* Whoever has the mutex of a phonebook or constructs a UI comes to an end,
\* whatever the file and the tables of the matcher.
MutexIsReleased == \A l \in Lists : owner[l] # Free ~> owner[l] = Free
=============================================================================
