--------------------------- MODULE Phonebook_proofs ---------------------------
(***************************************************************************)
(* Proofs about Phonebook, for any threads, lists, files and expression.   *)
(* What a list holds needs that phonebooks do not share a provider; all    *)
(* the rest holds if they do.                                              *)
(***************************************************************************)
EXTENDS Phonebook, ListLemmas

\* No two phonebooks name the same provider; UIs may share theirs.
OwnProviders == \A b, c \in Books : ProviderOf[b] = ProviderOf[c] => b = c

-----------------------------------------------------------------------------
(* The inductive invariant                                                 *)

Fields == {"at", "list", "file", "done", "rest", "out", "version"}
Building == {"next", "compile", "evaluate"}

\* What a thread knows of its request.
RequestInv(t) ==
    /\ DOMAIN thread[t] = Fields
    /\ thread[t].at \in {"lock", "ask", "serve"} \cup Building
    /\ thread[t].list \in Lists
    /\ thread[t].done \in Nat /\ thread[t].version \in -1 .. MaxVersion
    /\ thread[t].out \in Seq(ToSet(thread[t].out))
    /\ thread[t].at \in {"lock", "ask"} => thread[t].done = 0 /\ thread[t].out = <<>>
ShapeInv ==
    /\ DOMAIN thread = Threads /\ DOMAIN cache = Lists /\ DOMAIN matcher = Providers
    /\ \A t \in Threads : Busy(t) => RequestInv(t)
    /\ \A r \in Providers :
         /\ DOMAIN matcher[r] = {"valid", "strings"}
         /\ matcher[r].strings = [s \in DOMAIN matcher[r].strings |-> matcher[r].strings[s]]

\* A mutex is held by the thread that is past its lock, and by no other.
LockInv ==
    \A t \in Threads, l \in Lists :
        owner[l] = t <=> Busy(t) /\ thread[t].at # "lock" /\ thread[t].list = l

\* Phonebooks are asked for when all the UIs are there.
ServerInv ==
    /\ Busy(Main) => thread[Main].list \in UIs
    /\ \A c \in Clients : Busy(c) => /\ thread[c].list \in Books /\ ~Busy(Main)
                                     /\ \A u \in UIs : source[u] # -1

\* A file that a thread has fetched is no older than that of its list.
AgeInv ==
    /\ \A l \in Lists : source[l] <= version
    /\ \A t \in Threads : Busy(t) /\ thread[t].at \in Building =>
         /\ thread[t].version <= version
         /\ thread[t].version = -1 \/ thread[t].version >= source[thread[t].list]

\* A phonebook was made expiry_ before its time stamp, and has not been out of
\* date for longer than since then.
StaleInv == \A b \in Books : stale[b] + cache[b].timestamp <= now + expiry_

IInv == TypeOK /\ ShapeInv /\ LockInv /\ ServerInv /\ AgeInv /\ StaleInv

\* A list under construction has what matched so far; while the expression is
\* evaluated, the symbols already taken have their values in this record.
ListInv(t) ==
    thread[t].at \in Building =>
        Listed(thread[t].list, thread[t].file, thread[t].done, thread[t].out)
TakenInv(t) ==
    thread[t].at = "evaluate" =>
        /\ Matcher(t).valid
        /\ \A s \in SymbolSet \ thread[t].rest :
             Has(Record(t), s) /\ Matcher(t).strings[s] = Value(Record(t), s)
MatchInv == \A t \in Threads : Busy(t) => ListInv(t) /\ TakenInv(t)

-----------------------------------------------------------------------------
(* The entries of a list                                                   *)

\* A record has one entry at most.
LEMMA OneEntry ==
    ASSUME NEW l, NEW rec
    PROVE  Extract(l, rec) = <<>> \/ \E x : Extract(l, rec) = <<x>>
BY DEF Extract, CallerDetails, CompatibleAoR

LEMMA WantedFinite ==
    ASSUME NEW l, NEW f, NEW n \in Nat
    PROVE  IsFiniteSet(Wanted(l, f, n)) /\ Cardinality(Wanted(l, f, n)) \in Nat
<1>1. IsFiniteSet(1 .. n) /\ Wanted(l, f, n) \subseteq 1 .. n
  BY FS_Interval DEF Wanted
<1> QED
  BY <1>1, FS_Subset, FS_CardinalityType

\* Of the records that are listed, each has its place.
LEMMA WantedPlace ==
    ASSUME NEW l, NEW f, NEW n \in Nat, NEW i \in Wanted(l, f, n)
    PROVE  Cardinality(Wanted(l, f, i)) \in 1 .. Cardinality(Wanted(l, f, n))
<1>1. i \in 1 .. n /\ i \in Wanted(l, f, i) /\ Wanted(l, f, i) \subseteq Wanted(l, f, n)
  BY DEF Wanted
<1>2. /\ IsFiniteSet(Wanted(l, f, n)) /\ IsFiniteSet(Wanted(l, f, i))
      /\ Cardinality(Wanted(l, f, n)) \in Nat /\ Cardinality(Wanted(l, f, i)) \in Nat
  BY <1>1, WantedFinite
<1>3. Cardinality(Wanted(l, f, i)) # 0
  BY <1>1, <1>2, FS_EmptySet
<1>4. Cardinality(Wanted(l, f, i)) <= Cardinality(Wanted(l, f, n))
  BY <1>1, <1>2, FS_Subset
<1> QED
  BY <1>2, <1>3, <1>4

LEMMA ListedNone == ASSUME NEW l, NEW f PROVE Listed(l, f, 0, <<>>)
<1>1. Wanted(l, f, 0) = {}
  BY DEF Wanted
<1> QED
  BY <1>1, FS_EmptySet, EmptySeq DEF Listed

\* The next record adds its entry if it matches.
LEMMA ListedMore ==
    ASSUME NEW l, NEW f, NEW n \in Nat, NEW out, out \in Seq(ToSet(out)), Listed(l, f, n, out),
           NEW entries,
           entries = IF Matches(f[n + 1]) THEN Extract(l, f[n + 1]) ELSE <<>>
    PROVE  Listed(l, f, n + 1, out \o entries)
<1> DEFINE W == Wanted(l, f, n)
           C(i) == Cardinality(Wanted(l, f, i))
<1>1. IsFiniteSet(W) /\ C(n) \in Nat /\ Len(out) = C(n)
      /\ \A i \in W : Extract(l, f[i]) = <<out[C(i)]>> /\ C(i) \in 1 .. C(n)
  BY WantedFinite, WantedPlace DEF Listed
<1>2. CASE entries = <<>>
  <2>1. Wanted(l, f, n + 1) = W
    BY <1>2 DEF Wanted
  <2>2. out \o entries = out
    BY <1>2, ConcatEmptySeq
  <2> QED
    BY <1>1, <2>1, <2>2 DEF Listed
<1>3. CASE entries # <<>>
  <2>1. Matches(f[n + 1]) /\ entries = Extract(l, f[n + 1])
    BY <1>3
  <2>2. PICK x : entries = <<x>>
    BY <1>3, <2>1, OneEntry
  <2>3. Wanted(l, f, n + 1) = W \cup {n + 1} /\ n + 1 \notin W
    BY <1>3, <2>1 DEF Wanted
  <2>4. C(n + 1) = C(n) + 1
    BY <1>1, <2>3, FS_AddElement
  <2> DEFINE S == ToSet(out) \cup {x}
             new == Append(out, x)
  <2>5. out \in Seq(S) /\ x \in S
    OBVIOUS
  <2>6. out \o entries = new
    BY <2>2, <2>5, AppendIsConcat
  <2>7. Len(new) = C(n) + 1 /\ new[C(n) + 1] = x /\ \A k \in 1 .. C(n) : new[k] = out[k]
    BY <1>1, <2>5, AppendProperties
  <2> HIDE DEF C, W, new
  <2>8. ASSUME NEW i \in W \cup {n + 1} PROVE Extract(l, f[i]) = <<new[C(i)]>>
    <3>1. CASE i \in W
      BY <1>1, <2>7, <3>1
    <3>2. CASE i = n + 1
      BY <2>1, <2>2, <2>4, <2>7, <3>2
    <3> QED
      BY <3>1, <3>2
  <2> QED
    BY <2>3, <2>4, <2>6, <2>7, <2>8 DEF Listed, C
<1> QED
  BY <1>2, <1>3

-----------------------------------------------------------------------------
(* What the steps do with the request of a thread                          *)

\* A thread changes its own request, in some of its fields.
Changes(t, fields) ==
    /\ DOMAIN thread' = Threads
    /\ \A u \in Threads : u # t => thread'[u] = thread[u]
    /\ DOMAIN thread'[t] = Fields
    /\ \A x \in Fields \ fields : thread'[t][x] = thread[t][x]

LEMMA EnterStep ==
    ASSUME ShapeInv, NEW t \in Threads, Busy(t), Enter(t)
    PROVE  /\ Changes(t, {"at"}) /\ thread[t].at = "lock" /\ thread'[t].at \in {"ask", "serve"}
           /\ thread'[t].at = "serve" => ~(cache[thread[t].list].timestamp < now)
BY DEF ShapeInv, RequestInv, Enter, LockGuard, Goto, Changes, Fields

LEMMA AskStep ==
    ASSUME ShapeInv, NEW t \in Threads, Busy(t), Ask(t)
    PROVE  /\ Changes(t, {"at", "file", "version"}) /\ thread[t].at = "ask"
           /\ thread'[t].at = "next" /\ thread'[t].version \in {version, -1}
<1>1. PICK answer, v :
         /\ v \in {version, -1}
         /\ thread' = [thread EXCEPT ![t].at = "next", ![t].file = answer, ![t].version = v]
  BY DEF Ask
<1>2. DOMAIN thread = Threads /\ DOMAIN thread[t] = Fields /\ thread[t].at = "ask"
  BY DEF ShapeInv, RequestInv, Ask
<1> QED
  BY <1>1, <1>2 DEF Changes, Fields

LEMMA StoreStep ==
    ASSUME ShapeInv, NEW t \in Threads, Busy(t), Store(t)
    PROVE  Changes(t, {"at"}) /\ thread[t].at = "next" /\ thread'[t].at = "serve"
BY DEF ShapeInv, RequestInv, Store, Goto, Changes, Fields

\* The steps of the matcher: those that go on with a record, and those that end
\* it with some entries.
OnRecord(t) ==
    /\ Changes(t, {"at", "rest"})
    /\ thread[t].at \in Building /\ thread'[t].at \in {"compile", "evaluate"}
NextRecordBy(t, entries) ==
    /\ Changes(t, {"at", "done", "out"})
    /\ thread[t].at \in Building /\ thread'[t].at = "next"
    /\ thread'[t].done = thread[t].done + 1 /\ thread'[t].out = thread[t].out \o entries

LEMMA NextRecordStep ==
    ASSUME ShapeInv, NEW t \in Threads, Busy(t), thread[t].at \in Building,
           NEW entries, NextRecord(t, entries)
    PROVE  NextRecordBy(t, entries)
BY DEF ShapeInv, RequestInv, NextRecord, NextRecordBy, Changes, Fields

LEMMA IsMatchStep ==
    ASSUME ShapeInv, NEW t \in Threads, Busy(t), IsMatch(t)
    PROVE  /\ OnRecord(t) /\ thread[t].at = "next" /\ UNCHANGED matcher
           /\ IF Matcher(t).valid
              THEN thread'[t].at = "evaluate" /\ thread'[t].rest = DOMAIN Matcher(t).strings
              ELSE thread'[t].at = "compile"
BY DEF ShapeInv, RequestInv, IsMatch, OnRecord, Changes, Fields, Building

\* A matcher has tables for symbols of its expression, for all of them once that
\* is compiled.
GoodMatcher(m) ==
    /\ DOMAIN m = {"valid", "strings"} /\ m.valid \in BOOLEAN
    /\ m.strings = [s \in DOMAIN m.strings |-> m.strings[s]]
    /\ DOMAIN m.strings \subseteq SymbolSet
    /\ m.valid => DOMAIN m.strings = SymbolSet

\* A thread changes the matcher of the provider of its list.
Provider(t) == ProviderOf[thread[t].list]
MatcherBy(t) ==
    /\ DOMAIN matcher' = Providers
    /\ \A r \in Providers : r # Provider(t) => matcher'[r] = matcher[r]
    /\ GoodMatcher(matcher'[Provider(t)])

LEMMA GoodMatchers == TypeOK /\ ShapeInv => \A r \in Providers : GoodMatcher(matcher[r])
BY DEF TypeOK, ShapeInv, GoodMatcher

LEMMA ProviderType ==
    ASSUME ShapeInv, NEW t \in Threads, Busy(t)
    PROVE  Provider(t) \in Providers /\ thread[t].list \in Lists
BY ListsAssumption DEF ShapeInv, RequestInv, Provider

LEMMA SetMatcherStep ==
    ASSUME ShapeInv, NEW t \in Threads, Busy(t), NEW m, SetMatcher(t, m), GoodMatcher(m)
    PROVE  MatcherBy(t) /\ matcher'[Provider(t)] = m
<1>1. Provider(t) \in Providers /\ matcher' = [matcher EXCEPT ![Provider(t)] = m]
      /\ DOMAIN matcher = Providers
  BY ProviderType DEF SetMatcher, Provider, ShapeInv
<1> HIDE DEF GoodMatcher, Provider
<1> QED
  BY <1>1 DEF MatcherBy

LEMMA CompiledStep ==
    ASSUME TypeOK, ShapeInv, NEW t \in Threads, Busy(t), Compiled(t)
    PROVE  /\ OnRecord(t) /\ thread[t].at = "compile" /\ thread'[t].at = "evaluate"
           /\ thread'[t].rest = SymbolSet
           /\ MatcherBy(t) /\ matcher'[Provider(t)].valid
<1>1. OnRecord(t) /\ thread[t].at = "compile" /\ thread'[t].at = "evaluate"
      /\ thread'[t].rest = SymbolSet
  BY DEF ShapeInv, RequestInv, Compiled, OnRecord, Changes, Fields, Building
<1> DEFINE m == matcher[Provider(t)]
           n == [m EXCEPT !.valid = TRUE]
<1>2. GoodMatcher(m)
  BY GoodMatchers, ProviderType
<1>3. SymbolSet \subseteq DOMAIN m.strings /\ SetMatcher(t, n)
  BY DEF Compiled, Known, Matcher, Provider
<1>4. GoodMatcher(n) /\ n.valid
  BY <1>2, <1>3 DEF GoodMatcher
<1> HIDE DEF n
<1> QED
  BY <1>1, <1>3, <1>4, SetMatcherStep

LEMMA SymbolAt ==
    ASSUME NEW I \in SUBSET (1 .. Len(Symbols)), I # {}
    PROVE  Symbols[Min(I)] \in SymbolSet
<1>1. Len(Symbols) \in Nat
  BY SymbolsAssumption
<1>2. Min(I) \in 1 .. Len(Symbols)
  BY <1>1, MinIsLeast
<1> QED
  BY <1>2, SymbolsAssumption DEF SymbolSet

LEMMA ResolveStep ==
    ASSUME TypeOK, ShapeInv, NEW t \in Threads, Busy(t), Resolve(t)
    PROVE  /\ thread[t].at = "compile"
           /\ MatcherBy(t)
           /\ \/ UNCHANGED thread
              \/ /\ NextRecordBy(t, <<>>)
                 /\ \E s \in SymbolSet : ~Has(Record(t), s)
<1> DEFINE at == SelectInSeq(Symbols, LAMBDA s : ~Known(t, s))
           symbol == Symbols[at]
           m == matcher[Provider(t)]
           n == [m EXCEPT !.strings =
                    [s \in DOMAIN m.strings \cup {symbol} |->
                        IF s = symbol THEN Value(Record(t), s) ELSE m.strings[s]]]
<1>1. /\ thread[t].at = "compile" /\ at # 0
      /\ IF Has(Record(t), symbol) THEN SetMatcher(t, n) /\ UNCHANGED thread
         ELSE SetMatcher(t, [m EXCEPT !.valid = FALSE]) /\ NextRecord(t, <<>>)
  BY DEF Resolve, Matcher, Provider
<1>2. symbol \in SymbolSet
  <2> DEFINE I == {i \in 1 .. Len(Symbols) : ~Known(t, Symbols[i])}
  <2>1. I # {} /\ symbol = Symbols[Min(I)]
    BY <1>1 DEF SelectInSeq
  <2> QED
    BY <2>1, SymbolAt
<1>3. GoodMatcher(m)
  BY GoodMatchers, ProviderType
<1> HIDE DEF symbol, at
<1>4. CASE Has(Record(t), symbol)
  <2>1. GoodMatcher(n)
    <3>1. DOMAIN n = {"valid", "strings"} /\ n.valid = m.valid /\ n.valid \in BOOLEAN
          /\ n.strings = [s \in DOMAIN m.strings \cup {symbol} |->
                             IF s = symbol THEN Value(Record(t), s) ELSE m.strings[s]]
      BY <1>3 DEF GoodMatcher
    <3>2. DOMAIN m.strings \subseteq SymbolSet /\ (m.valid => DOMAIN m.strings = SymbolSet)
      BY <1>3 DEF GoodMatcher
    <3> HIDE DEF n, m
    <3>3. DOMAIN n.strings = DOMAIN m.strings \cup {symbol}
          /\ n.strings = [s \in DOMAIN n.strings |-> n.strings[s]]
      BY <3>1
    <3> QED
      BY <1>2, <3>1, <3>2, <3>3 DEF GoodMatcher
  <2> HIDE DEF n, m
  <2> QED
    BY <1>1, <1>4, <2>1, SetMatcherStep
<1>5. CASE ~ Has(Record(t), symbol)
  <2> DEFINE o == [m EXCEPT !.valid = FALSE]
  <2>1. GoodMatcher(o)
    BY <1>3 DEF GoodMatcher
  <2>2. SetMatcher(t, o) /\ NextRecord(t, <<>>) /\ thread[t].at = "compile"
    BY <1>1, <1>5
  <2> HIDE DEF o, m
  <2>3. MatcherBy(t)
    BY <2>1, <2>2, SetMatcherStep
  <2>4. NextRecordBy(t, <<>>)
    BY <2>2, NextRecordStep DEF Building
  <2> QED
    BY <1>2, <1>5, <2>2, <2>3, <2>4
<1> QED
  BY <1>1, <1>4, <1>5

LEMMA UpdateStep ==
    ASSUME TypeOK, ShapeInv, NEW t \in Threads, Busy(t), NEW s \in SymbolSet, Update(t, s)
    PROVE  /\ thread[t].at = "evaluate"
           /\ \/ /\ OnRecord(t) /\ thread'[t].at = "evaluate" /\ MatcherBy(t)
                 /\ thread'[t].rest = thread[t].rest \ {s} /\ Has(Record(t), s)
                 /\ matcher'[Provider(t)].valid = matcher[Provider(t)].valid
                 /\ DOMAIN matcher[Provider(t)].strings = SymbolSet =>
                      /\ matcher'[Provider(t)].strings[s] = Value(Record(t), s)
                      /\ \A z \in SymbolSet \ {s} : matcher'[Provider(t)].strings[z]
                                                    = matcher[Provider(t)].strings[z]
              \/ NextRecordBy(t, <<>>) /\ UNCHANGED matcher /\ ~Has(Record(t), s)
<1> DEFINE m == matcher[Provider(t)]
           v == Value(Record(t), s)
           n == [m EXCEPT !.strings[s] = v]
<1>1. /\ thread[t].at = "evaluate"
      /\ IF Has(Record(t), s)
         THEN SetMatcher(t, n) /\ thread' = [thread EXCEPT ![t].rest = @ \ {s}]
         ELSE NextRecord(t, <<>>) /\ UNCHANGED matcher
  BY DEF Update, Matcher, Provider
<1>2. GoodMatcher(m)
  BY GoodMatchers, ProviderType
<1>3. CASE Has(Record(t), s)
  <2>1. /\ DOMAIN n = {"valid", "strings"} /\ n.valid = m.valid
        /\ n.strings = [m.strings EXCEPT ![s] = v]
    BY <1>2 DEF GoodMatcher
  <2>2. GoodMatcher(n)
    <3> HIDE DEF n, m
    <3>1. DOMAIN n.strings = DOMAIN m.strings /\ n.strings = [z \in DOMAIN n.strings |-> n.strings[z]]
      BY <2>1
    <3> QED
      BY <1>2, <2>1, <3>1 DEF GoodMatcher
  <2>3. OnRecord(t) /\ thread'[t].at = "evaluate" /\ thread'[t].rest = thread[t].rest \ {s}
    BY <1>1, <1>3 DEF ShapeInv, RequestInv, OnRecord, Changes, Fields, Building
  <2>4. DOMAIN m.strings = SymbolSet => /\ n.strings[s] = v
                                        /\ \A z \in SymbolSet \ {s} : n.strings[z] = m.strings[z]
    <3> HIDE DEF n, m, v
    <3> QED
      BY <2>1
  <2>5. MatcherBy(t) /\ matcher'[Provider(t)] = n
    <3> HIDE DEF n, m, v
    <3> QED
      BY <1>1, <1>3, <2>1, <2>2, SetMatcherStep
  <2> QED
    BY <1>1, <1>3, <2>1, <2>3, <2>4, <2>5
<1>4. CASE ~ Has(Record(t), s)
  BY <1>1, <1>4, NextRecordStep DEF Building
<1> QED
  BY <1>1, <1>3, <1>4

LEMMA EvaluateStep ==
    ASSUME ShapeInv, NEW t \in Threads, Busy(t), Evaluate(t)
    PROVE  /\ thread[t].at = "evaluate" /\ thread[t].rest = {} /\ UNCHANGED matcher
           /\ NextRecordBy(t, IF Matcher(t).strings \in Accepts
                              THEN Extract(thread[t].list, Record(t)) ELSE <<>>)
<1>1. /\ thread[t].at = "evaluate" /\ thread[t].rest = {} /\ UNCHANGED matcher
      /\ NextRecord(t, IF Matcher(t).strings \in Accepts
                       THEN Extract(thread[t].list, Record(t)) ELSE <<>>)
  BY DEF Evaluate
<1> QED
  BY <1>1, NextRecordStep DEF Building

LEMMA RequestStep ==
    ASSUME ShapeInv, NEW t \in Threads, NEW l \in Lists, Request(t, l)
    PROVE  /\ DOMAIN thread' = Threads
           /\ \A u \in Threads : u # t => thread'[u] = thread[u]
           /\ DOMAIN thread'[t] = Fields /\ thread'[t].at = "lock" /\ thread'[t].list = l
           /\ thread'[t].done = 0 /\ thread'[t].out = <<>> /\ thread'[t].version = -1
BY DEF ShapeInv, Request, Fields

LEMMA ServeStep ==
    ASSUME ShapeInv, NEW t \in Threads, Serve(t)
    PROVE  /\ DOMAIN thread' = Threads
           /\ \A u \in Threads : u # t => thread'[u] = thread[u]
           /\ thread[t].at = "serve" /\ thread'[t] = Idle
BY DEF ShapeInv, Serve

\* The entries of one record leave a list a list.
LEMMA OutKept ==
    ASSUME NEW out, out \in Seq(ToSet(out)), NEW entries, entries = <<>> \/ \E x : entries = <<x>>
    PROVE  out \o entries \in Seq(ToSet(out \o entries))
<1>1. CASE entries = <<>>
  BY <1>1, ConcatEmptySeq
<1>2. CASE entries # <<>>
  <2>1. PICK x : entries = <<x>>
    BY <1>2
  <2> DEFINE S == ToSet(out) \cup {x}
             new == Append(out, x)
  <2>2. out \in Seq(S) /\ x \in S
    OBVIOUS
  <2>3. out \o entries = new
    BY <2>1, <2>2, AppendIsConcat
  <2>4. new \in Seq(S)
    BY <2>2, AppendProperties
  <2> HIDE DEF new, S
  <2>5. new \in Seq(ToSet(new))
    <3>1. DOMAIN new = 1 .. Len(new) /\ Len(new) \in Nat
      BY <2>4
    <3>2. \A i \in 1 .. Len(new) : new[i] \in ToSet(new)
      BY <3>1 DEF ToSet
    <3> QED
      BY <2>4, <3>1, <3>2
  <2> QED
    BY <2>3, <2>5
<1> QED
  BY <1>1, <1>2

-----------------------------------------------------------------------------
(* The matcher, seen from the outside                                      *)

Matching(t) ==
    IsMatch(t) \/ Resolve(t) \/ Compiled(t) \/ (\E s \in SymbolSet : Update(t, s)) \/ Evaluate(t)

LEMMA MatchingStep ==
    ASSUME TypeOK, ShapeInv, NEW t \in Threads, Busy(t), Matching(t)
    PROVE  /\ UNCHANGED <<now, file, version, owner, cache, source, stale>>
           /\ Changes(t, {"at", "rest", "done", "out"})
           /\ thread[t].at \in Building /\ thread'[t].at \in Building
           /\ thread'[t].done \in Nat /\ thread'[t].out \in Seq(ToSet(thread'[t].out))
           /\ UNCHANGED matcher \/ MatcherBy(t)
<1>1. UNCHANGED <<now, file, version, owner, cache, source, stale>>
  BY DEF Matching, IsMatch, Resolve, Compiled, Update, Evaluate
<1> DEFINE Goal ==
      /\ Changes(t, {"at", "rest", "done", "out"})
      /\ thread[t].at \in Building /\ thread'[t].at \in Building
      /\ thread'[t].done \in Nat /\ thread'[t].out \in Seq(ToSet(thread'[t].out))
<1>2. thread[t].done \in Nat /\ thread[t].out \in Seq(ToSet(thread[t].out))
      /\ DOMAIN thread = Threads /\ DOMAIN thread[t] = Fields
  BY DEF ShapeInv, RequestInv
<1>3. ASSUME OnRecord(t) PROVE Goal
  <2>1. thread'[t].done = thread[t].done /\ thread'[t].out = thread[t].out
    BY <1>3 DEF OnRecord, Changes, Fields
  <2>2. Changes(t, {"at", "rest", "done", "out"})
    BY <1>3 DEF OnRecord, Changes, Fields
  <2>3. thread[t].at \in Building /\ thread'[t].at \in Building
    BY <1>3 DEF OnRecord, Building
  <2> QED
    BY <1>2, <2>1, <2>2, <2>3
<1>4. ASSUME NEW entries, entries = <<>> \/ \E x : entries = <<x>>, NextRecordBy(t, entries)
      PROVE  Goal
  <2>1. thread'[t].done \in Nat /\ thread'[t].out \in Seq(ToSet(thread'[t].out))
    BY <1>2, <1>4, OutKept DEF NextRecordBy
  <2>2. Changes(t, {"at", "rest", "done", "out"})
    BY <1>4 DEF NextRecordBy, Changes, Fields
  <2>3. thread[t].at \in Building /\ thread'[t].at \in Building
    BY <1>4 DEF NextRecordBy, Building
  <2> QED
    BY <2>1, <2>2, <2>3
<1>5. ASSUME UNCHANGED thread, thread[t].at \in Building PROVE Goal
  BY <1>2, <1>5 DEF Changes
<1> HIDE DEF Goal
<1>6. Goal /\ (UNCHANGED matcher \/ MatcherBy(t))
  <2>1. CASE IsMatch(t)
    BY <1>3, <2>1, IsMatchStep
  <2>2. CASE Resolve(t)
    <3>1. thread[t].at \in Building
      BY <2>2, ResolveStep DEF Building
    <3> QED
      BY <1>4, <1>5, <2>2, <3>1, ResolveStep
  <2>3. CASE Compiled(t)
    BY <1>3, <2>3, CompiledStep
  <2>4. ASSUME NEW s \in SymbolSet, Update(t, s)
        PROVE  Goal /\ (UNCHANGED matcher \/ MatcherBy(t))
    BY <1>3, <1>4, <2>4, UpdateStep
  <2>5. CASE Evaluate(t)
    <3> DEFINE entries == IF Matcher(t).strings \in Accepts
                          THEN Extract(thread[t].list, Record(t)) ELSE <<>>
    <3>1. entries = <<>> \/ \E x : entries = <<x>>
      BY OneEntry
    <3>2. NextRecordBy(t, entries) /\ UNCHANGED matcher
      BY <2>5, EvaluateStep
    <3> HIDE DEF entries
    <3> QED
      BY <1>4, <3>1, <3>2
  <2> QED
    BY <2>1, <2>2, <2>3, <2>4, <2>5 DEF Matching
<1> QED
  BY <1>1, <1>6 DEF Goal

\* The steps there are.
Quiet == (Tick \/ (\E f \in Files : ChangeFile(f)) \/ UNCHANGED vars)
ThreadStep(t) == Busy(t) /\ (Enter(t) \/ Ask(t) \/ Store(t) \/ Serve(t) \/ Matching(t))

LEMMA Steps ==
    [Next]_vars => \/ Quiet
                   \/ \E t \in Threads : ThreadStep(t) \/ \E l \in Lists : Request(t, l)
BY DEF Next, Step, Quiet, ThreadStep, Matching

LEMMA QuietStep == Quiet => UNCHANGED <<matcher, owner, cache, thread, source>>
BY DEF Quiet, Tick, ChangeFile, vars

LEMMA ExpiryType == expiry_ \in Nat
BY TtlAssumption DEF expiry_

-----------------------------------------------------------------------------
(* The shape of the state                                                  *)

\* What a thread does leaves the requests of the others what they were.
LEMMA ShapeKept ==
    ASSUME ShapeInv, NEW t \in Threads, DOMAIN thread' = Threads,
           \A u \in Threads : u # t => thread'[u] = thread[u],
           thread'[t] = Idle \/ RequestInv(t)',
           DOMAIN cache' = Lists, UNCHANGED matcher \/ MatcherBy(t)
    PROVE  ShapeInv'
<1>1. \A u \in Threads : Busy(u)' => RequestInv(u)'
  <2>1. ASSUME NEW u \in Threads, u # t PROVE Busy(u)' => RequestInv(u)'
    <3>1. thread'[u] = thread[u] /\ (Busy(u) => RequestInv(u))
      BY <2>1 DEF ShapeInv
    <3> QED
      BY <3>1 DEF Busy, RequestInv
  <2>2. Busy(t)' => RequestInv(t)'
    BY DEF Busy
  <2> QED
    BY <2>1, <2>2
<1>2. /\ DOMAIN matcher' = Providers
      /\ \A r \in Providers :
           /\ DOMAIN matcher'[r] = {"valid", "strings"}
           /\ matcher'[r].strings = [s \in DOMAIN matcher'[r].strings |-> matcher'[r].strings[s]]
  <2>1. CASE UNCHANGED matcher
    BY <2>1 DEF ShapeInv
  <2>2. CASE MatcherBy(t)
    BY <2>2 DEF ShapeInv, MatcherBy, GoodMatcher
  <2> QED
    BY <2>1, <2>2
<1> QED
  BY <1>1, <1>2 DEF ShapeInv

LEMMA ShapeStep == TypeOK /\ ShapeInv /\ [Next]_vars => ShapeInv'
<1> SUFFICES ASSUME TypeOK, ShapeInv, [Next]_vars PROVE ShapeInv'
  OBVIOUS
<1>1. CASE Quiet
  BY <1>1, QuietStep DEF ShapeInv, Busy, RequestInv
<1>2. ASSUME NEW t \in Threads, NEW l \in Lists, Request(t, l) PROVE ShapeInv'
  <2>1. RequestInv(t)'
    <3>1. \A S : <<>> \in Seq(S)
      OBVIOUS
    <3>2. -1 \in -1 .. MaxVersion /\ 0 \in Nat
      BY BoundsAssumption
    <3>3. /\ DOMAIN thread'[t] = Fields /\ thread'[t].at = "lock" /\ thread'[t].list \in Lists
          /\ thread'[t].done = 0 /\ thread'[t].out = <<>> /\ thread'[t].version = -1
      BY <1>2, RequestStep
    <3> QED
      BY <3>1, <3>2, <3>3 DEF RequestInv
  <2>2. UNCHANGED <<matcher, cache>> /\ DOMAIN cache = Lists
    BY <1>2 DEF Request, ShapeInv
  <2> QED
    BY <1>2, <2>1, <2>2, RequestStep, ShapeKept
<1>3. ASSUME NEW t \in Threads, ThreadStep(t) PROVE ShapeInv'
  <2>1. Busy(t) /\ RequestInv(t) /\ DOMAIN cache = Lists /\ version \in -1 .. MaxVersion
        /\ -1 \in -1 .. MaxVersion
    BY <1>3, BoundsAssumption DEF ShapeInv, ThreadStep, TypeOK
  <2>2. CASE Enter(t)
    <3>1. RequestInv(t)'
      BY <2>1, <2>2, EnterStep DEF Changes, RequestInv, Fields, Building
    <3>2. UNCHANGED <<matcher, cache>>
      BY <2>2 DEF Enter
    <3> QED
      BY <2>1, <2>2, <3>1, <3>2, EnterStep, ShapeKept DEF Changes
  <2>3. CASE Ask(t)
    <3>1. RequestInv(t)'
      BY <2>1, <2>3, AskStep DEF Changes, RequestInv, Fields, Building
    <3>2. UNCHANGED <<matcher, cache>>
      BY <2>3 DEF Ask
    <3> QED
      BY <2>1, <2>3, <3>1, <3>2, AskStep, ShapeKept DEF Changes
  <2>4. CASE Store(t)
    <3>1. RequestInv(t)'
      BY <2>1, <2>4, StoreStep DEF Changes, RequestInv, Fields, Building
    <3>2. UNCHANGED matcher /\ DOMAIN cache' = Lists
      BY <2>1, <2>4 DEF Store
    <3> QED
      BY <2>1, <2>4, <3>1, <3>2, StoreStep, ShapeKept DEF Changes
  <2>5. CASE Serve(t)
    <3>1. UNCHANGED <<matcher, cache>>
      BY <2>5 DEF Serve
    <3> QED
      BY <2>1, <2>5, <3>1, ServeStep, ShapeKept
  <2>6. CASE Matching(t)
    <3>1. RequestInv(t)'
      BY <2>1, <2>6, MatchingStep DEF Changes, RequestInv, Fields, Building
    <3> QED
      BY <2>1, <2>6, <3>1, MatchingStep, ShapeKept DEF Changes
  <2> QED
    BY <1>3, <2>2, <2>3, <2>4, <2>5, <2>6 DEF ThreadStep
<1> QED
  BY <1>1, <1>2, <1>3, Steps

LEMMA TypeStep == TypeOK /\ ShapeInv /\ [Next]_vars => TypeOK'
<1> SUFFICES ASSUME TypeOK, ShapeInv, [Next]_vars PROVE TypeOK'
  OBVIOUS
<1>1. ShapeInv'
  BY ShapeStep
<1>2. \A t \in Threads : Busy(t)' => thread'[t].list \in Lists
  BY <1>1 DEF ShapeInv, RequestInv
<1>3. \A r \in Providers : GoodMatcher(matcher'[r])
  <2>1. UNCHANGED matcher \/ \E t \in Threads : MatcherBy(t)
    <3>1. CASE Quiet
      BY <3>1, QuietStep
    <3>2. CASE \E t \in Threads, l \in Lists : Request(t, l)
      BY <3>2 DEF Request
    <3>3. ASSUME NEW t \in Threads, ThreadStep(t) PROVE UNCHANGED matcher \/ MatcherBy(t)
      BY <3>3, MatchingStep DEF ThreadStep, Enter, Ask, Store, Serve
    <3> QED
      BY <3>1, <3>2, <3>3, Steps
  <2>2. \A r \in Providers : GoodMatcher(matcher[r])
    BY GoodMatchers
  <2> QED
    BY <2>1, <2>2 DEF MatcherBy
<1>4. /\ now' \in 0 .. MaxTime /\ version' \in 0 .. MaxVersion /\ file' \in Files
      /\ owner' \in [Lists -> Threads \cup {Free}]
      /\ \A l \in Lists : cache'[l].timestamp \in Never .. MaxTime + expiry_
      /\ source' \in [Lists -> -1 .. MaxVersion]
      /\ stale' \in [Books -> Nat]
  <2> USE DEF TypeOK
  <2>1. CASE Quiet
    BY <2>1, BoundsAssumption DEF Quiet, Tick, ChangeFile, vars
  <2>2. CASE \E t \in Threads, l \in Lists : Request(t, l)
    BY <2>2 DEF Request
  <2>3. ASSUME NEW t \in Threads, ThreadStep(t)
        PROVE  /\ now' = now /\ version' = version /\ file' = file
               /\ owner' \in [Lists -> Threads \cup {Free}]
               /\ \A l \in Lists : cache'[l].timestamp \in Never .. MaxTime + expiry_
               /\ source' \in [Lists -> -1 .. MaxVersion]
               /\ stale' \in [Books -> Nat]
    <3>1. CASE Enter(t)
      BY <3>1 DEF Enter, LockGuard
    <3>2. CASE Ask(t)
      BY <3>2 DEF Ask
    <3>3. CASE Store(t)
      <4>1. thread[t].version \in -1 .. MaxVersion /\ version \in -1 .. MaxVersion
        BY <2>3, BoundsAssumption DEF ShapeInv, RequestInv, ThreadStep
      <4>2. now + expiry_ \in Never .. MaxTime + expiry_
        BY ExpiryType, BoundsAssumption DEF Never
      <4>3. source' \in [Lists -> -1 .. MaxVersion] /\ stale' \in [Books -> Nat]
        BY <3>3, <4>1 DEF Store
      <4>4. DOMAIN cache = Lists
        BY DEF ShapeInv
      <4>5. \A l \in Lists : cache'[l].timestamp \in Never .. MaxTime + expiry_
        BY <3>3, <4>2, <4>4 DEF Store
      <4> QED
        BY <3>3, <4>3, <4>5 DEF Store
    <3>4. CASE Serve(t)
      BY <3>4 DEF Serve
    <3>5. CASE Matching(t)
      <4>1. UNCHANGED <<now, file, version, owner, cache, source, stale>>
        BY <2>3, <3>5, MatchingStep DEF ThreadStep
      <4> QED
        BY <4>1
    <3> QED
      BY <2>3, <3>1, <3>2, <3>3, <3>4, <3>5 DEF ThreadStep
  <2> QED
    BY <2>1, <2>2, <2>3, Steps
<1> QED
  BY <1>2, <1>3, <1>4 DEF TypeOK, GoodMatcher

-----------------------------------------------------------------------------
(* The mutex                                                               *)

Holds(t, l) == Busy(t) /\ thread[t].at # "lock" /\ thread[t].list = l

LEMMA LockStep == TypeOK /\ ShapeInv /\ LockInv /\ [Next]_vars => LockInv'
<1> SUFFICES ASSUME TypeOK, ShapeInv, LockInv, [Next]_vars PROVE LockInv'
  OBVIOUS
<1> DEFINE Held == \A u \in Threads, l \in Lists : owner[l] = u <=> Holds(u, l)
<1>1. Held
  BY DEF LockInv, Holds
<1>2. ASSUME UNCHANGED <<owner, thread>> PROVE Held'
  BY <1>1, <1>2 DEF Holds, Busy
<1>3. ASSUME NEW t \in Threads, UNCHANGED owner,
             \A u \in Threads : u # t => thread'[u] = thread[u],
             \A l \in Lists : Holds(t, l)' <=> Holds(t, l)
      PROVE  Held'
  <2>1. \A u \in Threads, l \in Lists : Holds(u, l)' <=> Holds(u, l)
    BY <1>3 DEF Holds, Busy
  <2> QED
    BY <1>1, <1>3, <2>1
<1>4. ASSUME NEW t \in Threads, NEW l \in Lists, Request(t, l) PROVE Held'
  <2>1. ~Busy(t) /\ thread'[t].at = "lock" /\ UNCHANGED owner
    BY <1>4, RequestStep DEF Request
  <2> QED
    BY <1>3, <1>4, <2>1, RequestStep DEF Holds
<1>5. ASSUME NEW t \in Threads, ThreadStep(t) PROVE Held'
  <2> DEFINE L == thread[t].list
  <2>1. Busy(t) /\ L \in Lists /\ owner \in [Lists -> Threads \cup {Free}] /\ Free \notin Threads
    BY <1>5, ListsAssumption DEF ThreadStep, ShapeInv, RequestInv, TypeOK
  <2>2. CASE Enter(t)
    <3>1. /\ owner[L] = Free /\ owner' = [owner EXCEPT ![L] = t] /\ thread[t].at = "lock"
      BY <2>2 DEF Enter, LockGuard
    <3>2. /\ \A u \in Threads : u # t => thread'[u] = thread[u]
          /\ thread'[t].list = L /\ thread'[t].at \in {"ask", "serve"}
      BY <2>1, <2>2, EnterStep DEF Changes, Fields
    <3>3. \A l \in Lists : ~Holds(t, l) /\ (Holds(t, l)' <=> l = L)
      BY <3>1, <3>2 DEF Holds, Busy, Idle
    <3>4. \A u \in Threads, l \in Lists : u # t => (Holds(u, l)' <=> Holds(u, l))
      BY <3>2 DEF Holds, Busy
    <3> HIDE DEF L
    <3>5. owner'[L] = t /\ \A l \in Lists : l # L => owner'[l] = owner[l]
      BY <2>1, <3>1
    <3> QED
      BY <1>1, <2>1, <3>1, <3>3, <3>4, <3>5
  <2>3. CASE Ask(t)
    <3>1. thread[t].at = "ask" /\ thread'[t].at = "next" /\ thread'[t].list = L
          /\ (\A u \in Threads : u # t => thread'[u] = thread[u]) /\ UNCHANGED owner
      BY <2>1, <2>3, AskStep DEF Changes, Fields, Ask
    <3> QED
      BY <1>3, <2>1, <3>1 DEF Holds, Busy, Idle
  <2>4. CASE Store(t)
    <3>1. thread[t].at = "next" /\ thread'[t].at = "serve" /\ thread'[t].list = L
          /\ (\A u \in Threads : u # t => thread'[u] = thread[u]) /\ UNCHANGED owner
      BY <2>1, <2>4, StoreStep DEF Changes, Fields, Store
    <3> QED
      BY <1>3, <2>1, <3>1 DEF Holds, Busy, Idle
  <2>5. CASE Serve(t)
    <3>1. owner' = [owner EXCEPT ![L] = Free]
      BY <2>5 DEF Serve
    <3>2. /\ \A u \in Threads : u # t => thread'[u] = thread[u]
          /\ thread[t].at = "serve" /\ thread'[t] = Idle
      BY <2>5, ServeStep
    <3>3. \A l \in Lists : (Holds(t, l) <=> l = L) /\ ~Holds(t, l)'
      BY <2>1, <3>2 DEF Holds, Busy
    <3>4. \A u \in Threads, l \in Lists : u # t => (Holds(u, l)' <=> Holds(u, l))
      BY <3>2 DEF Holds, Busy
    <3> HIDE DEF L
    <3>5. owner'[L] = Free /\ \A l \in Lists : l # L => owner'[l] = owner[l]
      BY <2>1, <3>1
    <3> QED
      BY <1>1, <2>1, <3>3, <3>4, <3>5
  <2>6. CASE Matching(t)
    <3>1. thread[t].at \in Building /\ thread'[t].at \in Building /\ thread'[t].list = L
          /\ (\A u \in Threads : u # t => thread'[u] = thread[u]) /\ UNCHANGED owner
      BY <2>1, <2>6, MatchingStep DEF Changes, Fields
    <3> QED
      BY <1>3, <2>1, <3>1 DEF Holds, Busy, Idle, Building
  <2> QED
    BY <1>5, <2>2, <2>3, <2>4, <2>5, <2>6 DEF ThreadStep
<1>6. ASSUME Quiet PROVE Held'
  BY <1>2, <1>6, QuietStep
<1> HIDE DEF Held
<1>7. Held'
  BY <1>4, <1>5, <1>6, Steps
<1> QED
  BY <1>7 DEF Held, LockInv, Holds, Busy

-----------------------------------------------------------------------------
(* The order of construction, the age of a list, and how long it is stale  *)

\* A thread that steps keeps its list as long as it is busy, and is alone in
\* stepping.
LEMMA ListKept ==
    ASSUME TypeOK, ShapeInv, NEW t \in Threads, ThreadStep(t)
    PROVE  /\ Busy(t) /\ thread[t].list \in Lists
           /\ \A u \in Threads : u # t => thread'[u] = thread[u]
           /\ Busy(t)' => thread'[t].list = thread[t].list
<1>1. Busy(t) /\ thread[t].list \in Lists
  BY DEF ThreadStep, ShapeInv, RequestInv
<1>2. CASE Enter(t)
  BY <1>1, <1>2, EnterStep DEF Changes, Fields
<1>3. CASE Ask(t)
  BY <1>1, <1>3, AskStep DEF Changes, Fields
<1>4. CASE Store(t)
  BY <1>1, <1>4, StoreStep DEF Changes, Fields
<1>5. CASE Serve(t)
  BY <1>1, <1>5, ServeStep DEF Busy
<1>6. CASE Matching(t)
  BY <1>1, <1>6, MatchingStep DEF Changes, Fields
<1> QED
  BY <1>2, <1>3, <1>4, <1>5, <1>6 DEF ThreadStep

\* Only Store changes what a list is made of, and only of its own.
LEMMA SourceKept ==
    ASSUME TypeOK, ShapeInv, NEW t \in Threads, ThreadStep(t)
    PROVE  \/ UNCHANGED <<source, cache, stale>>
           \/ /\ Store(t) /\ thread[t].at = "next" /\ thread'[t].at = "serve"
              /\ \A l \in Lists : l # thread[t].list => /\ source'[l] = source[l]
                                                        /\ cache'[l] = cache[l]
              /\ \A b \in Books : b # thread[t].list => stale'[b] = stale[b]
<1>1. Busy(t) /\ DOMAIN cache = Lists /\ source \in [Lists -> -1 .. MaxVersion]
  BY DEF ThreadStep, ShapeInv, TypeOK
<1>2. CASE Enter(t) \/ Ask(t) \/ Serve(t)
  BY <1>2 DEF Enter, Ask, Serve
<1>3. CASE Store(t)
  BY <1>1, <1>3, StoreStep DEF Store
<1>4. CASE Matching(t)
  BY <1>1, <1>4, MatchingStep
<1> QED
  BY <1>2, <1>3, <1>4 DEF ThreadStep

LEMMA ServerStep == TypeOK /\ ShapeInv /\ ServerInv /\ [Next]_vars => ServerInv'
<1> SUFFICES ASSUME TypeOK, ShapeInv, ServerInv, [Next]_vars PROVE ServerInv'
  OBVIOUS
<1>a. Threads = Clients \cup {Main} /\ Main \notin Clients /\ Books \cap UIs = {}
      /\ Lists = Books \cup UIs
  BY ListsAssumption DEF Threads, Lists
<1>1. CASE Quiet
  BY <1>1, QuietStep DEF ServerInv, Busy
<1>2. ASSUME NEW t \in Threads, NEW l \in Lists, Request(t, l) PROVE ServerInv'
  <2>1. /\ ~Busy(t) /\ thread'[t].list = l /\ UNCHANGED source
        /\ \A u \in Threads : u # t => thread'[u] = thread[u]
        /\ IF t = Main THEN l \in UIs /\ source[l] = -1
           ELSE l \in Books /\ ~Busy(Main) /\ \A u \in UIs : source[u] # -1
    BY <1>2, RequestStep DEF Request
  <2>2. \A u \in Threads : u # t => (Busy(u)' <=> Busy(u)) /\ thread'[u].list = thread[u].list
    BY <2>1 DEF Busy
  <2>3. CASE t = Main
    BY <1>a, <2>1, <2>2, <2>3 DEF ServerInv
  <2>4. CASE t # Main
    BY <1>a, <2>1, <2>2, <2>4 DEF ServerInv
  <2> QED
    BY <2>3, <2>4
<1>3. ASSUME NEW t \in Threads, ThreadStep(t) PROVE ServerInv'
  <2>1. \A u \in Threads : Busy(u)' => Busy(u) /\ thread'[u].list = thread[u].list
    BY <1>3, ListKept DEF Busy
  <2>2. \A c \in Clients : Busy(c)' => \A u \in UIs : source'[u] # -1
    <3>1. CASE UNCHANGED source
      BY <1>a, <2>1, <3>1 DEF ServerInv
    <3>2. CASE \A l \in Lists : l # thread[t].list => source'[l] = source[l]
      <4>1. t \in Clients => thread[t].list \in Books
        BY <1>3, ListKept DEF ServerInv
      <4>2. t = Main => \A c \in Clients : ~Busy(c)
        BY <1>3, ListKept DEF ServerInv
      <4> QED
        BY <1>a, <2>1, <3>2, <4>1, <4>2 DEF ServerInv
    <3> QED
      BY <1>3, <3>1, <3>2, SourceKept
  <2> QED
    BY <1>a, <2>1, <2>2 DEF ServerInv
<1> QED
  BY <1>1, <1>2, <1>3, Steps

LEMMA AgeStep == TypeOK /\ ShapeInv /\ LockInv /\ AgeInv /\ [Next]_vars => AgeInv'
<1> SUFFICES ASSUME TypeOK, ShapeInv, LockInv, AgeInv, [Next]_vars PROVE AgeInv'
  OBVIOUS
<1>a. version \in Nat /\ source \in [Lists -> -1 .. MaxVersion]
      /\ \A t \in Threads : Busy(t) => thread[t].version \in -1 .. MaxVersion
                                       /\ thread[t].list \in Lists
  BY BoundsAssumption DEF TypeOK, ShapeInv, RequestInv
<1>b. \A l \in Lists : source[l] \in Int
  BY <1>a, BoundsAssumption
<1>1. CASE Quiet
  <2>1. UNCHANGED <<source, thread>> /\ version' \in Nat /\ version <= version'
    BY <1>1, <1>a, QuietStep DEF Quiet, Tick, ChangeFile, vars
  <2>2. \A l \in Lists : source'[l] <= version'
    BY <1>a, <1>b, <2>1 DEF AgeInv
  <2>3. \A t \in Threads : Busy(t)' => thread[t].version \in Int /\ (Busy(t)' <=> Busy(t))
    BY <1>a, <2>1, BoundsAssumption DEF Busy
  <2> QED
    BY <1>a, <2>1, <2>2, <2>3 DEF AgeInv
<1>2. ASSUME NEW t \in Threads, NEW l \in Lists, Request(t, l) PROVE AgeInv'
  BY <1>2, RequestStep DEF Request, AgeInv, Busy, Building
<1>3. ASSUME NEW t \in Threads, ThreadStep(t) PROVE AgeInv'
  <2> DEFINE L == thread[t].list
  <2>1. /\ Busy(t) /\ L \in Lists /\ \A u \in Threads : u # t => thread'[u] = thread[u]
        /\ Busy(t)' => thread'[t].list = L
    BY <1>3, ListKept
  <2>2. version' = version
    BY <1>3, MatchingStep DEF ThreadStep, Enter, Ask, Store, Serve
  <2>3. \A l \in Lists : source'[l] <= version
    <3>1. CASE UNCHANGED source
      BY <3>1 DEF AgeInv
    <3>2. CASE Store(t)
      <4>1. source'[L] \in {version, thread[t].version}
        BY <1>a, <2>1, <3>2 DEF Store
      <4>2. thread[t].version <= version /\ version <= version
        BY <1>3, <1>a, <2>1, <3>2, StoreStep DEF AgeInv, Building
      <4> QED
        BY <1>3, <3>2, <4>1, <4>2, SourceKept DEF AgeInv
    <3> QED
      BY <1>3, <3>1, <3>2, SourceKept
  <2>4. ASSUME NEW u \in Threads, u # t, Busy(u), thread[u].at \in Building
        PROVE  source'[thread[u].list] = source[thread[u].list]
    <3>1. thread[u].list = L => thread[t].at = "lock" \/ thread[t].at \notin Building
      BY <2>1, <2>4 DEF LockInv, Building
    <3>2. thread[u].list \in Lists
      BY <1>a, <2>4
    <3> QED
      BY <1>3, <3>1, <3>2, SourceKept DEF Building
  <2>5. \A u \in Threads : u # t /\ Busy(u)' /\ thread'[u].at \in Building =>
           /\ thread'[u].version <= version
           /\ thread'[u].version = -1 \/ thread'[u].version >= source'[thread'[u].list]
    BY <2>1, <2>4 DEF AgeInv, Busy
  <2>6. Busy(t)' /\ thread'[t].at \in Building =>
           /\ thread'[t].version <= version
           /\ thread'[t].version = -1 \/ thread'[t].version >= source'[thread'[t].list]
    <3>1. CASE Enter(t)
      BY <2>1, <3>1, EnterStep DEF Building
    <3>2. CASE Ask(t)
      <4>1. thread'[t].version \in {version, -1} /\ UNCHANGED source
        BY <2>1, <3>2, AskStep DEF Ask
      <4> QED
        BY <1>a, <1>b, <2>1, <4>1 DEF AgeInv
    <3>3. CASE Store(t)
      BY <2>1, <3>3, StoreStep DEF Building
    <3>4. CASE Serve(t)
      BY <2>1, <3>4, ServeStep DEF Busy
    <3>5. CASE Matching(t)
      <4>1. /\ thread[t].at \in Building /\ UNCHANGED source
            /\ thread'[t].version = thread[t].version /\ thread'[t].list = L
        BY <2>1, <3>5, MatchingStep DEF Changes, Fields
      <4> QED
        BY <2>1, <4>1 DEF AgeInv
    <3> QED
      BY <1>3, <3>1, <3>2, <3>3, <3>4, <3>5 DEF ThreadStep
  <2> HIDE DEF L
  <2> QED
    BY <2>2, <2>3, <2>5, <2>6 DEF AgeInv
<1> QED
  BY <1>1, <1>2, <1>3, Steps

LEMMA StaleStep == TypeOK /\ ShapeInv /\ StaleInv /\ [Next]_vars => StaleInv'
<1> SUFFICES ASSUME TypeOK, ShapeInv, StaleInv, [Next]_vars PROVE StaleInv'
  OBVIOUS
<1>a. /\ now \in Nat /\ expiry_ \in Nat /\ stale \in [Books -> Nat]
      /\ \A b \in Books : b \in Lists /\ cache[b].timestamp \in Int
  BY ExpiryType, BoundsAssumption DEF TypeOK, Lists, Never
<1>1. CASE Tick
  BY <1>1, <1>a DEF Tick, StaleInv
<1>2. CASE (\E f \in Files : ChangeFile(f)) \/ UNCHANGED vars
         \/ \E t \in Threads, l \in Lists : Request(t, l)
  BY <1>2 DEF ChangeFile, Request, vars, StaleInv
<1>3. ASSUME NEW t \in Threads, ThreadStep(t) PROVE StaleInv'
  <2>1. now' = now
    BY <1>3, MatchingStep DEF ThreadStep, Enter, Ask, Store, Serve
  <2>2. CASE UNCHANGED <<cache, stale>>
    BY <2>1, <2>2 DEF StaleInv
  <2>3. CASE Store(t)
    <3> DEFINE L == thread[t].list
    <3>1. L \in Lists /\ DOMAIN cache = Lists
      BY <1>3, ListKept DEF ShapeInv
    <3>2. cache'[L].timestamp = now + expiry_ /\ (L \in Books => stale'[L] = 0)
      BY <2>3, <3>1 DEF Store
    <3>3. \A b \in Books : b # L => cache'[b] = cache[b] /\ stale'[b] = stale[b]
      BY <1>3, <1>a, <2>3, SourceKept
    <3> HIDE DEF L
    <3> QED
      BY <1>a, <2>1, <3>2, <3>3 DEF StaleInv
  <2> QED
    BY <1>3, <2>2, <2>3, SourceKept
<1> QED
  BY <1>1, <1>2, <1>3, Steps DEF Quiet

-----------------------------------------------------------------------------
(* The first state                                                         *)

LEMMA Start == Init => IInv /\ MatchInv
<1> SUFFICES ASSUME Init PROVE IInv /\ MatchInv
  OBVIOUS
<1>1. /\ DOMAIN thread = Threads /\ \A t \in Threads : thread[t] = Idle
      /\ \A t \in Threads : ~Busy(t)
  BY DEF Init, Busy
<1>2. /\ DOMAIN matcher = Providers
      /\ \A r \in Providers : /\ DOMAIN matcher[r] = {"valid", "strings"}
                              /\ matcher[r].valid = FALSE /\ matcher[r].strings = <<>>
  BY DEF Init
<1>3. DOMAIN cache = Lists /\ \A l \in Lists : cache[l].timestamp = Never
  BY DEF Init
<1>4. <<>> = [s \in DOMAIN <<>> |-> <<>>[s]] /\ DOMAIN <<>> = {}
  OBVIOUS
<1>5. /\ now = 0 /\ version = 0 /\ file \in Files
      /\ owner = [l \in Lists |-> Free] /\ source = [l \in Lists |-> -1]
      /\ stale = [b \in Books |-> 0]
  BY DEF Init
<1>6. ShapeInv
  BY <1>1, <1>2, <1>3, <1>4 DEF ShapeInv
<1>7. TypeOK
  <2>1. now \in 0 .. MaxTime /\ version \in 0 .. MaxVersion
    BY <1>5, BoundsAssumption
  <2>2. \A l \in Lists : cache[l].timestamp \in Never .. MaxTime + expiry_
    BY <1>3, ExpiryType, BoundsAssumption DEF Never
  <2>3. source \in [Lists -> -1 .. MaxVersion] /\ stale \in [Books -> Nat]
    BY <1>5, BoundsAssumption
  <2>4. \A r \in Providers : /\ matcher[r].valid \in BOOLEAN
                             /\ DOMAIN matcher[r].strings \subseteq SymbolSet
                             /\ matcher[r].valid => DOMAIN matcher[r].strings = SymbolSet
    BY <1>2, <1>4
  <2> QED
    BY <1>1, <1>5, <2>1, <2>2, <2>3, <2>4 DEF TypeOK
<1>8. LockInv
  <2>1. \A l \in Lists : owner[l] = Free
    BY <1>5
  <2> QED
    BY <1>1, <2>1, ListsAssumption DEF LockInv
<1>9. ServerInv
  BY <1>1, ListsAssumption DEF ServerInv, Threads
<1>10. AgeInv
  <2>1. \A l \in Lists : source[l] = -1
    BY <1>5
  <2> QED
    BY <1>1, <1>5, <2>1 DEF AgeInv
<1>11. StaleInv
  <2>1. \A b \in Books : stale[b] = 0 /\ cache[b].timestamp = -1
    BY <1>3, <1>5 DEF Lists, Never
  <2> QED
    BY <1>5, <2>1, ExpiryType DEF StaleInv
<1> QED
  BY <1>1, <1>6, <1>7, <1>8, <1>9, <1>10, <1>11 DEF IInv, MatchInv

-----------------------------------------------------------------------------
(* What a list holds                                                       *)

\* The mutexes of the phonebooks, and the order of construction, keep a matcher
\* to one thread.
LEMMA Exclusive ==
    ASSUME OwnProviders, IInv,
           NEW t \in Threads, Busy(t), thread[t].at # "lock",
           NEW u \in Threads, Busy(u), thread[u].at # "lock",
           Provider(t) = Provider(u)
    PROVE  t = u
<1>1. Threads = Clients \cup {Main} /\ ServerInv
  BY DEF Threads, IInv
<1>2. CASE t = Main \/ u = Main
  BY <1>1, <1>2 DEF ServerInv
<1>3. CASE t # Main /\ u # Main
  <2>1. thread[t].list \in Books /\ thread[u].list \in Books
    BY <1>1, <1>3 DEF ServerInv
  <2>2. thread[t].list = thread[u].list /\ thread[t].list \in Lists
    BY <2>1 DEF OwnProviders, Provider, Lists
  <2>3. LockInv
    BY DEF IInv
  <2> QED
    BY <2>2, <2>3 DEF LockInv
<1> QED
  BY <1>2, <1>3

\* A record matches if the tables say so once every symbol is taken, and does not
\* if it lacks a symbol.
LEMMA TablesRight ==
    ASSUME NEW rec, NEW strings, DOMAIN strings = SymbolSet,
           strings = [s \in DOMAIN strings |-> strings[s]],
           \A s \in SymbolSet : Has(rec, s) /\ strings[s] = Value(rec, s)
    PROVE  Matches(rec) <=> strings \in Accepts
<1>1. strings = [s \in SymbolSet |-> Value(rec, s)]
  OBVIOUS
<1> QED
  BY <1>1 DEF Matches

\* The request of a thread that does not step.
LEMMA OthersMatch ==
    ASSUME OwnProviders, IInv, MatchInv, NEW t \in Threads, ThreadStep(t),
           NEW u \in Threads, u # t, Busy(u)'
    PROVE  (ListInv(u) /\ TakenInv(u))'
<1>1. thread'[u] = thread[u] /\ Busy(u) /\ TypeOK /\ ShapeInv
  BY ListKept DEF Busy, IInv
<1>2. ListInv(u) /\ TakenInv(u)
  BY <1>1 DEF MatchInv
<1>3. ListInv(u)'
  BY <1>1, <1>2 DEF ListInv
<1>4. thread[u].at = "evaluate" => matcher'[Provider(u)] = matcher[Provider(u)]
  <2>1. CASE UNCHANGED matcher
    BY <2>1
  <2>2. CASE Matching(t) /\ MatcherBy(t)
    <3>1. Busy(t) /\ thread[t].at \in Building
      BY <1>1, <2>2, MatchingStep DEF ThreadStep
    <3>2. thread[u].at = "evaluate" => Provider(u) # Provider(t)
      BY <1>1, <3>1, Exclusive DEF Building
    <3>3. Provider(u) \in Providers
      BY <1>1, ProviderType
    <3> QED
      BY <2>2, <3>2, <3>3 DEF MatcherBy
  <2> QED
    BY <1>1, <2>1, <2>2, MatchingStep DEF ThreadStep, Enter, Ask, Store, Serve
<1>5. TakenInv(u)'
  BY <1>1, <1>2, <1>4 DEF TakenInv, Matcher, Record, Provider
<1> QED
  BY <1>3, <1>5

\* The request of a thread that goes on with a record.
LEMMA OnRecordLists ==
    ASSUME NEW t \in Threads, ListInv(t), OnRecord(t)
    PROVE  /\ ListInv(t)' /\ Record(t)' = Record(t) /\ Provider(t)' = Provider(t)
           /\ thread'[t].list = thread[t].list
<1>1. /\ thread'[t].list = thread[t].list /\ thread'[t].file = thread[t].file
      /\ thread'[t].done = thread[t].done /\ thread'[t].out = thread[t].out
      /\ thread[t].at \in Building
  BY DEF OnRecord, Changes, Fields
<1> QED
  BY <1>1 DEF ListInv, Record, Provider

\* The request of a thread that goes to the next record.
LEMMA NextRecordLists ==
    ASSUME ShapeInv, NEW t \in Threads, Busy(t), ListInv(t), NEW entries,
           NextRecordBy(t, entries),
           entries = IF Matches(Record(t)) THEN Extract(thread[t].list, Record(t)) ELSE <<>>
    PROVE  ListInv(t)' /\ TakenInv(t)'
<1>1. /\ thread'[t].list = thread[t].list /\ thread'[t].file = thread[t].file
      /\ thread'[t].done = thread[t].done + 1 /\ thread'[t].out = thread[t].out \o entries
      /\ thread[t].at \in Building /\ thread'[t].at = "next"
  BY DEF NextRecordBy, Changes, Fields
<1>2. thread[t].done \in Nat /\ thread[t].out \in Seq(ToSet(thread[t].out))
  BY DEF ShapeInv, RequestInv
<1>3. Listed(thread[t].list, thread[t].file, thread[t].done, thread[t].out)
  BY <1>1 DEF ListInv
<1>4. Listed(thread[t].list, thread[t].file, thread[t].done + 1, thread[t].out \o entries)
  BY <1>2, <1>3, ListedMore DEF Record
<1> QED
  BY <1>1, <1>4 DEF ListInv, TakenInv

LEMMA OwnMatch ==
    ASSUME IInv, MatchInv, NEW t \in Threads, Busy(t), Matching(t)
    PROVE  (ListInv(t) /\ TakenInv(t))'
<1>1. TypeOK /\ ShapeInv /\ ListInv(t) /\ TakenInv(t) /\ Provider(t) \in Providers
  BY ProviderType DEF IInv, MatchInv
<1>2. GoodMatcher(matcher[Provider(t)]) /\ Matcher(t) = matcher[Provider(t)]
  BY <1>1, GoodMatchers DEF Matcher, Provider
<1>3. CASE IsMatch(t)
  <2>1. OnRecord(t) /\ UNCHANGED matcher
        /\ (thread'[t].at = "evaluate" => Matcher(t).valid /\ thread'[t].rest = SymbolSet)
    BY <1>1, <1>2, <1>3, IsMatchStep DEF GoodMatcher
  <2>2. ListInv(t)' /\ thread'[t].list = thread[t].list
    BY <1>1, <2>1, OnRecordLists
  <2>3. TakenInv(t)'
    BY <2>1, <2>2 DEF TakenInv, Matcher
  <2> QED
    BY <2>2, <2>3
<1>4. CASE Resolve(t)
  <2>1. CASE UNCHANGED thread
    BY <1>1, <1>4, <2>1, ResolveStep DEF ListInv, TakenInv
  <2>2. CASE NextRecordBy(t, <<>>) /\ \E s \in SymbolSet : ~Has(Record(t), s)
    <3>1. ~Matches(Record(t))
      BY <2>2 DEF Matches
    <3> QED
      BY <1>1, <2>2, <3>1, NextRecordLists
  <2> QED
    BY <1>1, <1>4, <2>1, <2>2, ResolveStep
<1>5. CASE Compiled(t)
  <2>1. OnRecord(t) /\ thread'[t].rest = SymbolSet /\ matcher'[Provider(t)].valid
    BY <1>1, <1>5, CompiledStep
  <2>2. ListInv(t)' /\ thread'[t].list = thread[t].list
    BY <1>1, <2>1, OnRecordLists
  <2>3. TakenInv(t)'
    BY <2>1, <2>2 DEF TakenInv, Matcher, Provider
  <2> QED
    BY <2>2, <2>3
<1>6. ASSUME NEW s \in SymbolSet, Update(t, s) PROVE (ListInv(t) /\ TakenInv(t))'
  <2>1. thread[t].at = "evaluate"
    BY <1>1, <1>6, UpdateStep
  <2>2. matcher[Provider(t)].valid /\ DOMAIN matcher[Provider(t)].strings = SymbolSet
        /\ \A z \in SymbolSet \ thread[t].rest :
             Has(Record(t), z) /\ matcher[Provider(t)].strings[z] = Value(Record(t), z)
    BY <1>1, <1>2, <2>1 DEF TakenInv, GoodMatcher
  <2>3. CASE OnRecord(t) /\ Has(Record(t), s)
    <3>1. /\ thread'[t].rest = thread[t].rest \ {s} /\ matcher'[Provider(t)].valid
          /\ matcher'[Provider(t)].strings[s] = Value(Record(t), s)
          /\ \A z \in SymbolSet \ {s} : matcher'[Provider(t)].strings[z]
                                        = matcher[Provider(t)].strings[z]
      <4>1. ~ NextRecordBy(t, <<>>)
        BY <2>3 DEF OnRecord, NextRecordBy
      <4> QED
        BY <1>1, <1>6, <2>2, <4>1, UpdateStep
    <3>2. /\ ListInv(t)' /\ thread'[t].list = thread[t].list
          /\ Record(t)' = Record(t) /\ Provider(t)' = Provider(t)
      BY <1>1, <2>3, OnRecordLists
    <3>3. \A z \in SymbolSet \ thread'[t].rest :
             Has(Record(t), z) /\ matcher'[Provider(t)].strings[z] = Value(Record(t), z)
      BY <2>2, <2>3, <3>1
    <3>4. Matcher(t)' = matcher'[Provider(t)]
      BY <3>2 DEF Matcher, Provider
    <3>5. Matcher(t).valid' /\ \A z \in SymbolSet \ thread'[t].rest :
             Has(Record(t)', z) /\ Matcher(t).strings'[z] = Value(Record(t)', z)
      BY <3>1, <3>2, <3>3, <3>4
    <3>6. TakenInv(t)'
      BY <3>5 DEF TakenInv, Has, Value
    <3> QED
      BY <3>2, <3>6
  <2>4. CASE NextRecordBy(t, <<>>) /\ ~Has(Record(t), s)
    <3>1. ~Matches(Record(t))
      BY <2>4 DEF Matches
    <3> QED
      BY <1>1, <2>4, <3>1, NextRecordLists
  <2> QED
    BY <1>1, <1>6, <2>3, <2>4, UpdateStep
<1>7. CASE Evaluate(t)
  <2> DEFINE entries == IF Matcher(t).strings \in Accepts
                        THEN Extract(thread[t].list, Record(t)) ELSE <<>>
  <2>1. thread[t].at = "evaluate" /\ thread[t].rest = {} /\ NextRecordBy(t, entries)
    BY <1>1, <1>7, EvaluateStep
  <2>2. /\ Matcher(t).valid
        /\ \A s \in SymbolSet : Has(Record(t), s) /\ Matcher(t).strings[s] = Value(Record(t), s)
    BY <1>1, <2>1 DEF TakenInv
  <2>3. Matches(Record(t)) <=> Matcher(t).strings \in Accepts
    BY <1>2, <2>2, TablesRight DEF GoodMatcher
  <2>4. entries = IF Matches(Record(t)) THEN Extract(thread[t].list, Record(t)) ELSE <<>>
    BY <2>3
  <2> HIDE DEF entries
  <2> QED
    BY <1>1, <2>1, <2>4, NextRecordLists
<1> QED
  BY <1>3, <1>4, <1>5, <1>6, <1>7 DEF Matching

LEMMA MatchStep ==
    ASSUME OwnProviders
    PROVE  IInv /\ MatchInv /\ [Next]_vars => MatchInv'
<1> SUFFICES ASSUME IInv, MatchInv, [Next]_vars PROVE MatchInv'
  OBVIOUS
<1>a. TypeOK /\ ShapeInv
  BY DEF IInv
<1>1. CASE Quiet
  BY <1>1, QuietStep DEF MatchInv, Busy, ListInv, TakenInv, Matcher, Record
<1>2. ASSUME NEW t \in Threads, NEW l \in Lists, Request(t, l) PROVE MatchInv'
  <2>1. thread'[t].at = "lock" /\ (\A u \in Threads : u # t => thread'[u] = thread[u])
        /\ UNCHANGED matcher
    BY <1>a, <1>2, RequestStep DEF Request
  <2>2. ListInv(t)' /\ TakenInv(t)'
    BY <2>1 DEF ListInv, TakenInv, Building
  <2>3. ASSUME NEW u \in Threads, u # t, Busy(u)' PROVE ListInv(u)' /\ TakenInv(u)'
    <3>1. thread'[u] = thread[u] /\ Busy(u)
      BY <2>1, <2>3 DEF Busy
    <3> QED
      BY <2>1, <3>1 DEF MatchInv, ListInv, TakenInv, Matcher, Record
  <2> QED
    BY <2>2, <2>3 DEF MatchInv
<1>3. ASSUME NEW t \in Threads, ThreadStep(t) PROVE MatchInv'
  <2>1. \A u \in Threads : u # t /\ Busy(u)' => (ListInv(u) /\ TakenInv(u))'
    BY <1>3, OthersMatch
  <2>2. Busy(t)' => (ListInv(t) /\ TakenInv(t))'
    <3>1. Busy(t)
      BY <1>3 DEF ThreadStep
    <3>2. CASE Enter(t) \/ Store(t)
      BY <1>a, <3>1, <3>2, EnterStep, StoreStep DEF ListInv, TakenInv, Building
    <3>3. CASE Ask(t)
      <4>1. /\ thread'[t].at = "next" /\ thread'[t].done = 0 /\ thread'[t].out = <<>>
        BY <1>a, <3>1, <3>3, AskStep DEF Changes, Fields, ShapeInv, RequestInv
      <4> QED
        BY <4>1, ListedNone DEF ListInv, TakenInv
    <3>4. CASE Serve(t)
      BY <1>a, <3>4, ServeStep DEF Busy
    <3>5. CASE Matching(t)
      BY <3>1, <3>5, OwnMatch
    <3> QED
      BY <1>3, <3>2, <3>3, <3>4, <3>5 DEF ThreadStep
  <2> QED
    BY <2>1, <2>2 DEF MatchInv
<1> QED
  BY <1>1, <1>2, <1>3, Steps

-----------------------------------------------------------------------------
(* The theorems                                                            *)

\* The inductive invariant holds in every state, if phonebooks share a provider
\* or not.
THEOREM Invariance == Spec => []IInv
<1>1. Init => IInv
  BY Start
<1>2. IInv /\ [Next]_vars => IInv'
  BY TypeStep, ShapeStep, LockStep, ServerStep, AgeStep, StaleStep DEF IInv
<1> QED
  BY <1>1, <1>2, PTL DEF Spec

\* Every variable keeps its type: the tables of a matcher have symbols of its
\* expression only, and all of them once it counts as compiled, even if a record
\* lacks some (JSONExpressionMatcher::compile) and threads share the matcher.
THEOREM TypeCorrect == Spec => []TypeOK
<1>1. IInv => TypeOK
  BY DEF IInv
<1> QED
  BY <1>1, Invariance, PTL

\* However requests for a phonebook overlap, it is not replaced by one of an older
\* file: the mutex of getPhonebook is held from the look at the time stamp until
\* the text is stored.
THEOREM NoOlderPhonebook == Spec => NeverOlder
<1> DEFINE Kept(l) == source'[l] # source[l] => \/ source'[l] = -1 \/ source'[l] > source[l]
                                                \/ source[l] = -1
<1>1. ASSUME IInv, [Next]_vars, NEW l \in Books PROVE Kept(l)
  <2>1. TypeOK /\ ShapeInv /\ AgeInv /\ l \in Lists /\ l \notin UIs
    BY <1>1, ListsAssumption DEF IInv, Lists
  <2>2. CASE Quiet \/ \E t \in Threads, m \in Lists : Request(t, m)
    BY <2>2, QuietStep DEF Request
  <2>3. ASSUME NEW t \in Threads, ThreadStep(t) PROVE Kept(l)
    <3>1. CASE source'[l] = source[l]
      BY <3>1
    <3>2. CASE Store(t) /\ l = thread[t].list
      <4>1. Busy(t) /\ thread[t].at \in Building /\ thread[t].version \in Int
        BY <2>1, <2>3, <3>2, StoreStep, ListKept, BoundsAssumption
        DEF Building, ShapeInv, RequestInv
      <4>2. source'[l] = thread[t].version /\ source[l] \in Int
        BY <2>1, <3>2, BoundsAssumption DEF Store, TypeOK
      <4>3. thread[t].version = -1 \/ thread[t].version >= source[l]
        BY <2>1, <3>2, <4>1 DEF AgeInv
      <4> QED
        BY <4>1, <4>2, <4>3
    <3> QED
      BY <2>1, <2>3, <3>1, <3>2, SourceKept
  <2> QED
    BY <1>1, <2>2, <2>3, Steps
<1>2. IInv /\ [Next]_vars =>
        [\A l \in Books : source'[l] # source[l] => source'[l] = -1 \/ source'[l] > source[l]
                                                    \/ source[l] = -1]_vars
  BY <1>1
<1> QED
  BY <1>2, Invariance, PTL DEF Spec, NeverOlder

\* A phonebook served from the cache, an empty one after a failure included, has
\* been out of date for no longer than its life since it was stored: serving it does not extend it
\* (Phonebook::getPhonebook sets the time stamp only when it fetches).
THEOREM NotStaleForLong == Spec => StaleAtMostTtl
<1>1. ASSUME IInv, NEW t \in Clients, Enter(t), thread'[t].at = "serve"
      PROVE  stale[thread[t].list] <= expiry_
  <2>1. TypeOK /\ ShapeInv /\ ServerInv /\ StaleInv /\ t \in Threads
    BY <1>1 DEF IInv, Threads
  <2>2. Busy(t)
    BY <1>1 DEF Enter, LockGuard, Busy, Idle
  <2> DEFINE L == thread[t].list
  <2>3. L \in Books /\ L \in Lists
    BY <2>1, <2>2 DEF ServerInv, Lists
  <2>4. ~(cache[L].timestamp < now)
    BY <1>1, <2>1, <2>2, EnterStep
  <2>5. /\ stale[L] + cache[L].timestamp <= now + expiry_
        /\ stale[L] \in Nat /\ cache[L].timestamp \in Int /\ now \in Int /\ expiry_ \in Nat
    BY <2>1, <2>3, ExpiryType, BoundsAssumption DEF StaleInv, TypeOK, Never
  <2> HIDE DEF L
  <2>6. stale[L] <= expiry_
    BY <2>4, <2>5
  <2> QED
    BY <2>6 DEF L
<1>2. IInv => [\A t \in Clients : Enter(t) /\ thread'[t].at = "serve"
                  => stale[thread[t].list] <= expiry_]_vars
  BY <1>1
<1> QED
  BY <1>2, Invariance, PTL DEF StaleAtMostTtl

\* The matcher's tables are right for the record under evaluation.
THEOREM MatcherInvariance == ASSUME OwnProviders PROVE Spec => []MatchInv
<1>1. Init => MatchInv
  BY Start
<1>2. IInv /\ MatchInv /\ [Next]_vars => MatchInv'
  BY MatchStep
<1> QED
  BY <1>1, <1>2, Invariance, PTL DEF Spec

\* If no two phonebooks name the same provider, a list under construction has an
\* entry for each record that matches and no other, for any expression, file and
\* symbol map: what the matcher learned from other records, by other lists or
\* from a record that lacks a symbol, does not show (JSONExpressionMatcher). UIs
\* may share a provider, with a phonebook too.
THEOREM ListsMatch == ASSUME OwnProviders PROVE Spec => []MatchIsRight
<1>1. MatchInv => MatchIsRight
  BY DEF MatchInv, ListInv, MatchIsRight, Building
<1> QED
  BY <1>1, MatcherInvariance, PTL

=============================================================================
