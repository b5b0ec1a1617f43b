----------------------------- MODULE MCPhonebook -----------------------------
(* Instances of Phonebook for TLC.  The expression has two symbols, the       *)
(* first renamed by the map (twice: the first pair counts); two threads, two  *)
(* phonebooks and a UI.  Of the records, one matches, one lacks a key, one    *)
(* does not match, and some have no caller ID, an odd or an empty one.        *)
EXTENDS Phonebook

MCSymbols == <<"type", "line">>
MCSymbolMap == <<<<"type", "kind">>, <<"type", "line">>>>
MCAccepts == {[type |-> "phone", line |-> "1"]}
MCFormatOf == "b1" :> "snom" @@ "b2" :> "yealink"

Good == [kind |-> "phone", line |-> "1", callerid |-> "ann", auth |-> "a1"]
Odd == [kind |-> "phone", line |-> "1", callerid |-> "odd"]
Other == [kind |-> "trunk", line |-> "1", callerid |-> "bob", auth |-> "a2"]
NoKind == [line |-> "1", callerid |-> "carl"]
NoLine == [kind |-> "phone", callerid |-> "dan"]
Mute == [kind |-> "phone", line |-> "1", callerid |-> "", auth |-> "a3"]
Nobody == [kind |-> "phone", line |-> "1"]

MCFiles == {<<NoLine, Other, Good>>, <<Odd, NoKind>>, <<Mute, Nobody>>}
MCSharedFiles == {<<Other, Good>>}

Separate == "b1" :> "r1" @@ "u" :> "r2"
Shared == "b1" :> "r1" @@ "b2" :> "r1" @@ "u" :> "r2"
=============================================================================
