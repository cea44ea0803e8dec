------------------------------ MODULE ExchangeRates ------------------------------
(***************************************************************************)
(* The repository of exchange rates (ql/currencies/exchangeratemanager.cpp *)
(* and ql/exchangerate.cpp): rates added with a range of dates, and the    *)
(* lookup that chains them, through the triangulation currency of an       *)
(* obsoleted currency or by a search.                                      *)
(*                                                                         *)
(* A currency is its numeric code.  A rate is the logarithm of the factor, *)
(* so that multiplying and dividing become adding and subtracting.         *)
(***************************************************************************)
EXTENDS Integers, Sequences, FiniteSets, FiniteSetsExt

CONSTANTS
    Currency,
    Triangulation,      \* of each currency, or NoCurrency
    NoCurrency,
    RateDates,          \* the dates for which rates are looked up
    KnownRates,         \* the sequence of entries addKnownRates() adds
    NewEntries,         \* the entries clients add
    MaxAdded            \* bound: how many of them are present at once

DirectRates == [source : Currency, target : Currency, log : Int, chained : {<<>>}]
Entries == [rate : DirectRates, start : Int, end : Int]

ASSUME RatesAssumption ==
    /\ Currency \subseteq 0..999 /\ NoCurrency \notin Currency
    /\ Triangulation \in [Currency -> Currency \cup {NoCurrency}]
    /\ KnownRates \in Seq(Entries) /\ NewEntries \subseteq Entries
    /\ RateDates \subseteq Int

\* No currency is reached from itself through triangulation currencies;
\* one link at most is all the library has.
ASSUME LinksEnd == \A c \in Currency : Triangulation[c] # NoCurrency =>
                        Triangulation[Triangulation[c]] = NoCurrency

VARIABLES
    data,       \* the lists of entries, by the key of a pair of currencies
    log         \* every entry added since the last clear(), in this order;
                \* history for the properties

ratesVars == <<data, log>>

(* ---- ExchangeRate ---- *)

NewRate(source, target, factor) ==
    [source |-> source, target |-> target, log |-> factor, chained |-> <<>>]

\* The four ways in which the quotations of two rates can meet.
chain(r1, r2) ==
    LET rate(source, target, sum) ==
          [source |-> source, target |-> target, log |-> sum, chained |-> <<r1, r2>>]
    IN  CASE r1.source = r2.source -> rate(r1.target, r2.target, r2.log - r1.log)
          [] r1.source # r2.source /\ r1.source = r2.target
               -> rate(r1.target, r2.source, -(r1.log + r2.log))
          [] r1.source \notin {r2.source, r2.target} /\ r1.target = r2.source
               -> rate(r1.source, r2.target, r1.log + r2.log)
          [] r1.source \notin {r2.source, r2.target} /\ r1.target = r2.target
               -> rate(r1.source, r2.source, r1.log - r2.log)

Ends(rate) == {rate.source, rate.target}

Money == [currency : Currency, log : Int]

\* How deep a lookup chains: once less than it takes rates, and it takes fewer
\* than there are currencies, and two more.
Levels == 0..Cardinality(Currency)

\* The rates that are chained over so many levels at most.
Rates[n \in Levels] ==
    [source : Currency, target : Currency, log : Int,
     chained : {<<>>} \cup IF n = 0 THEN {} ELSE Rates[n - 1] \X Rates[n - 1]]

\* What rate makes of money, when parts[r] is what a part r of it makes of it: the
\* two parts are applied in the order in which the currency of the amount occurs.
exchanged(rate, money, parts) ==
    IF rate.chained = <<>>
    THEN IF money.currency = rate.source
         THEN [currency |-> rate.target, log |-> money.log + rate.log]
         ELSE [currency |-> rate.source, log |-> money.log - rate.log]
    ELSE IF money.currency \in Ends(rate.chained[1])
         THEN parts[rate.chained[2]][parts[rate.chained[1]][money]]
         ELSE parts[rate.chained[1]][parts[rate.chained[2]][money]]

exchange(rate, money) ==
    LET upTo[n \in Levels] ==
          [r \in Rates[n] |-> [m \in Money |-> exchanged(r, m, upTo[n - 1])]]
    IN  upTo[Cardinality(Currency)][rate][money]

(* ---- ExchangeRateManager ---- *)

NoRate == [log |-> "none"]

Lower(c1, c2)  == IF c1 < c2 THEN c1 ELSE c2
Higher(c1, c2) == IF c1 < c2 THEN c2 ELSE c1

hash(c1, c2) == Lower(c1, c2) * 1000 + Higher(c1, c2)
hashes(k, c) == c = k % 1000 \/ c = k \div 1000

Keys == {hash(c1, c2) : c1, c2 \in Currency}

valid_at(entry, date) == entry.start <= date /\ date <= entry.end

\* The first entry of the list that is valid on the date.
fetch(source, target, date) ==
    LET list  == data[hash(source, target)]
        valid == {i \in DOMAIN list : valid_at(list[i], date)}
    IN  IF valid = {} THEN NoRate ELSE list[Min(valid)].rate

directLookup(source, target, date) == fetch(source, target, date)

OtherEnd(rate, source) == IF source = rate.source THEN rate.target ELSE rate.source

\* fault: a head with which the target cannot be reached ends the search.
FirstHead(tails) ==
    IF DOMAIN tails = {} THEN NoRate ELSE tails[Min(DOMAIN tails)]

\* The map is walked in the order of its keys; a head with which the target
\* cannot be reached is discarded.
FirstFound(tails) ==
    LET found == {k \in DOMAIN tails : tails[k] # NoRate}
    IN  IF found = {} THEN NoRate ELSE tails[Min(found)]

chainedTo(head, tail) == IF tail = NoRate THEN NoRate ELSE chain(head, tail)

\* The currency at the other end of the rates kept under a key.
Other(k, source) == OtherEnd(data[k][1].rate, source)

\* The keys with which the search goes on from source.
Heads(source, date, avoid) ==
    {k \in Keys : /\ hashes(k, source) /\ data[k] # <<>>
                  /\ Other(k, source) \notin avoid
                  /\ fetch(source, Other(k, source), date) # NoRate}

\* The search at source, when tails holds what it finds from where it may go on.
searchFrom(source, target, date, avoid, tails) ==
    IF fetch(source, target, date) # NoRate
    THEN fetch(source, target, date)
    ELSE FirstFound([k \in Heads(source, date, avoid) |->
             chainedTo(fetch(source, Other(k, source), date), tails[Other(k, source)])])

smartLookup(source, target, date, forbidden) ==
    LET search[avoid \in SUBSET Currency] ==
          [from \in Currency \ avoid |->
              searchFrom(from, target, date, avoid \cup {from}, search[avoid \cup {from}])]
    IN  search[forbidden][source]

\* Both parts of a triangulated rate must be there.
Both(r1, r2) == IF r1 = NoRate THEN NoRate ELSE chainedTo(r1, r2)

\* A derived rate, when found holds those between other currencies.
derived(source, target, date, found) ==
    LET sourceLink == Triangulation[source]
        targetLink == Triangulation[target]
    IN  CASE source = target -> NewRate(source, target, 0)
          [] source # target /\ sourceLink # NoCurrency ->
               IF sourceLink = target
               THEN directLookup(source, sourceLink, date)
               ELSE Both(directLookup(source, sourceLink, date),
                         found[<<sourceLink, target>>])
          [] source # target /\ sourceLink = NoCurrency /\ targetLink # NoCurrency ->
               IF source = targetLink
               THEN directLookup(targetLink, target, date)
               ELSE Both(found[<<source, targetLink>>],
                         directLookup(targetLink, target, date))
          [] OTHER -> smartLookup(source, target, date, {})

lookup(source, target, date, type) ==
    LET found[ends \in Currency \X Currency] == derived(ends[1], ends[2], date, found)
    IN  CASE source = target -> NewRate(source, target, 0)
          [] source # target /\ type = "Direct" -> directLookup(source, target, date)
          [] source # target /\ type = "Derived" -> found[<<source, target>>]

KeyOf(entry) == hash(entry.rate.source, entry.rate.target)

\* fault: the entry is put at the end of its list.
AddedLast(lists, entry) == [lists EXCEPT ![KeyOf(entry)] = Append(@, entry)]

Added(lists, entry) == [lists EXCEPT ![KeyOf(entry)] = <<entry>> \o @]

addKnownRates ==
    LET known[n \in 0..Len(KnownRates)] ==
          IF n = 0 THEN [k \in Keys |-> <<>>] ELSE Added(known[n - 1], KnownRates[n])
    IN  known[Len(KnownRates)]

(* ---- clients ---- *)

add ==
    \E entry \in NewEntries :
        /\ Len(log) < Len(KnownRates) + MaxAdded
        /\ data' = Added(data, entry)
        /\ log' = Append(log, entry)

clear ==
    /\ data' = addKnownRates
    /\ log' = KnownRates

RatesInit == data = addKnownRates /\ log = KnownRates

RatesNext == add \/ clear

RatesSpec == RatesInit /\ [][RatesNext]_ratesVars

(* ---- properties ---- *)

\* The rate that was added last for two currencies among those valid then.
Latest(c1, c2, date) ==
    LET valid == {i \in DOMAIN log : /\ KeyOf(log[i]) = hash(c1, c2)
                                     /\ valid_at(log[i], date)}
    IN  IF valid = {} THEN NoRate ELSE log[Max(valid)].rate

Linked(c1, c2, date) == Latest(c1, c2, date) # NoRate

\* What a unit of c1 is worth in c2 by that rate.
Worth(c1, c2, date) ==
    LET rate == Latest(c1, c2, date)
    IN  IF rate.source = c1 THEN rate.log ELSE -rate.log

\* The ways from one currency to another that return to none.
SimplePaths ==
    LET paths == {p \in UNION {[1..n -> Currency] : n \in 1..Cardinality(Currency)} :
                    \A i, j \in DOMAIN p : p[i] = p[j] => i = j}
    IN  [source \in Currency |-> [target \in Currency |->
            {p \in paths : p[1] = source /\ p[Len(p)] = target}]]

\* What a unit is worth at the end of a path.
WorthAlong(p, date) ==
    LET upTo[i \in DOMAIN p] ==
          IF i = 1 THEN 0 ELSE upTo[i - 1] + Worth(p[i - 1], p[i], date)
    IN  upTo[Len(p)]

LinkedPaths(source, target, date) ==
    {p \in SimplePaths[source][target] :
        \A i \in 1..(Len(p) - 1) : Linked(p[i], p[i + 1], date)}

\* An obsoleted currency is exchanged through its triangulation currency only.
Hub(c) == IF Triangulation[c] = NoCurrency THEN c ELSE Triangulation[c]
AtHub(c, date) == Hub(c) = c \/ Linked(c, Hub(c), date)
ToHub(c, date) == IF Hub(c) = c THEN 0 ELSE Worth(c, Hub(c), date)

\* What a unit of source can be worth in target.
Conversions(source, target, date, type) ==
    CASE source = target -> {0}
      [] source # target /\ type = "Direct" ->
           IF Linked(source, target, date) THEN {Worth(source, target, date)} ELSE {}
      [] source # target /\ type = "Derived" ->
           {ToHub(source, date) + WorthAlong(p, date) - ToHub(target, date) :
               p \in {q \in LinkedPaths(Hub(source), Hub(target), date) :
                        AtHub(source, date) /\ AtHub(target, date)}}

Types == {"Direct", "Derived"}

\* A rate is found exactly if rates valid on the date connect the currencies, each
\* through its triangulation currency if it has one, whatever dead ends the search
\* meets first and whatever expired entries precede a valid one
\* (exchangeratemanager.cpp:52-203, "otherwise, we just discard this rate").
FoundIfConnected ==
    \A source, target \in Currency, date \in RateDates, type \in Types :
        (lookup(source, target, date, type) # NoRate)
            <=> Conversions(source, target, date, type) # {}

\* Whichever rate a lookup returns, direct, triangulated or derived, it turns
\* an amount of the source into what the latest rates of that date make of
\* it, turns that back into what it was, and states the same factor, however
\* the rates it is chained from are quoted (exchangeratemanager.hpp:48-50,
\* "the latest one added takes precedence"; exchangerate.cpp:25-77).
LatestRatesConvert ==
    \A source, target \in Currency, date \in RateDates, type \in Types :
        LET rate == lookup(source, target, date, type)
            unit == [currency |-> source, log |-> 0]
            got  == exchange(rate, unit)
        IN  rate # NoRate =>
              /\ got.currency = target
              /\ got.log \in Conversions(source, target, date, type)
              /\ exchange(rate, got) = unit
              /\ got.log = IF rate.source = source THEN rate.log ELSE -rate.log
=============================================================================
