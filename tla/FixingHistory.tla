------------------------------ MODULE FixingHistory ------------------------------
(***************************************************************************)
(* The past fixings of one index: its entry in the IndexManager            *)
(* (ql/indexes/indexmanager.cpp) and the operations of class Index that    *)
(* store and clear fixings (ql/index.hpp, index.cpp).  The entry is a map  *)
(* from dates to values together with the Observable that notifies of it.  *)
(* Looking an absent entry up creates it, with a new Observable.           *)
(***************************************************************************)
EXTENDS Naturals, Sequences, SequencesExt

CONSTANTS FixingDates, Values, NullValue

ASSUME NullIsNoValue == NullValue \notin Values

VARIABLES history,      \* the time series
          connected     \* the index is registered with the entry's Observable

fixingVars == <<history, connected>>

NoHistory == [d \in FixingDates |-> NullValue]

\* The constructor of the index registers with the notifier (creating it).
FixingsInit == history = NoHistory /\ connected = TRUE

Fixing == [date : FixingDates, value : Values]

Missing(h, fixing, force) == force \/ h[fixing.date] = NullValue

\* One turn of the loop of addFixings(), which goes on after a fixing that is
\* invalid, or in conflict with the one that is present.
Store(h, fixing, valid, force) ==
    IF fixing.date \in valid /\ Missing(h, fixing, force)
    THEN [h EXCEPT ![fixing.date] = fixing.value]
    ELSE h

\* fault: the loop stops at the first fixing it refuses.
StoredUntilRefused(h, batch, valid, force) ==
    LET refused == {i \in DOMAIN batch : batch[i].date \notin valid}
        kept    == IF refused = {} THEN batch
                   ELSE SubSeq(batch, 1, (CHOOSE i \in refused :
                                            \A j \in refused : i <= j) - 1)
    IN  FoldLeft(LAMBDA g, fixing : Store(g, fixing, valid, force), h, kept)

Stored(h, batch, valid, force) ==
    FoldLeft(LAMBDA g, fixing : Store(g, fixing, valid, force), h, batch)

\* addFixings() reports a refused fixing by an exception, but only after it
\* has stored the others; it notifies in any case.
addFixings(batch, valid, force) ==
    /\ history' = Stored(history, batch, valid, force)
    /\ UNCHANGED connected

\* clearFixings() erases the entry, and the Observable with it: nobody is
\* notified, now or when fixings are stored again.
clearFixings ==
    /\ history' = NoHistory
    /\ connected' = FALSE

=============================================================================
