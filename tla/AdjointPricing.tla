--------------------------- MODULE AdjointPricing ---------------------------
(***************************************************************************)
(* InstrumentPricing in the adjoint build, in which a Real is a            *)
(* cl::tape_double: a number that may also be a variable on the tape the   *)
(* thread is recording (cl::Independent to cl::tape_function).  What       *)
(* decides whether a derivative exists is which of the stored numbers are  *)
(* variables: the quotes behind the engines and the results of the         *)
(* instruments, which the lazy objects keep from one call to the next.     *)
(*                                                                         *)
(* When a recording ends, the tape's id is advanced and every variable     *)
(* becomes a parameter, so that a number needs no tape id here.  A         *)
(* recording that an exception interrupts goes on: only tape_function ends *)
(* one, and nobody starts one before.                                      *)
(***************************************************************************)
EXTENDS InstrumentPricing

VARIABLES
    recording,      \* AD<Base>::tape_ptr() # CPPAD_NULL
    taped,          \* Variable(value_) for the quotes behind each engine
    derived         \* Variable(NPV_) for each instrument

tape == <<recording, taped, derived>>
adjointVars == <<vars, tape>>

AdjointInit ==
    /\ Init
    /\ recording = FALSE
    /\ taped = [e \in Engines |-> FALSE]
    /\ derived = [i \in Instruments |-> FALSE]

-----------------------------------------------------------------------------
\* cl::Independent(x): the elements of x are variables now, what was copied
\* from them before is not
Independent ==
    /\ ~recording /\ recording' = TRUE
    /\ UNCHANGED <<vars, taped, derived>>

\* cl::tape_function f(x, y): Dependent() takes the derivatives of y and gives
\* the tape up
Dependent ==
    /\ recording /\ recording' = FALSE
    /\ taped' = [e \in Engines |-> FALSE]
    /\ derived' = [i \in Instruments |-> FALSE]
    /\ UNCHANGED vars

\* fault: the number is stored before it is known to be another one
SetValueAnyway(e, q, independent) ==
    /\ independent => recording
    /\ IF q = market[e]
         THEN UNCHANGED vars
         ELSE ChangeMarket(e, q)
    /\ taped' = [taped EXCEPT ![e] = independent]
    /\ UNCHANGED <<recording, derived>>

\* SimpleQuote::setValue() with an element of x or with a plain number; a
\* variable that equals the present value is not stored
SetValue(e, q, independent) ==
    /\ independent => recording
    /\ ChangeMarket(e, q)
    /\ taped' = [taped EXCEPT ![e] = independent]
    /\ UNCHANGED <<recording, derived>>

\* whether the NPV_ of i is a variable after its calculate(): results are
\* computed from the quotes, setupExpired() stores a plain zero
Differentiable(i, wasCalculated, isFrozen) ==
    IF isExpired(i) THEN FALSE
    ELSE IF wasCalculated \/ isFrozen \/ Throws(i) THEN derived[i]
    ELSE taped[engine[i]]

InspectTaped(i) ==
    /\ Inspect(i)
    /\ derived' = [derived EXCEPT ![i] = Differentiable(i, calculated[i], frozen[i])]
    /\ UNCHANGED <<recording, taped>>

RecalculateTaped(i) ==
    /\ Recalculate(i)
    /\ derived' = [derived EXCEPT ![i] = Differentiable(i, FALSE, FALSE)]
    /\ UNCHANGED <<recording, taped>>

\* the calls that move no numbers
Untaped ==
    /\ \/ \E d \in Dates : MoveDate(d)
       \/ \E i \in Instruments, e \in Engines \cup {None} : SetPricingEngine(i, e)
       \/ \E i \in Instruments : Freeze(i) \/ Unfreeze(i)
       \/ DeferUpdates
       \/ EnableUpdates
    /\ UNCHANGED tape

AdjointNext ==
    \/ Independent
    \/ Dependent
    \/ \E e \in Engines, q \in Quotes \cup {Bad}, independent \in BOOLEAN :
          SetValue(e, q, independent)
    \/ \E i \in Instruments : InspectTaped(i) \/ RecalculateTaped(i)
    \/ Untaped

AdjointSpec == AdjointInit /\ [][AdjointNext]_adjointVars

-----------------------------------------------------------------------------
\* A result the flag vouches for is a variable exactly if the quotes it was
\* computed from are, so that a recording neither misses the derivative of a
\* cached result nor has one the quotes no longer carry; no number is a
\* variable once its tape is gone (simplequote.hpp:65-72, instrument.hpp:
\* 148-184, tape_link.hpp:288-302).
DerivativesCurrent ==
    /\ \A i \in Instruments :
          calculated[i] /\ ~isExpired(i) =>
              Awaited(i) \/ (engine[i] # None /\ derived[i] = taped[engine[i]])
    /\ ~recording =>
          (\A e \in Engines : ~taped[e]) /\ (\A i \in Instruments : ~derived[i])
=============================================================================
