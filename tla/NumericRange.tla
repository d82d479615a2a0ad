---------------------------- MODULE NumericRange ----------------------------
(***************************************************************************)
(* HumanReadable::NumericRange and NumericRangeList, and the numbers they  *)
(* are made of.  A text is a sequence of symbols, of which a word stands   *)
(* for all the characters up to the next separator; a word of digits is    *)
(* one of DOMAIN ValueOf.                                                  *)
(***************************************************************************)
EXTENDS Integers, Sequences, FiniteSets, FiniteSetsExt

CONSTANTS
    ValueOf,        \* words of digits and their values
    IntMax,         \* the most an int holds
    LongMax         \* the most a qint64 holds

ASSUME NumbersAssumption ==
    /\ ValueOf \in [DOMAIN ValueOf -> Nat]
    /\ IntMax \in Nat /\ LongMax \in Nat /\ IntMax <= LongMax

\* Symbols that separate.
Comma == ","
Colon == ":"
Minus == "-"

Places(text, symbol) == {i \in DOMAIN text : text[i] = symbol}
Has(text, symbol)    == Places(text, symbol) # {}

\* Where the next such symbol is, from a position on; behind the end if there is none.
NextAt(text, symbol, from) ==
    Min({i \in from .. Len(text) : text[i] = symbol} \cup {Len(text) + 1})

At(text, symbol) == NextAt(text, symbol, 1)

-----------------------------------------------------------------------------
(***************************************************************************)
(* numericConverter, for int and qint64, which differ in what they hold.   *)
(***************************************************************************)
Digits(text) == IF text # <<>> /\ text[1] = Minus THEN Tail(text) ELSE text

IsNumber(text, max) ==
    /\ Len(Digits(text)) = 1
    /\ Digits(text)[1] \in DOMAIN ValueOf
    /\ ValueOf[Digits(text)[1]] <= max

Number(text) ==
    IF text[1] = Minus THEN -ValueOf[text[2]] ELSE ValueOf[text[1]]

-----------------------------------------------------------------------------
(***************************************************************************)
(* A range.  A bound it does not have is not read.                         *)
(***************************************************************************)
Everything == [hasLowerBound |-> FALSE, lowerBoundValue |-> 0,
               hasUpperBound |-> FALSE, upperBoundValue |-> 0]

SetLowerBound(range, n) == [range EXCEPT !.hasLowerBound = TRUE, !.lowerBoundValue = n]
SetUpperBound(range, n) == [range EXCEPT !.hasUpperBound = TRUE, !.upperBoundValue = n]

\* Where the parts of a text begin: at the beginning, and behind each such symbol.
Begins(text, symbol) ==
    LET begin[k \in 0 .. Cardinality(Places(text, symbol))] ==
          IF k = 0 THEN 1 ELSE NextAt(text, symbol, begin[k - 1]) + 1
    IN  begin

\* QString::split, which keeps empty parts.
Split(text, symbol) ==
    LET begin == Begins(text, symbol)
    IN  [k \in 1 .. Cardinality(Places(text, symbol)) + 1 |->
           SubSeq(text, begin[k - 1], NextAt(text, symbol, begin[k - 1]) - 1)]

\* fromString.  It may fail, and a minus sign always separates.
IsRange(text) ==
    LET bounds == Split(text, Minus)
    IN  \/ Len(bounds) = 1 /\ IsNumber(text, IntMax)
        \/ Len(bounds) = 2 /\ \A k \in 1 .. 2 : bounds[k] = <<>> \/ IsNumber(bounds[k], IntMax)

\* Mutant of FromString: a single number is a lower bound only.
FromStringOpen(text) ==
    LET bounds == Split(text, Minus)
    IN  IF bounds[1] = <<>> THEN Everything ELSE SetLowerBound(Everything, Number(bounds[1]))

FromString(text) ==
    LET bounds == Split(text, Minus)
        from   == bounds[1]
        to     == bounds[Len(bounds)]
        lower  == IF from = <<>> THEN Everything ELSE SetLowerBound(Everything, Number(from))
    IN  IF to = <<>> THEN lower ELSE SetUpperBound(lower, Number(to))

Compare(range, value) ==
    CASE ~range.hasLowerBound /\ ~range.hasUpperBound -> 0
      [] ~range.hasLowerBound /\ range.hasUpperBound  ->
           IF value <= range.upperBoundValue THEN 0 ELSE 1
      [] range.hasLowerBound /\ ~range.hasUpperBound  ->
           IF range.lowerBoundValue <= value THEN 0 ELSE -1
      [] range.hasLowerBound /\ range.hasUpperBound   ->
           IF ~(range.lowerBoundValue <= value) THEN -1
           ELSE IF ~(value <= range.upperBoundValue) THEN 1 ELSE 0

\* A list without ranges is no filter at all.
Matches(ranges, value) ==
    ranges = <<>> \/ \E i \in DOMAIN ranges : Compare(ranges[i], value) = 0
=============================================================================
