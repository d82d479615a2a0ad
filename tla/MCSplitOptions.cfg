\* Descriptions of every kind of field, sound or not, in every order.
SPECIFICATION Spec
CONSTANTS
    Symbols <- Texts
    ValueOf <- Words
    IntMax = 3
    LongMax = 10
    CommandLines <- SomeCommandLines
\* The program ends, or runs.
CHECK_DEADLOCK FALSE
INVARIANTS
    ReadAsWritten
    FiltersAsWritten
