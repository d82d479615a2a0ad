\* The same, for what is not so.
SPECIFICATION Spec
CONSTANTS
    ValueOf <- Words
    IntMax = 3
    LongMax = 10
    Symbols <- Texts
    CommandLines <- SomeCommandLines
CHECK_DEADLOCK FALSE
INVARIANT
    FileGiven
