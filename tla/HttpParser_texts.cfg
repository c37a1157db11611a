\* Requests of every shape, intact and with one character damaged.  A text ends:
\* the parser waits for no more.
SPECIFICATION Spec
CONSTANTS
    Words <- MCWords
    Names <- MCNames
    Texts <- MCTexts
INVARIANTS RoundTrip CompleteIsFramed
CHECK_DEADLOCK FALSE
