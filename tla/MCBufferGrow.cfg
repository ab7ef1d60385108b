SPECIFICATION BytesSpec
CONSTANTS
    a = a
    d = d
    NL = d
    NUL = NUL
    Junk = Junk
    NoToken = NoToken
    Bytes <- TwoBytes
    Delims <- OneDelim
    Strings <- SomeStrings
    InitCap = 3
    MaxCap = 5
    Texts <- SomeTexts
    Numbers <- SomeNumbers
    Rounded <- RoundedNumbers
    MaxSize = 3
    Garbage <- SomeGarbage
PROPERTIES
    EnsureCapFits
\* An assertion of the code ends the program.
CHECK_DEADLOCK FALSE
