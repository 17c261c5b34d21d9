SPECIFICATION Spec
CONSTANTS
    MaxHeaders = 4
    MaxTrailers = 2
    MaxBody = 20
    Others <- MCOthers
    Canonical <- MCCanonical
    NotDecimal = NotDecimal
    MaxDigits = 3
INVARIANTS TypeOK BodyBounded SizeIsValue BodyIsWhole
PROPERTIES ParserReturns
