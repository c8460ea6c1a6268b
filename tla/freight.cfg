SPECIFICATION Spec
CONSTANTS
    Package = {k1}
    NoPackage = NoPackage
    Price = {0, 1, 2}
    Days = {1, 2}
    NoDays = NoDays
    ExtraDays = 1
    Life = {0, 2, 4}
    NoToken = NoToken
    Margin = 2
    MinLife = 1
    UnreadLife = 2
    AbsentLife = 9
    QuoteLife = 4
    NoQuote = NoQuote
    MaxCalc = 1
    MaxLogins = 2
    MaxTime = 5
SYMMETRY Symmetry
INVARIANTS RefusalIsExplained TokenOutlivesRequest BestIsCheapest QuoteIsRecent
PROPERTIES LoginsAreSpaced
CHECK_DEADLOCK FALSE
