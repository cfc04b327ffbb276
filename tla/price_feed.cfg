SPECIFICATION FairSpec
CONSTANTS
    c1 = c1
    None = None
    Calls = {c1}
    Window = 1
    Delay = 1
    MaxCrossed = 1
    MaxCrashes = 1
INVARIANTS
    TypeOK
    OneSocketPerStream
    SomebodyReconnects
    QuoteIsRecent
PROPERTIES
    StreamsComeBack
