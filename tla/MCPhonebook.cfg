SPECIFICATION Spec
CONSTANTS
    Clients = {"t1", "t2"}
    Main = "main"
    Books = {"b1"}
    UIs = {"u"}
    Providers = {"r1", "r2"}
    ProviderOf <- Separate
    FormatOf <- MCFormatOf
    Symbols <- MCSymbols
    SymbolMap <- MCSymbolMap
    Accepts <- MCAccepts
    Files <- MCFiles
    Ttl = 1
    MinTtl = 1
    MaxTime = 3
    MaxVersion = 2
INVARIANTS
    TypeOK
    MatchIsRight
PROPERTIES
    StaleAtMostTtl
    NeverOlder
    MutexIsReleased
