SPECIFICATION Spec
CONSTANTS
    Clients = {"t1", "t2"}
    Main = "main"
    Books = {"b1", "b2"}
    UIs = {"u"}
    Providers = {"r1", "r2"}
    ProviderOf <- Shared
    FormatOf <- MCFormatOf
    Symbols <- MCSymbols
    SymbolMap <- MCSymbolMap
    Accepts <- MCAccepts
    Files <- MCSharedFiles
    Ttl = 1
    MinTtl = 1
    MaxTime = 1
    MaxVersion = 0
INVARIANTS
    MatchIsRight
