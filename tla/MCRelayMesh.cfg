CONSTANTS
    Nodes <- MCNodes
    Relays <- MCRelays
    Identities <- MCIdentities
    BootstrapOf <- MCBootstrap
    LinkedAtStart <- MCLinked
    UpAtStart <- MCUp
    KnownAtStart <- MCKnown
    IdentityOf <- MCIdentityOf
    Asks <- MCAsks
    Diagnoses <- MCDiagnoses
    HintLife = 2
    RecordLife = 2
    PerIdentity = 2
    GlobalMax = 2
    ExchangeMax = 1
    RecordsMax = 2
    StoredMax = 2
    FanOut = 3
    QueryLimit = 2
    QueryTtl = 2
    QueryTimeout = 1
    ResolveTimeout = 1
    Starts <- MCStarts
SPECIFICATION Spec
INVARIANT GroupsAreExact
PROPERTIES HeadsNeverRegress EveryQueryEnds
CHECK_DEADLOCK FALSE
