SPECIFICATION Spec

\* 64 instants instead of 2^64, 4 units in a second, and a DWORD of three bits.
CONSTANTS
    Modulus = 64
    Resolution = 4
    DwordModulus = 8

\* Two custom handlers and no more than three overrides at a time.
    Handlers = {"h1", "h2"}
    NullHandler = "null"
    NoHandler = "stderr"
    MaxOverrides = 3

    Tracers <- MCTracers
    Parent <- MCParent
    MaxCalls = 2

    Threads = {"t", "u"}
    NoThread = "none"
    Locals <- MCLocals
    Objects = {"x", "y"}
    NoObject = "none"
    InitPtr <- MCInitPtr

    Jobs = {"i", "j"}
    MaxSubmissions = 4

    Methods = {"header", "body"}
    Inputs <- MCInputs
    Delimiters <- MCDelimiters
    Counts = {0, 2}

    Items = 3
    MaxIterators = 3

    Processes = {1, 2}
    SandboxPath <- MCSandboxPath
    FileNames = {"f"}

    Tests <- MCTests
    Masks <- MCMasks
    MaxDepth = 3
    MaxFailures = 2

    Names = {"null", "a", "b"}
    NullName = "null"

    Owners = {"f", "g", "h"}
    Caller = "caller"
    Fds = {3, 4}

\* An algorithm ends with its input, and programs end.
CHECK_DEADLOCK FALSE

INVARIANTS
    NestedOverridesRestore
    CallsAreReportedWhole
    ObjectsLiveWhileHeld
    JobsRunInOrder
    ElementsAreGivenOnce
    SandboxesAreIsolated
    FailuresAreCounted
    SymbolsAreNames
    OwnersCloseTheirs
    WaitsGetWhatIsLeft

PROPERTIES
    StepsGetWhatTheyWaitFor
    WrittenIsReadBack
    TextsAreDividedWhole
    StructuresAreWalkedWhole
