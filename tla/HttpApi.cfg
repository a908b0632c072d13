SPECIFICATION CliFairSpec
CONSTANTS
    shell = shell
    page = page
    Clients = {shell, page}
    Shells = {shell}
    NONE = NONE
    INFINITE = INFINITE
    DOT = DOT
    FOREIGN = FOREIGN
    NameOrder <- MCNames
    Hidden = {".tmp"}
    Audio = {"t1", "t1 ", "t2", ".tmp"}
    Trimmed <- MCTrimmed
    LibraryPaths <- MCPaths
    InitialTrees <- MCTrees
    ChangingPaths <- MCChanging
    CommandLines <- MCCommands
    Asks <- MCAsks
    MaxChanges = 1
    MaxAsks = 2
CHECK_DEADLOCK FALSE
INVARIANTS
    TypeOK
    TracksInOrder
    NothingMissed
    ListedCanBeOpened
    AnswersTellTheTruth
    EffectsAreMeant
PROPERTY
    EveryRequestIsAnswered
