CONSTANTS
    Calls <- MCCalls
    MinColumns = 16
    MinWork = 250
    ProjThreshold = 8
    Word = 65536
    MaxThreads = 4
    u1 = u1
    u2 = u2
    Users <- MCUsers
    Models <- MCModels
    Tokens = {1, 2}
    MaxPrompt = 2
    Eos = 2
    MaxNew = 2
    Vectors = {1, 2}
    HiddenSize = 4
    KvSize = 2
    FfnSize = 8
    VocabSize = 10
    Layers = 2
    RowsPerWg = 4
    SharedInput = 4
    BatchLayers = 2
    MaxCalls = 3
    Samples <- MCSamples
    QuantBlock = 4
    MT11_EXPS = 10
    Letters = {0, 1, 2, 3, 9}
    Space = 3
    Vocabularies <- MCVocabularies
    Texts <- MCTexts
    MaxMatch = 3
    MaxWord = 4
    MaxPieces = 3
    MaxOut = 4
    MaxText = 5
    CoarseLogits <- MCCoarse
    Details = 1
    Candidates = 4
    TopKs = {0, 1, 2, 9}
    Slots = 4
    PayloadSize = 96
    InboxSize = 2
    Reserve = 1
    MaxCmds = 4
    Budget <- MCBudget
    LaneSize = 2
    Settings <- MCSettings
    Depth = 2
    Files <- MCFiles
    Sidecars <- MCSidecars
    MaxLoads = 3
SPECIFICATION RuntimeSpec
INVARIANTS
    ResultIsProduct
    ColumnsHaveOneOwner
    SessionIsTransformer
    SettledIsProduct
    CodecsKeepValues
    LoadIsWhole
    TokensKeepText
    BestIsChosen
    FrameIsProgram
    ReplayReproduces
\* A program that has made its calls and turns is over.
CHECK_DEADLOCK FALSE
