SPECIFICATION IndexSpec
CONSTANTS
    DocIds = {1}
    Titles <- MCTitles
    Bodies <- MCBodies
    PageIds = {1, 4}
    PageBytes <- MCPageBytes
    NodeIds = {1}
    Values = {7}
    SnapshotIds = {1}
    MaxEpoch = 2
    FieldLists <- MCFieldLists
    RowSizes = {1, 2}
    RowLimit = 2
    FieldLimit = 2
    Word = 8
    LinkTables <- MCLinkTables
    LinkLimit = 2
    WordLimit = 3
    WordBits = 2
    HashLimit = 2
    SlotFor <- MCSlotFor
    Seeds = {0, 1}
    LinkWord <- MCLinkWord
    BodyPrefix = 2
    PagePrefix = 2
    TextLimit = 4
    SampleLimit = 2
    ProbeLimit = 2
    ProbeTrim = 2
    ProbeTexts <- MCProbeTexts
    BloomPlans <- MCBloomPlans
    Radix = 2
    StrideLimit = 2
    LevelLimit = 3
    IndexPlans <- MCIndexPlans
    Needles = {0, 5, 15}
    PlanLimit = 20
    Modes = {"mixed", "pages", "none"}
    Budgets = {5, 20}
    RunLimit = 2
    BlockSizes = {0, 2}
    Dash = 0
    EmitLimit = 2
    EmitCounts = {1, 3}
    MaxCommands = 5
INVARIANTS
    ReadsInside
    NoFalseNegatives
    SeekTellsPlace
    PlanWithinBudget
    PackLossless
    TokensCounted
\* A fatal outcome ends a journal, and so does its last command.
CHECK_DEADLOCK FALSE
