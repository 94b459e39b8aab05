SPECIFICATION FairSpec
CONSTANTS
    Users = {"t1", "t2"}
    Uses <- TheUses
    StartupUses = {}
    Late = {}
    MaxCalls = 5
    Listeners = {"a", "b", "c"}
    Leaves = {"self", "passed"}
    MaxRaises = 2
    LeavesNested = FALSE
    Observed = {"o"}
    MaxObservables = 2
    MaxEventSteps = 7
    Piece = 2
    Numbers = {0, 258}
    ArchivedTexts <- TheTexts
    Octets = {32, 200}
    Rooms = {1000, 3}
    Depth = 3
    ArchiveOddities = {}
    MessageNames <- TheNames
    MessageOddities = {}
    Lengths = {"1", "bad"}
    FieldWords = {"u", "v"}
    HeadLines = 2
    HeadSteps = 3
    Limit = 8
    Ranges <- TheRanges
    Reasons = {"OK"}
    Methods = {"GET", "PUT"}
    HeadOddities = {}
    TextLines <- TheLines
    TextLength = 4
    MaxSections = 3
    SdpSteps = 4
    SdpOddities = {}
    Nodes <- TheNodes
    MaxNodes = 2
    MaxViewed = 1
    MaxRows = 2
    MaxSessions = 2
    TableWidth = 2
    ViewOddities = {}
    Absent = Absent
INVARIANTS
    ModulesAreOne
    EventsMeetAll
    FormatsKeep
    TextsAsTold
    ViewsAnswer
PROPERTIES
    RegistryCallsReturn
CHECK_DEADLOCK FALSE
