CONSTANTS
    Verbs = {"GET", "POST"}
    RoutePaths <- McRoutePaths
    Targets <- McTargets
    Characters <- McCharacters
    QueryMark = "?"
    Star = "*"
    MaxRoutes = 3
    Width = 4
    Texts = {unknown}
    NoConfig = NoConfig
    Cidrs <- McCidrs
    Configs <- McConfigs
    Requests <- McRequests
    MAX_URL_LENGTH = 16
    MAX_QUERY_PARAMS = 2
    NoBody = NoBody
    Bytes <- McBytes
    MaxLength = 4
    MAX_FRAME_SIZE = 4
    MAX_MESSAGE_SIZE = 4
    Tools <- McTools
    Prompts <- McPrompts
    Resources <- McResources
    Nodes <- McNodes
    MaxDepth = 2
    ToolNames = {t1}
    Methods = {f, g}
    Missing = Missing
    NotObject = NotObject
    NotArray = NotArray
    NotString = NotString
    NoMethod = NoMethod
    MaxListed = 2
    Subjects = {"router", "access", "data", "text", "catalog"}
SPECIFICATION Spec
INVARIANTS
    ListsDecide
    RequestUnderstood
    TextAccepted
    SoundAreListed
PROPERTY
    AnswersKept
CHECK_DEADLOCK FALSE
