\* Two servers, four sessions, one prompt and one link.
\* CHECK_DEADLOCK FALSE: the model stops when the sessions and prompts are used up.
SPECIFICATION RpcSpec
CONSTANTS
    v1 = v1
    v2 = v2
    s1 = s1
    s2 = s2
    s3 = s3
    s4 = s4
    p1 = p1
    h1 = h1
    None = None
    Servers <- TwoServers
    Sessions <- FourSessions
    Prompts <- OnePrompt
    Links <- OneLink
    Chunks = 3
    MaxAsked = 2
    MaxFailures = 1
SYMMETRY Symmetry
INVARIANTS
    AnswersFollowQuestions
    StreamDelivered
    HandoffsComplete
CHECK_DEADLOCK FALSE
