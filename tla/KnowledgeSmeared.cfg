SPECIFICATION KnowledgeSpec
CONSTANTS
    k1 = k1
    k2 = k2
    k3 = k3
    d1 = d1
    lesson = lesson
    other = other
    rule1 = rule1
    rule2 = rule2
    Derived = Derived
    OptOut = OptOut
    None = None
    Null = Null
    Keys = {k1, k2, k3}
    Consumers = {d1}
    Bodies = {lesson, other}
    Writes <- KeylessWrites
    Links <- MCLinks
    Queries <- MCQueries
    Readers = {r1, r2}
    MaxDay = 1
    MaxNodes = 3
    MaxEdges = 4
    MaxRecalls = 2
    Strategies = {s1}
    Playbooks = {"p1", "p2"}
    Reflections = {"n1"}
    Texts = {lesson, other}
    Decisions = {d1}
    decisionRow <- MCRow
    Rules = {rule1, rule2}
    predicate <- MCPredicate
    CallKeys = {k1, k2, k3}
    Proposals <- MCProposals
    Reports <- MCReports
    Attachments <- MCAttachments
    MaxVersions = 2
    MaxUpdates = 3
    MaxLinks = 2
CHECK_DEADLOCK FALSE
INVARIANTS
    LessonsAreKept
