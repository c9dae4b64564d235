SPECIFICATION Spec
CONSTANTS
    r1 = r1  r2 = r2  r3 = r3  r4 = r4
    i1 = i1  i2 = i2  i3 = i3
    s1 = s1  s2 = s2
    Requests = {r1, r2, r3}
    Ingests = {i1}
    Sessions = {s1}
    Queries = {"What is", "what is ", "Describe", "Compare"}
    Norm <- MCNorm
    Factual <- MCFactual
    Reasoning <- MCReasoning
    Flagged = {}
    Docs <- OneDocEach
    CheapModel = "cheap"
    StrongModel = "strong"
    GuardsOn = TRUE
    UseRag = {TRUE}
    AnswerTexts = {"clean"}
    Window = 2
    MaxTurns = 4
    TTL = 1
    MaxNow = 2
    TopK = 1
    BlockingProvider = TRUE
    Idle = Idle
SYMMETRY RequestSymmetry
CHECK_DEADLOCK FALSE
INVARIANTS
    AnswerProvenance
    HitsPostdateIngests
    HitWithinTTL
    CountersAgree
PROPERTIES
    NoNeedlessGeneration
    ImplementsContract
