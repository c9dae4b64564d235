SPECIFICATION FairSpec
CONSTANTS
    r1 = r1  r2 = r2  r3 = r3  r4 = r4
    i1 = i1  i2 = i2  i3 = i3
    s1 = s1  s2 = s2
    Requests = {r1, r2}
    Ingests = {i1, i2, i3}
    Sessions = {s1}
    Queries = {"What is", "Compare"}
    Norm <- MCNorm
    Factual <- MCFactual
    Reasoning <- MCReasoning
    Flagged = {"Compare"}
    Docs <- ThirdIsEmpty
    CheapModel = "cheap"
    StrongModel = "strong"
    GuardsOn = TRUE
    UseRag = {TRUE}
    AnswerTexts = {"clean", "pii"}
    Window = 2
    MaxTurns = 4
    TTL = 0
    MaxNow = 1
    TopK = 2
    BlockingProvider = FALSE
    Idle = Idle
CHECK_DEADLOCK FALSE
INVARIANTS
    FreshReflectsAcknowledged NoRawPII
PROPERTIES
    AllAnswered
