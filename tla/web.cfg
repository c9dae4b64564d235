SPECIFICATION WebSpec
CONSTANTS
    r1 = r1  r2 = r2  r3 = r3
    i1 = i1  i2 = i2
    lima = lima  oslo = oslo
    Requests = {r1, r2, r3}
    Jobs = {i1, i2}
    Sessions = {lima}
    Questions <- MCQuestions
    Topic <- MCTopic
    Texts = {"text"}
    Keep = 4
    Documents = {"doc"}
    MaxChecks = 0
    MaxStops = 1
    Nothing = Nothing
SYMMETRY RequestAndJobSymmetry
CHECK_DEADLOCK FALSE
INVARIANTS
    WebTypeOK PageFollowsMemory IngestedIsSeen NothingTypedIsLost
