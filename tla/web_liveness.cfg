SPECIFICATION WebSpec
CONSTANTS
    r1 = r1  r2 = r2  r3 = r3
    i1 = i1  i2 = i2
    lima = lima  oslo = oslo
    Requests = {r1, r2}
    Jobs = {}
    Sessions = {lima}
    Questions <- MCQuestions
    Topic <- MCTopic
    Texts = {"text"}
    Keep = 2
    Documents = {}
    MaxChecks = 2
    MaxStops = 2
    Nothing = Nothing
CHECK_DEADLOCK FALSE
PROPERTIES
    BusyEnds BadgeSettles
