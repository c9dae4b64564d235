SPECIFICATION Spec
CONSTANTS
    r1 = r1
    r2 = r2
    r3 = r3
    p1 = p1
    p2 = p2
    lima = lima
    oslo = oslo
    nobody = nobody
    none = none
    Procs = {p1, p2}
    Requests = {r1, r2, r3}
    Invocations <- MCInvocations
    Sessions = {lima, oslo}
    Default = lima
    NoSession = none
    Topic <- MCTopic
    Blank = {"blank"}
    Flagged = {"probe"}
    Window = 2
    MaxStops = 1
    Nobody = nobody
SYMMETRY MCSymmetry
CHECK_DEADLOCK FALSE
INVARIANTS
    HostedTypeOK
    AnswersAreDurable
    TurnsInOrder
    NoStrayTurns
    FollowUpsKnow
    PlatformSessionsApart
