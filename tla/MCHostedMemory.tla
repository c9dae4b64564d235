--------------------------- MODULE MCHostedMemory ---------------------------
EXTENDS HostedMemory, TLC

CONSTANTS r1, r2, r3, p1, p2, lima, oslo, nobody, none

\* Two topics; a question of white space, and one the guards report.
MCTopic == [plan |-> "plans", plans |-> "plans", ship |-> "ships", blank |-> "", probe |-> "probe"]

Http(query, payload) == [via |-> "http", query |-> query, payload |-> payload, context |-> none]

Runtime(query, payload, context) ==
    [via |-> "runtime", query |-> query, payload |-> payload, context |-> context]

\* With and without a session id, on one channel and the other; the first two of the
\* platform are different sessions, of which one sends the other's id in its payload.
MCInvocations ==
    { Http("plan", none), Http("plans", lima), Http("ship", lima),
      Runtime("ship", lima, oslo), Runtime("plan", none, lima),
      Runtime("blank", oslo, oslo), Runtime("probe", oslo, lima) }

MCSymmetry == Permutations({r1, r2, r3}) \cup Permutations({p1, p2})
=============================================================================
