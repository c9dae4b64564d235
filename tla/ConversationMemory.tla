------------------------ MODULE ConversationMemory ------------------------
(***************************************************************************)
(* app/agents/memory.py: InMemoryConversationMemory, the turns of every    *)
(* session in a deque of at most MaxTurns.  A session nobody has written   *)
(* to reads as an empty sequence, as history() returns it.                 *)
(***************************************************************************)
EXTENDS TurnLists

CONSTANTS
    Sessions,
    MaxTurns   \* max_turns, 20 in the code: an even number

ASSUME MemoryAssumption == MaxTurns \in Nat /\ MaxTurns > 0 /\ MaxTurns % 2 = 0

VARIABLE memory   \* session -> turns, oldest first

MemoryTypeOK(T) == memory \in [Sessions -> Seq(T)]

MemoryInit == memory = [s \in Sessions |-> <<>>]

\* Faulty: a plain list, which never drops a turn.
PushedUnbounded(turns, t) == Append(turns, t)

\* deque(maxlen): an append to a full deque drops the oldest turn.
Pushed(turns, t) ==
    IF Len(turns) < MaxTurns THEN Append(turns, t) ELSE Append(Tail(turns), t)

\* The two appends a finished turn makes, the user's and then the assistant's.
RememberPair(s, user, assistant) ==
    memory' = [memory EXCEPT ![s] = Pushed(Pushed(@, user), assistant)]
=============================================================================
