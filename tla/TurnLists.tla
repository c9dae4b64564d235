----------------------------- MODULE TurnLists -----------------------------
(* The slice of a session's turns that goes into a prompt, for either backend of
   app/agents/memory.py. *)
EXTENDS Integers, Sequences

\* Faulty: the slice turns[:-w], all but the newest turns.
TurnsButLast(turns, w) == SubSeq(turns, 1, Len(turns) - w)

\* The Python slice turns[-w:].  For w > 0 it is the last w turns.  -0 is 0, so
\* w = 0 keeps everything, and a negative w drops the |w| oldest turns.
LastTurns(turns, w) ==
    IF w > 0
      THEN IF Len(turns) <= w THEN turns ELSE SubSeq(turns, Len(turns) - w + 1, Len(turns))
      ELSE SubSeq(turns, 1 - w, Len(turns))
=============================================================================
