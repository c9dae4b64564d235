--------------------------- MODULE TurnListProofs ---------------------------
(* What a prompt is given of a session's turns: the end of them. *)
EXTENDS TurnLists, SequenceTheorems, TLAPS

\* list is what is left of turns without the first d.
EndOf(list, turns, d) ==
    /\ Len(list) = IF d <= Len(turns) THEN Len(turns) - d ELSE 0
    /\ \A k \in 1..Len(list) : list[k] = turns[k + d]

\* Whatever the window, the slice is an end of the turns; a window of w > 0 turns is kept
\* to, a shorter slice is all there is, and so is that of a window of no turns.
LEMMA LastTurnsIsAnEnd ==
    ASSUME NEW T, NEW turns \in Seq(T), NEW w \in Int
    PROVE  /\ LastTurns(turns, w) \in Seq(T)
           /\ \E d \in Nat :
                 /\ EndOf(LastTurns(turns, w), turns, d)
                 /\ w > 0 => /\ Len(LastTurns(turns, w)) <= w
                             /\ Len(LastTurns(turns, w)) < w => d = 0
                 /\ w = 0 => d = 0
<1>1. Len(turns) \in Nat /\ \A n \in 1..Len(turns) : turns[n] \in T
  BY LenProperties, ElementOfSeq
<1>2. ASSUME NEW d \in Nat
      PROVE  /\ SubSeq(turns, d + 1, Len(turns)) \in Seq(T)
             /\ EndOf(SubSeq(turns, d + 1, Len(turns)), turns, d)
  <2> DEFINE list == SubSeq(turns, d + 1, Len(turns))
  <2>1. d + 1 \in Int /\ Len(turns) \in Int /\ \A n \in (d + 1)..Len(turns) : turns[n] \in T
    BY <1>1
  <2>2. /\ list \in Seq(T)
        /\ Len(list) = IF d + 1 <= Len(turns) THEN Len(turns) - (d + 1) + 1 ELSE 0
        /\ \A k \in 1..(Len(turns) - (d + 1) + 1) : list[k] = turns[(d + 1) + k - 1]
    BY <2>1, SubSeqProperties
  <2> HIDE DEF list
  <2>3. Len(list) = IF d <= Len(turns) THEN Len(turns) - d ELSE 0
    BY <1>1, <2>2
  <2>4. ASSUME NEW k \in 1..Len(list) PROVE list[k] = turns[k + d]
    <3>1. k \in 1..(Len(turns) - (d + 1) + 1) /\ (d + 1) + k - 1 = k + d
      BY <1>1, <2>3
    <3> QED BY <2>2, <3>1
  <2>5. list \in Seq(T) /\ EndOf(list, turns, d)
    BY <2>2, <2>3, <2>4 DEF EndOf
  <2> QED BY <2>5 DEF list
<1>3. CASE w > 0 /\ Len(turns) <= w
  <2>1. LastTurns(turns, w) = turns
    BY <1>3 DEF LastTurns
  <2>2. EndOf(turns, turns, 0)
    BY <1>1 DEF EndOf
  <2> QED BY <1>3, <2>1, <2>2
<1>4. CASE w > 0 /\ ~(Len(turns) <= w)
  <2> DEFINE d == Len(turns) - w
  <2>1. d \in Nat /\ LastTurns(turns, w) = SubSeq(turns, d + 1, Len(turns))
    BY <1>1, <1>4 DEF LastTurns
  <2>2. d <= Len(turns) /\ Len(turns) - d = w
    BY <1>1, <1>4
  <2> HIDE DEF d
  <2>3. EndOf(LastTurns(turns, w), turns, d) /\ LastTurns(turns, w) \in Seq(T)
    BY <1>2, <2>1
  <2>4. Len(LastTurns(turns, w)) = w
    BY <2>2, <2>3 DEF EndOf
  <2> QED BY <1>4, <2>1, <2>3, <2>4
<1>5. CASE ~(w > 0)
  <2> DEFINE d == 0 - w
  <2>1. d \in Nat /\ 1 - w = d + 1 /\ (w = 0 => d = 0)
    BY <1>5
  <2> HIDE DEF d
  <2>2. LastTurns(turns, w) = SubSeq(turns, d + 1, Len(turns))
    BY <1>5, <2>1 DEF LastTurns
  <2>3. EndOf(LastTurns(turns, w), turns, d) /\ LastTurns(turns, w) \in Seq(T)
    BY <1>2, <2>1, <2>2
  <2> QED BY <1>5, <2>1, <2>3
<1> QED BY <1>3, <1>4, <1>5

\* So it has nothing that is not a turn of the session.
LEMMA LastTurnsWithin ==
    ASSUME NEW T, NEW turns \in Seq(T), NEW w \in Int
    PROVE  /\ LastTurns(turns, w) \in Seq(T)
           /\ \A k \in DOMAIN LastTurns(turns, w) : \E i \in DOMAIN turns :
                 LastTurns(turns, w)[k] = turns[i]
<1> DEFINE list == LastTurns(turns, w)
<1>1. PICK d \in Nat : EndOf(list, turns, d)
  BY LastTurnsIsAnEnd
<1>2. list \in Seq(T)
  BY LastTurnsIsAnEnd
<1> HIDE DEF list
<1>3. /\ DOMAIN turns = 1..Len(turns) /\ Len(turns) \in Nat
      /\ DOMAIN list = 1..Len(list)
  BY <1>2, LenProperties
<1>4. ASSUME NEW k \in DOMAIN list PROVE \E i \in DOMAIN turns : list[k] = turns[i]
  <2>1. k \in 1..Len(list)
    BY <1>3
  <2>2. list[k] = turns[k + d]
    BY <1>1, <2>1 DEF EndOf
  <2>3. Len(list) = IF d <= Len(turns) THEN Len(turns) - d ELSE 0
    BY <1>1 DEF EndOf
  <2>4. k + d \in 1..Len(turns)
    <3>1. Len(turns) \in Nat
      BY <1>3
    <3> QED BY <2>1, <2>3, <3>1
  <2> QED BY <1>3, <2>2, <2>4
<1>5. list \in Seq(T) /\ \A k \in DOMAIN list : \E i \in DOMAIN turns : list[k] = turns[i]
  BY <1>2, <1>4
<1> QED BY <1>5 DEF list
=============================================================================
