---------------------------- MODULE MCWaitQueue ----------------------------
EXTENDS WaitQueue, TLC

CONSTANTS a, b, c, r, s

\* a, b and c come and queue; r and s hold the slots at the start.
Three == {a, b, r}
Four == {a, b, c, r}
Alike == Permutations({a, b, c})
Nobody == {}

Neither3 == [p \in Three |-> "NEITHER"]
Neither4 == [p \in Four |-> "NEITHER"]
Seat3 == [p \in Three |-> IF p = r THEN 0 ELSE NoSlot]
Seat4 == [p \in Four |-> IF p = r THEN 0 ELSE NoSlot]

\* A league match: s plays for AWAY, everybody else for HOME.
League4 == {a, b, r, s}
Sides4 == [p \in League4 |-> IF p = s THEN "AWAY" ELSE "HOME"]
SeatL == [p \in League4 |-> IF p = s THEN 0 ELSE IF p = r THEN 1 ELSE NoSlot]
=============================================================================
