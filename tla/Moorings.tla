------------------------------ MODULE Moorings ------------------------------
(***************************************************************************)
(* What docking promises, without the fields that implement it: a ship is  *)
(* moored at one port of one base at most, a port holds one ship, and a    *)
(* ship that takes a port takes a free one.                                *)
(***************************************************************************)
CONSTANTS Ships, Berths, Adrift

VARIABLE berth

Init == berth = [p \in Ships |-> Adrift]

(* Any number of ships leave: bases cast off several at once. *)
CastOff(Left) == berth' = [p \in Ships |-> IF p \in Left THEN Adrift ELSE berth[p]]

(* A ship comes to a free port, from space or from another port. *)
Moor(p, b) ==
  /\ \A q \in Ships \ {p} : berth[q] # b
  /\ berth' = [berth EXCEPT ![p] = b]

Next ==
  \/ \E Left \in SUBSET Ships : CastOff(Left)
  \/ \E p \in Ships, b \in Berths : Moor(p, b)

Spec == Init /\ [][Next]_berth

=============================================================================
