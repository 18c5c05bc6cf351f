------------------------------ MODULE SlotPool ------------------------------
(***************************************************************************)
(* What ntserv/findslot.c promises to the rest of the server: the player   *)
(* slots are a pool, a process sits in one slot at most, and no slot is    *)
(* given to a process while another process sits in it.                    *)
(***************************************************************************)
EXTENDS Integers

CONSTANTS Procs, Slots, NoSlot

VARIABLE seat

Empty(i) == \A p \in Procs : seat[p] # i

Init ==
  /\ seat \in [Procs -> Slots \cup {NoSlot}]
  /\ \A p, q \in Procs : p # q /\ seat[p] = seat[q] => seat[p] = NoSlot

Sit(p, i) ==
  /\ seat[p] = NoSlot
  /\ Empty(i)
  /\ seat' = [seat EXCEPT ![p] = i]

Rise(p) ==
  /\ seat[p] # NoSlot
  /\ seat' = [seat EXCEPT ![p] = NoSlot]

Next == \E p \in Procs : Rise(p) \/ \E i \in Slots : Sit(p, i)

Spec == Init /\ [][Next]_seat

=============================================================================
