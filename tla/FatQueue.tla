------------------------------ MODULE FatQueue ------------------------------
(***************************************************************************)
(* What fat UDP promises, without the pointers: every packet sent waits in *)
(* a queue to be sent again, first come first served, and moves to the     *)
(* next queue each time it is, until it falls off the last.  A packet is   *)
(* in one place at a time, and what is sent or sent again waits apart      *)
(* until the transmission has left.                                        *)
(***************************************************************************)
EXTENDS Naturals, Sequences

CONSTANTS Packets, Depth

VARIABLES
  queue,  \* queue[l]: the packets that have been sent again l times
  later   \* later[l]: the packets that will join queue[l]

Lists == 0 .. Depth - 1
Place(s, o) == CHOOSE i \in 1 .. Len(s) : s[i] = o
Without(s, o) ==
  IF \A i \in 1 .. Len(s) : s[i] # o THEN s
  ELSE [i \in 1 .. Len(s) - 1 |-> s[IF i < Place(s, o) THEN i ELSE i + 1]]
Nothing == [l \in Lists |-> <<>>]

Init == queue = Nothing /\ later = Nothing

(* A new value of o: its old place is given up. *)
Send(o) ==
  /\ \A l \in Lists : \A i \in 1 .. Len(later[l]) : later[l][i] # o
  /\ queue' = [l \in Lists |-> Without(queue[l], o)]
  /\ later' = [later EXCEPT ![0] = Append(@, o)]

SendAgain(l, o) ==
  /\ \E i \in 1 .. Len(queue[l]) : queue[l][i] = o
  /\ queue' = [queue EXCEPT ![l] = Without(@, o)]
  /\ later' = IF l + 1 = Depth THEN later
              ELSE [later EXCEPT ![l + 1] = Append(@, o)]

Merge(l) ==
  /\ queue' = [queue EXCEPT ![l] = @ \o later[l]]
  /\ later' = [later EXCEPT ![l] = <<>>]

Reset == queue' = Nothing /\ later' = Nothing

Next ==
  \/ \E o \in Packets : Send(o) \/ \E l \in Lists : SendAgain(l, o)
  \/ \E l \in Lists : Merge(l)
  \/ Reset

Spec == Init /\ [][Next]_<<queue, later>>

=============================================================================
