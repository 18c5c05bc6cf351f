----------------------------- MODULE Broadcast -----------------------------
(***************************************************************************)
(* What the ring of messages promises its readers: every message that is   *)
(* posted waits for every player, in one order for all.  A player is shown *)
(* whole messages that are for him, in that order and once each.  He may   *)
(* miss the messages of a whole ring when he is as slow as that, and those *)
(* that wait when he reconnects.                                           *)
(***************************************************************************)
EXTENDS Naturals, Sequences

CONSTANTS
  Players,
  Size,       \* how many messages wait for a player before he misses some
  For(_, _),  \* For(p, m): message m is for player p
  None        \* no message

VARIABLES
  waiting,  \* waiting[p]: the messages that p has not come to
  shown     \* shown[p]: the last message that p's client was sent

Init ==
  /\ waiting = [p \in Players |-> <<>>]
  /\ shown = [p \in Players |-> None]

(* When Size messages would wait they may be missed, with or without m. *)
After(q, m) ==
  {Append(q, m)} \cup {s \in {<<>>, <<m>>} : Len(q) + 1 >= Size}

(* m is one of those that the queues end with, unless all are missed. *)
Post ==
  LET before == waiting
      after == waiting'
      last == {q[Len(q)] : q \in {after[p] : p \in Players} \ {<<>>}} IN
  /\ UNCHANGED shown
  /\ \E m \in last \cup {None} : \A p \in Players : after[p] \in After(before[p], m)

Deliver(p) ==
  /\ waiting[p] # <<>> /\ For(p, Head(waiting[p]))
  /\ shown' = [shown EXCEPT ![p] = Head(waiting[p])]
  /\ waiting' = [waiting EXCEPT ![p] = Tail(@)]

(* Not for him, ignored, answered in his place, or not yet written out. *)
Skip(p) ==
  /\ waiting[p] # <<>>
  /\ waiting' = [waiting EXCEPT ![p] = Tail(@)]
  /\ UNCHANGED shown

Reconnect(p) ==
  /\ waiting' = [waiting EXCEPT ![p] = <<>>]
  /\ UNCHANGED shown

Next ==
  \/ Post
  \/ \E p \in Players : Deliver(p) \/ Skip(p) \/ Reconnect(p)

Spec == Init /\ [][Next]_<<waiting, shown>>

=============================================================================
