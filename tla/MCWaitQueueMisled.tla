-------------------------- MODULE MCWaitQueueMisled --------------------------
(***************************************************************************)
(* One schedule of WaitQueue, second by second: who makes its pass, and in *)
(* which order, and who dies.  Every behaviour of it is one of WaitQueue.  *)
(*                                                                         *)
(* a and b die while their numbers are being served.  c has just put its   *)
(* question up when it takes a for dead and naps, and when e takes b for   *)
(* dead c naps once more, so that c's question is still up the ninth time  *)
(* that d sees it.  d takes it down, e puts up its own, and c reads and    *)
(* takes down that one.  Nobody answers e, who reads that nobody is ahead  *)
(* of it, while d is.                                                      *)
(***************************************************************************)
EXTENDS WaitQueue, Sequences

CONSTANTS a, b, c, d, e, r

Six == {a, b, c, d, e, r}
Nobody == {}
Neither6 == [p \in Six |-> "NEITHER"]
Seat6 == [p \in Six |-> IF p = r THEN 0 ELSE NoSlot]

VARIABLE todo   \* what is left of the schedule

Second(passes) ==
  [j \in 1 .. Len(passes) |-> <<passes[j], "pass">>] \o << <<NoProc, "tick">> >>
Dies(p) == << <<p, "dies">> >>

Schedule ==
     << <<a, "pass">> >> \o Dies(a)
  \o Second(<<b>>)          \o Second(<<b, c, r>>)
  \o Second(<<d, c, b, e>>) \o Second(<<b, d, c, e>>)
  \o Second(<<d, b, e, c>>) \o Second(<<d, c, e, b>>)
  \o << <<c, "pass">>, <<e, "pass">>, <<d, "pass">>, <<b, "pass">> >> \o Dies(b)
  \o Second(<<>>)
  \o Second(<<e, d>>)       \o Second(<<d, e, c>>)
  \o Second(<<d, c, e>>)    \o Second(<<d, c, e>>)
  \o Second(<<e, c, d>>)    \o Second(<<d>>)
  \o Second(<<c, d, e>>)    \o Second(<<d, e, c>>)
  \o Second(<<c, e, d>>)    \o Second(<<e, c, d>>)
  \o Second(<<c, e, d>>)    \o Second(<<e>>)

InitScheduled == Init /\ todo = Schedule

NextScheduled ==
  /\ todo # <<>>
  /\ LET p == Head(todo)[1]
         what == Head(todo)[2]
     IN  \/ /\ what = "pass"
            /\ Run(p) \/ Arrive(p) \/ Leave(p)
            /\ todo' = IF pc'[p] \in Resting THEN Tail(todo) ELSE todo
         \/ what = "dies" /\ Crash(p) /\ todo' = Tail(todo)
         \/ what = "tick" /\ Tick /\ todo' = Tail(todo)

SpecScheduled == InitScheduled /\ [][NextScheduled]_<<vars, todo>>
=============================================================================
