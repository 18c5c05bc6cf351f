-------------------------- MODULE WaitQueue_proofs --------------------------
(***************************************************************************)
(* Proofs about WaitQueue, for every number of processes and slots, when   *)
(* the passes of different processes do not interleave.                    *)
(***************************************************************************)
EXTENDS WaitQueue, FiniteSetTheorems, WellFoundedInduction, TLAPS

-----------------------------------------------------------------------------
(* Numbers, and the search for a slot. *)

(* A nonempty set of slots has a lowest and a highest element. *)
LEMMA LowestNumber ==
  ASSUME NEW S, S \subseteq Nat, S # {}
  PROVE  \E i \in S : \A j \in S : i <= j
<1> DEFINE R == {ss \in Nat \X Nat : ss[1] < ss[2]}
<1>1. IsWellFoundedOn(R, Nat)
  BY NatLessThanWellFounded DEF OpToRel
<1>2. PICK i \in S : \A j \in S : ~ (<<j, i>> \in R)
  BY <1>1, WFMin, Zenon
<1>3. ASSUME NEW j \in S, j < i
      PROVE  FALSE
  <2>1. <<j, i>> \in Nat \X Nat
    OBVIOUS
  <2>2. <<j, i>>[1] < <<j, i>>[2]
    BY <1>3
  <2> QED BY <1>2, <2>1, <2>2, Zenon
<1> QED BY <1>3

(* A nonempty set of numbers up to n has a highest element.                *)
LEMMA HighestNumber ==
  ASSUME NEW n \in Nat, NEW S, S \subseteq 0 .. n, S # {}
  PROVE  \E i \in S : \A j \in S : j <= i
<1> DEFINE T == {n - j : j \in S}
<1>1. T \subseteq Nat /\ T # {}
  <2>1. \A j \in S : j \in 0 .. n /\ n - j \in Nat
    OBVIOUS
  <2> QED BY <2>1
<1>2. PICK k \in T : \A j \in T : k <= j
  BY <1>1, LowestNumber
<1>3. PICK i \in S : k = n - i
  BY <1>2
<1>4. \A j \in S : n - i <= n - j
  BY <1>2, <1>3
<1>5. \A j \in S : j <= i
  BY <1>4
<1> QED BY <1>5

(* What the search of allocate_slot returns is a free slot, or no slot. *)
LEMMA SlotForIsFree ==
  ASSUME NEW p \in Procs
  PROVE  /\ SlotFor(p) \in Slots \cup {NoSlot}
         /\ SlotFor(p) # NoSlot => SlotFor(p) \in Slots /\ pstatus[SlotFor(p)] = "PFREE"
<1> USE WaitQueueAssumption
<1>1. FreeSlots \subseteq 0 .. NumSlots - 1 /\ OpenSlots \subseteq FreeSlots
  BY DEF FreeSlots, OpenSlots, Slots
<1>2. FreeSlots # {} => \E i \in FreeSlots : \A j \in FreeSlots : j <= i
  <2>1. NumSlots - 1 \in Nat
    OBVIOUS
  <2> QED BY <1>1, <2>1, HighestNumber
<1>3. OpenSlots # {} => \E i \in OpenSlots : \A j \in OpenSlots : i <= j
  <2>1. OpenSlots \subseteq Nat
    BY <1>1
  <2> QED BY <2>1, LowestNumber
<1>4. SlotFor(p) = NoSlot \/ SlotFor(p) \in FreeSlots
  BY <1>1, <1>2, <1>3 DEF SlotFor
<1>5. \A i \in FreeSlots : i \in Slots /\ pstatus[i] = "PFREE"
  BY DEF FreeSlots
<1> QED BY <1>4, <1>5

-----------------------------------------------------------------------------
(* Type correctness. *)

(* An assignment to one local of grabslot leaves a set of its locals. *)
LEMMA FreshLocals == Fresh \in Locals
  BY DEF Fresh, Locals, NoSlot, NoNumber, Requests

(* Setting one local to a value of its type gives locals again.            *)
LEMMA SetLocal ==
  ASSUME NEW m \in Locals
  PROVE  /\ \A x \in Slots \cup {NoSlot} : [m EXCEPT !.i = x] \in Locals
         /\ \A x \in Int : [m EXCEPT !.count = x] \in Locals
         /\ \A x \in Int : [m EXCEPT !.pseudocount = x] \in Locals
         /\ \A x \in 0..4 : [m EXCEPT !.myRequest = x] \in Locals
         /\ \A x \in Requests : [m EXCEPT !.lastRequest = x] \in Locals
         /\ \A x \in Int : [m EXCEPT !.lastNumber = x] \in Locals
         /\ \A x \in 0..9 : [m EXCEPT !.reqCount = x] \in Locals
         /\ \A x \in BOOLEAN : [m EXCEPT !.idie = x] \in Locals
         /\ \A x \in Int : [m EXCEPT !.oldwait = x] \in Locals
         /\ \A x \in 0..4 : [m EXCEPT !.waits = x] \in Locals
  BY DEF Locals

(* The types of the locals.                                                *)
LEMMA LocalTypes ==
  ASSUME NEW m \in Locals
  PROVE  /\ m.i \in Slots \cup {NoSlot}
         /\ m.count \in Int /\ m.pseudocount \in Int
         /\ m.myRequest \in 0..4
         /\ m.lastRequest \in Requests /\ m.lastNumber \in Int
         /\ m.reqCount \in 0..9
         /\ m.idie \in BOOLEAN
         /\ m.oldwait \in Int /\ m.waits \in 0..4
  BY DEF Locals

(* A step of a process moves it from label to label, and the turn with it. *)
LEMMA StepTypes ==
  ASSUME TypeOK, NEW p \in Procs, NEW l0, NEW l1 \in Resting \cup Passing,
         Step(p, l0, l1)
  PROVE  /\ pc' \in [Procs -> Resting \cup Passing]
         /\ turn' \in Procs \cup {NoProc}
  BY DEF TypeOK, Step

(* Which labels are inside a pass and which are not.                       *)
LEMMA Labels ==
  /\ \A l \in {"sleep", "nap", "nap2", "out", "in", "gone"} :
       l \in Resting /\ l \in Resting \cup Passing
  /\ \A l \in {"alloc", "claim", "load", "store", "loop", "done", "bye",
              "postdead", "ask", "postwho", "observe", "inline", "serve",
              "enter"} : l \in Passing /\ l \in Resting \cup Passing
  BY DEF Resting, Asleep, Passing

(* A step of p leads from one label to another and keeps or hands on the   *)
(* turn.                                                                   *)
LEMMA RunSteps ==
  ASSUME NEW p \in Procs, Run(p) \/ Arrive(p) \/ Quit(p) \/ Leave(p)
  PROVE  \E l0 \in Resting \cup Passing, l1 \in Resting \cup Passing : Step(p, l0, l1)
<1>1. CASE Alloc(p) BY <1>1, Labels DEF Alloc
<1>2. CASE Load(p) BY <1>2, Labels DEF Load
<1>3. CASE Store(p) BY <1>3, Labels DEF Store
<1>4. CASE ClaimAtOnce(p) BY <1>4, Labels DEF ClaimAtOnce
<1>5. CASE Enter(p) BY <1>5, Labels DEF Enter
<1>6. CASE StayAlive(p) BY <1>6, Labels DEF StayAlive
<1>7. CASE Wake(p) BY <1>7, Labels DEF Wake
<1>8. CASE Goodbye(p) BY <1>8, Labels DEF Goodbye
<1>9. CASE ReadAnswer(p) BY <1>9, Labels DEF ReadAnswer
<1>10. CASE CountDown(p) BY <1>10, Labels DEF CountDown
<1>11. CASE TestRequest(p) BY <1>11, Labels DEF TestRequest
<1>12. CASE Post(p) BY <1>12, Labels DEF Post
<1>13. CASE SeeNothing(p) BY <1>13, Labels DEF SeeNothing
<1>14. CASE SeeAgain(p) BY <1>14, Labels DEF SeeAgain
<1>15. CASE SeeNew(p) BY <1>15, Labels DEF SeeNew
<1>16. CASE InLine(p) BY <1>16, Labels DEF InLine
<1>17. CASE Continue(p) BY <1>17, Labels DEF Continue
<1>18. CASE Served(p) BY <1>18, Labels DEF Served
<1>19. CASE ClaimInTurn(p) BY <1>19, Labels DEF ClaimInTurn
<1>20. CASE Lurk(p) BY <1>20, Labels DEF Lurk
<1>21. CASE NapOver(p) BY <1>21, Labels DEF NapOver
<1>22. CASE Arrive(p) BY <1>22, Labels DEF Arrive
<1>23. CASE Quit(p) BY <1>23, Labels DEF Quit
<1>24. CASE Leave(p) BY <1>24, Labels DEF Leave
<1> QED BY <1>1, <1>2, <1>3, <1>4, <1>5, <1>6, <1>7, <1>8, <1>9, <1>10, <1>11, <1>12, <1>13, <1>14, <1>15, <1>16, <1>17, <1>18, <1>19, <1>20, <1>21, <1>22, <1>23, <1>24 DEF Run

(* It keeps the type of pc and turn.                                       *)
LEMMA RunTypes ==
  ASSUME TypeOK, NEW p \in Procs, Run(p) \/ Arrive(p) \/ Quit(p) \/ Leave(p)
  PROVE  /\ pc' \in [Procs -> Resting \cup Passing]
         /\ turn' \in Procs \cup {NoProc}
  BY RunSteps, StepTypes

(* An action changes the locals of its process alone. *)
LEMMA RunLocals ==
  ASSUME TypeOK, NEW p \in Procs, Run(p) \/ Arrive(p) \/ Quit(p) \/ Leave(p)
  PROVE  \E m \in Locals : my' = [my EXCEPT ![p] = m]
<1> USE WaitQueueAssumption DEF TypeOK
<1>0. my[p] \in Locals /\ my = [my EXCEPT ![p] = my[p]]
  OBVIOUS
<1>1. CASE Alloc(p)
  <2> DEFINE m1 == [my[p] EXCEPT !.i = SlotFor(p)]
  <2>1. m1 \in Locals
    <3>1. SlotFor(p) \in Slots \cup {NoSlot}
      BY <1>0, LocalTypes, SlotForIsFree
    <3> QED BY <1>0, <3>1, SetLocal, Zenon
  <2>2. my' = [my EXCEPT ![p] = m1]
    BY <1>1 DEF Alloc, Exits
  <2> HIDE DEF m1
  <2> QED BY <2>1, <2>2, <1>0, FreshLocals
<1>2. CASE Load(p)
  <2> DEFINE m1 == [my[p] EXCEPT !.count = count]
  <2>1. m1 \in Locals
    <3>1. count \in Int
      BY <1>0, LocalTypes
    <3> QED BY <1>0, <3>1, SetLocal, Zenon
  <2>2. my' = [my EXCEPT ![p] = m1]
    BY <1>2 DEF Load, Exits
  <2> HIDE DEF m1
  <2> QED BY <2>1, <2>2, <1>0, FreshLocals
<1>3. CASE Store(p)
  <2> DEFINE m1 == [my[p] EXCEPT !.pseudocount = 0]
  <2>1. m1 \in Locals
    <3>1. 0 \in Int
      OBVIOUS
    <3> QED BY <1>0, <3>1, SetLocal, Zenon
  <2>2. my' = [my EXCEPT ![p] = m1] \/ my' = my
    BY <1>3 DEF Store, Exits
  <2> HIDE DEF m1
  <2> QED BY <2>1, <2>2, <1>0, FreshLocals
<1>4. CASE Enter(p)
  BY <1>4, <1>0, FreshLocals DEF Enter, Exits
<1>5. CASE Wake(p)
  BY <1>5, <1>0, FreshLocals DEF Wake, Exits
<1>6. CASE Goodbye(p)
  <2> DEFINE m1 == [my[p] EXCEPT !.myRequest = 0]
  <2>1. m1 \in Locals
    <3>1. 0 \in 0..4
      BY <1>0, LocalTypes
    <3> QED BY <1>0, <3>1, SetLocal, Zenon
  <2>2. my' = [my EXCEPT ![p] = m1] \/ my' = [my EXCEPT ![p] = Fresh]
    BY <1>6 DEF Goodbye, Exits
  <2> HIDE DEF m1
  <2> QED BY <2>1, <2>2, <1>0, FreshLocals
<1>7. CASE ReadAnswer(p)
  <2> DEFINE m1 == [my[p] EXCEPT !.myRequest = 0]
  <2> DEFINE m2 == [m1 EXCEPT !.pseudocount = answer]
  <2> DEFINE m3 == [m2 EXCEPT !.idie = my[p].idie \/ answer > MaxAhead]
  <2>1. m1 \in Locals
    <3>1. 0 \in 0..4
      BY <1>0, LocalTypes
    <3> QED BY <1>0, <3>1, SetLocal, Zenon
  <2>2. m2 \in Locals
    <3>1. answer \in Int
      BY <1>0, LocalTypes
    <3> QED BY <2>1, <3>1, SetLocal, Zenon
  <2>3. m3 \in Locals
    <3>1. (my[p].idie \/ answer > MaxAhead) \in BOOLEAN
      BY <1>0, LocalTypes
    <3> QED BY <2>2, <3>1, SetLocal, Zenon
  <2>4. my' = [my EXCEPT ![p] = m3]
    BY <1>7 DEF ReadAnswer, Exits
  <2> HIDE DEF m3
  <2> QED BY <2>3, <2>4, <1>0, FreshLocals
<1>8. CASE CountDown(p)
  <2> DEFINE m1 == [my[p] EXCEPT !.myRequest = IF my[p].myRequest = 0 THEN 0 ELSE my[p].myRequest - 1]
  <2>1. m1 \in Locals
    <3>1. (IF my[p].myRequest = 0 THEN 0 ELSE my[p].myRequest - 1) \in 0..4
      BY <1>0, LocalTypes
    <3> QED BY <1>0, <3>1, SetLocal, Zenon
  <2>2. my' = [my EXCEPT ![p] = m1]
    BY <1>8 DEF CountDown, Exits
  <2> HIDE DEF m1
  <2> QED BY <2>1, <2>2, <1>0, FreshLocals
<1>9. CASE Post(p)
  <2> DEFINE m1 == [my[p] EXCEPT !.myRequest = 4]
  <2>1. m1 \in Locals
    <3>1. 4 \in 0..4
      BY <1>0, LocalTypes
    <3> QED BY <1>0, <3>1, SetLocal, Zenon
  <2>2. my' = [my EXCEPT ![p] = m1]
    BY <1>9 DEF Post, Exits
  <2> HIDE DEF m1
  <2> QED BY <2>1, <2>2, <1>0, FreshLocals
<1>10. CASE SeeAgain(p)
  <2> DEFINE m1 == [my[p] EXCEPT !.reqCount = IF my[p].reqCount < 9 THEN my[p].reqCount + 1 ELSE 9]
  <2>1. m1 \in Locals
    <3>1. (IF my[p].reqCount < 9 THEN my[p].reqCount + 1 ELSE 9) \in 0..9
      BY <1>0, LocalTypes
    <3> QED BY <1>0, <3>1, SetLocal, Zenon
  <2>2. my' = [my EXCEPT ![p] = m1]
    BY <1>10 DEF SeeAgain, Exits
  <2> HIDE DEF m1
  <2> QED BY <2>1, <2>2, <1>0, FreshLocals
<1>11. CASE SeeNew(p)
  <2> DEFINE m1 == [my[p] EXCEPT !.lastRequest = request]
  <2> DEFINE m2 == [m1 EXCEPT !.lastNumber = number]
  <2> DEFINE m3 == [m2 EXCEPT !.reqCount = 1]
  <2> DEFINE m4 == [m3 EXCEPT !.pseudocount = IF request = "REQDEAD" /\ my[p].count > number /\ my[p].pseudocount # -1
              THEN my[p].pseudocount - 1 ELSE my[p].pseudocount]
  <2>1. m1 \in Locals
    <3>1. request \in Requests
      BY <1>0, LocalTypes
    <3> QED BY <1>0, <3>1, SetLocal, Zenon
  <2>2. m2 \in Locals
    <3>1. number \in Int
      BY <1>0, LocalTypes
    <3> QED BY <2>1, <3>1, SetLocal, Zenon
  <2>3. m3 \in Locals
    <3>1. 1 \in 0..9
      BY <1>0, LocalTypes
    <3> QED BY <2>2, <3>1, SetLocal, Zenon
  <2>4. m4 \in Locals
    <3>1. (IF request = "REQDEAD" /\ my[p].count > number /\ my[p].pseudocount # -1
              THEN my[p].pseudocount - 1 ELSE my[p].pseudocount) \in Int
      BY <1>0, LocalTypes
    <3> QED BY <2>3, <3>1, SetLocal, Zenon
  <2>5. my' = [my EXCEPT ![p] = m4]
    BY <1>11 DEF SeeNew, Exits
  <2> HIDE DEF m4
  <2> QED BY <2>4, <2>5, <1>0, FreshLocals
<1>12. CASE Served(p)
  <2> DEFINE m1 == [my[p] EXCEPT !.i = SlotFor(p)]
  <2>1. m1 \in Locals
    <3>1. SlotFor(p) \in Slots \cup {NoSlot}
      BY <1>0, LocalTypes, SlotForIsFree
    <3> QED BY <1>0, <3>1, SetLocal, Zenon
  <2>2. my' = [my EXCEPT ![p] = m1]
    BY <1>12 DEF Served, Exits
  <2> HIDE DEF m1
  <2> QED BY <2>1, <2>2, <1>0, FreshLocals
<1>13. CASE ClaimInTurn(p)
  <2> DEFINE m1 == [my[p] EXCEPT !.idie = TRUE]
  <2>1. m1 \in Locals
    <3>1. TRUE \in BOOLEAN
      BY <1>0, LocalTypes
    <3> QED BY <1>0, <3>1, SetLocal, Zenon
  <2>2. my' = [my EXCEPT ![p] = m1]
    BY <1>13 DEF ClaimInTurn, Exits
  <2> HIDE DEF m1
  <2> QED BY <2>1, <2>2, <1>0, FreshLocals
<1>14. CASE Lurk(p)
  <2> DEFINE m1 == [my[p] EXCEPT !.oldwait = wait]
  <2> DEFINE m2 == [m1 EXCEPT !.waits = IF Waits(p) = 5 THEN 0 ELSE Waits(p)]
  <2>1. m1 \in Locals
    <3>1. wait \in Int
      BY <1>0, LocalTypes
    <3> QED BY <1>0, <3>1, SetLocal, Zenon
  <2>2. m2 \in Locals
    <3>1. (IF Waits(p) = 5 THEN 0 ELSE Waits(p)) \in 0..4
      BY <1>0, LocalTypes DEF Waits
    <3> QED BY <2>1, <3>1, SetLocal, Zenon
  <2>3. my' = [my EXCEPT ![p] = m2]
    BY <1>14 DEF Lurk, Exits
  <2> HIDE DEF m2
  <2> QED BY <2>2, <2>3, <1>0, FreshLocals
<1>15. CASE Quit(p)
  BY <1>15, <1>0, FreshLocals DEF Quit, Exits
<1>16. CASE Leave(p)
  BY <1>16, <1>0, FreshLocals DEF Leave, Exits
<1>17. CASE ClaimAtOnce(p) \/ StayAlive(p) \/ TestRequest(p) \/ SeeNothing(p) \/ InLine(p) \/ Continue(p) \/ NapOver(p) \/ Arrive(p)
  BY <1>17, <1>0 DEF ClaimAtOnce, StayAlive, TestRequest, SeeNothing, InLine, Continue, NapOver, Arrive, Take
<1> QED BY <1>1, <1>2, <1>3, <1>4, <1>5, <1>6, <1>7, <1>8, <1>9, <1>10, <1>11, <1>12, <1>13, <1>14, <1>15, <1>16, <1>17 DEF Run

(* Every reachable state is well typed, whatever the scheduling and        *)
(* whoever vanishes.                                                       *)
THEOREM TypeCorrect == Spec => []TypeOK
<1> USE WaitQueueAssumption
<1>1. Init => TypeOK
  BY FreshLocals DEF Init, TypeOK, Sides, Resting, Passing, Asleep, Requests
<1>2. TypeOK /\ [Next]_vars => TypeOK'
  <2> SUFFICES ASSUME TypeOK, [Next]_vars
               PROVE  TypeOK'
    OBVIOUS
  <2> USE DEF Exits, Take, seats, tickets, mailbox, outside
  <2>1. ASSUME NEW p \in Procs, Run(p) \/ Arrive(p) \/ Quit(p) \/ Leave(p)
        PROVE  TypeOK'
    <3>1. /\ pc' \in [Procs -> Resting \cup Passing]
          /\ turn' \in Procs \cup {NoProc}
          /\ my' \in [Procs -> Locals]
      BY <2>1, RunTypes, RunLocals DEF TypeOK
    <3>2. my[p] \in Locals
      BY DEF TypeOK
    <3>3. CASE Alloc(p)
      BY <3>3, <3>1, <3>2, LocalTypes DEF Alloc, TypeOK, Requests
    <3>4. CASE Load(p)
      BY <3>4, <3>1, <3>2, LocalTypes DEF Load, TypeOK, Requests
    <3>5. CASE Store(p)
      BY <3>5, <3>1, <3>2, LocalTypes DEF Store, TypeOK, Requests
    <3>6. CASE ClaimAtOnce(p)
      BY <3>6, <3>1, <3>2, LocalTypes DEF ClaimAtOnce, TypeOK, Requests
    <3>7. CASE Enter(p)
      BY <3>7, <3>1, <3>2, LocalTypes DEF Enter, TypeOK, Requests
    <3>8. CASE StayAlive(p)
      <4>1. nap' \in [Procs -> 0..2]
        BY <3>8 DEF TypeOK, StayAlive
      <4>2. UNCHANGED <<seats, tickets, mailbox, slot, ghost, outside>>
        BY <3>8 DEF StayAlive
      <4> QED
        BY <3>1, <4>1, <4>2 DEF TypeOK
    <3>9. CASE Wake(p)
      BY <3>9, <3>1, <3>2, LocalTypes DEF Wake, TypeOK, Requests
    <3>10. CASE Goodbye(p)
      BY <3>10, <3>1, <3>2, LocalTypes DEF Goodbye, TypeOK, Requests
    <3>11. CASE ReadAnswer(p)
      BY <3>11, <3>1, <3>2, LocalTypes DEF ReadAnswer, TypeOK, Requests
    <3>12. CASE CountDown(p)
      BY <3>12, <3>1, <3>2, LocalTypes DEF CountDown, TypeOK, Requests
    <3>13. CASE TestRequest(p)
      BY <3>13, <3>1, <3>2, LocalTypes DEF TestRequest, TypeOK, Requests
    <3>14. CASE Post(p)
      BY <3>14, <3>1, <3>2, LocalTypes DEF Post, TypeOK, Requests
    <3>15. CASE SeeNothing(p)
      BY <3>15, <3>1, <3>2, LocalTypes DEF SeeNothing, TypeOK, Requests
    <3>16. CASE SeeAgain(p)
      BY <3>16, <3>1, <3>2, LocalTypes DEF SeeAgain, TypeOK, Requests
    <3>17. CASE SeeNew(p)
      BY <3>17, <3>1, <3>2, LocalTypes DEF SeeNew, TypeOK, Requests
    <3>18. CASE InLine(p)
      BY <3>18, <3>1, <3>2, LocalTypes DEF InLine, TypeOK, Requests
    <3>19. CASE Continue(p)
      BY <3>19, <3>1, <3>2, LocalTypes DEF Continue, TypeOK, Requests
    <3>20. CASE Served(p)
      BY <3>20, <3>1, <3>2, LocalTypes DEF Served, TypeOK, Requests
    <3>21. CASE ClaimInTurn(p)
      <4>1. my[p].i \in Slots \cup {NoSlot}
        BY <3>2, LocalTypes
      <4>2. pstatus' \in [Slots -> {"PFREE", "POUTFIT"}]
        BY <3>21 DEF TypeOK, ClaimInTurn
      <4>3. slot' \in [Procs -> Slots \cup {NoSlot}]
        BY <3>21, <4>1 DEF TypeOK, ClaimInTurn
      <4>4. wait' \in Int
        BY <3>21 DEF TypeOK, ClaimInTurn
      <4>5. UNCHANGED <<homeaway, count, mailbox, nap, ghost, outside>>
        BY <3>21 DEF ClaimInTurn
      <4> QED
        BY <3>1, <4>2, <4>3, <4>4, <4>5 DEF TypeOK
    <3>22. CASE Lurk(p)
      BY <3>22, <3>1, <3>2, LocalTypes DEF Lurk, TypeOK, Requests
    <3>23. CASE NapOver(p)
      BY <3>23, <3>1, <3>2, LocalTypes DEF NapOver, TypeOK, Requests
    <3>24. CASE Arrive(p)
      BY <3>24, <3>1, <3>2, LocalTypes DEF Arrive, TypeOK, Requests
    <3>25. CASE Quit(p)
      BY <3>25, <3>1, <3>2, LocalTypes DEF Quit, TypeOK, Requests
    <3>26. CASE Leave(p)
      BY <3>26, <3>1, <3>2, LocalTypes DEF Leave, TypeOK, Requests
    <3> QED
      BY <2>1, <3>3, <3>4, <3>5, <3>6, <3>7, <3>8, <3>9, <3>10, <3>11, <3>12, <3>13, <3>14, <3>15, <3>16, <3>17, <3>18, <3>19, <3>20, <3>21, <3>22, <3>23, <3>24, <3>25, <3>26 DEF Run
  <2>2. ASSUME NEW p \in Procs, Crash(p) PROVE TypeOK'
    BY <2>2, FreshLocals, Labels DEF Crash, TypeOK
  <2>3. ASSUME NEW i \in Slots, GhostBust(i) PROVE TypeOK'
    BY <2>3 DEF GhostBust, TypeOK
  <2>4. CASE DaemonDies
    <3>1. pstatus' \in [Slots -> {"PFREE", "POUTFIT"}] /\ count' \in Int
      BY <2>4 DEF DaemonDies
    <3>2. /\ daemonUp' \in BOOLEAN
          /\ UNCHANGED <<homeaway, wait, mailbox, pc, nap, slot, my, turn, ghost,
                         quits, crashes>>
      BY <2>4, Zenon DEF DaemonDies
    <3> QED
      BY <3>1, <3>2, Zenon DEF TypeOK
  <2>5. CASE Tick
    BY <2>5 DEF Tick, TypeOK
  <2>6. CASE AllGone
    BY <2>6 DEF AllGone, vars, TypeOK
  <2>7. CASE UNCHANGED vars
    BY <2>7 DEF vars, TypeOK
  <2> QED
    BY <2>1, <2>2, <2>3, <2>4, <2>5, <2>6, <2>7 DEF Next
<1> QED
  BY <1>1, <1>2, PTL DEF Spec

(* Without preemption, nobody else is in a pass while p makes a step, and  *)
(* what the others hold stays as it is.                                    *)
LEMMA Alone ==
  ASSUME ~Preempt, SeatInv,
         NEW p \in Procs, Run(p) \/ Arrive(p) \/ Quit(p) \/ Leave(p)
  PROVE  /\ pc'[p] \in Passing => turn' = p
         /\ \A q \in Procs \ {p} :
              pc[q] \notin Passing /\ pc'[q] = pc[q] /\ my'[q] = my[q]
<1>1. PICK l0 \in Resting \cup Passing, l1 \in Resting \cup Passing : Step(p, l0, l1)
  BY RunSteps
<1>2. l1 \in Passing => l1 \notin Resting
  BY DEF Passing, Resting, Asleep
<1>3. pc' = [pc EXCEPT ![p] = l1] /\ (l1 \in Passing => turn' = p)
  BY <1>1, <1>2 DEF Step
<1>4. \A q \in Procs \ {p} : pc[q] \notin Passing
  BY <1>1, WaitQueueAssumption DEF Step, SeatInv
<1>5. PICK m \in Locals : my' = [my EXCEPT ![p] = m]
  BY RunLocals DEF SeatInv
<1> QED
  BY <1>3, <1>4, <1>5 DEF SeatInv, TypeOK

(* The part of SeatInv that is about one process. *)
Seated(p) ==
  /\ pc[p] = "claim" => my[p].i \in Slots /\ pstatus[my[p].i] = "PFREE"
  /\ pc[p] \in Unseated => slot[p] = NoSlot
  /\ slot[p] # NoSlot => my[p].idie \/ pc[p] \in {"enter", "in"}

(* The actions of p that leave the slots alone keep what it holds. *)
LEMMA HoldsOn ==
  ASSUME ~Preempt, SeatInv, NEW p \in Procs,
         \/ Alloc(p) \/ Load(p) \/ Store(p) \/ Enter(p) \/ StayAlive(p)
         \/ ReadAnswer(p) \/ CountDown(p) \/ TestRequest(p) \/ Post(p)
         \/ SeeNothing(p) \/ SeeAgain(p) \/ SeeNew(p) \/ InLine(p)
         \/ Continue(p) \/ Served(p) \/ Lurk(p) \/ NapOver(p) \/ Arrive(p)
  PROVE  Seated(p)' /\ UNCHANGED <<slot, pstatus>>
<1>0. Seated(p) /\ my[p] \in Locals /\ p \in DOMAIN pc
  BY DEF Seated, SeatInv, TypeOK
<1> USE DEF Seated, Step, seats, Unseated
<1>1. CASE Alloc(p)
  BY <1>1, <1>0, SlotForIsFree DEF Alloc, SeatInv, TypeOK, Locals
<1>2. CASE Load(p)
  BY <1>2, <1>0 DEF Load, SeatInv, TypeOK, Locals
<1>3. CASE Store(p)
  BY <1>3, <1>0 DEF Store, SeatInv, TypeOK, Locals
<1>4. CASE Enter(p)
  BY <1>4, <1>0 DEF Enter, SeatInv, TypeOK, Locals
<1>5. CASE StayAlive(p)
  BY <1>5, <1>0 DEF StayAlive, SeatInv, TypeOK, Locals
<1>6. CASE ReadAnswer(p)
  BY <1>6, <1>0 DEF ReadAnswer, SeatInv, TypeOK, Locals
<1>7. CASE CountDown(p)
  BY <1>7, <1>0 DEF CountDown, SeatInv, TypeOK, Locals
<1>8. CASE TestRequest(p)
  BY <1>8, <1>0 DEF TestRequest, SeatInv, TypeOK, Locals
<1>9. CASE Post(p)
  BY <1>9, <1>0 DEF Post, SeatInv, TypeOK, Locals
<1>10. CASE SeeNothing(p)
  BY <1>10, <1>0 DEF SeeNothing, SeatInv, TypeOK, Locals
<1>11. CASE SeeAgain(p)
  BY <1>11, <1>0 DEF SeeAgain, SeatInv, TypeOK, Locals
<1>12. CASE SeeNew(p)
  BY <1>12, <1>0 DEF SeeNew, SeatInv, TypeOK, Locals
<1>13. CASE InLine(p)
  BY <1>13, <1>0 DEF InLine, SeatInv, TypeOK, Locals
<1>14. CASE Continue(p)
  BY <1>14, <1>0 DEF Continue, SeatInv, TypeOK, Locals
<1>15. CASE Served(p)
  BY <1>15, <1>0, SlotForIsFree DEF Served, SeatInv, TypeOK, Locals
<1>16. CASE Lurk(p)
  BY <1>16, <1>0 DEF Lurk, SeatInv, TypeOK, Locals
<1>17. CASE NapOver(p)
  BY <1>17, <1>0 DEF NapOver, SeatInv, TypeOK, Locals
<1>18. CASE Arrive(p)
  BY <1>18, <1>0 DEF Arrive, SeatInv, TypeOK, Locals
<1> QED BY <1>1, <1>2, <1>3, <1>4, <1>5, <1>6, <1>7, <1>8, <1>9, <1>10, <1>11, <1>12, <1>13, <1>14, <1>15, <1>16, <1>17, <1>18

(* A slot that is free is nobody's, so whoever takes it is alone in it. *)
LEMMA TakesIt ==
  ASSUME SeatInv, NEW p \in Procs, pc[p] = "claim", Take(p)
  PROVE  /\ NoSharedSlot'
         /\ slot'[p] = my[p].i
         /\ \A q \in Procs \ {p} : slot'[q] = slot[q]
<1>1. my[p].i \in Slots /\ pstatus[my[p].i] = "PFREE"
  BY DEF SeatInv
<1>2. \A q \in Procs : slot[q] # my[p].i
  <2>1. my[p].i # NoSlot
    BY <1>1 DEF Slots, NoSlot
  <2> QED BY <1>1, <2>1 DEF SeatInv, NoSharedSlot
<1>3. /\ slot' = [slot EXCEPT ![p] = my[p].i]
      /\ pstatus' = [pstatus EXCEPT ![my[p].i] = "POUTFIT"]
      /\ pstatus \in [Slots -> {"PFREE", "POUTFIT"}]
      /\ slot \in [Procs -> Slots \cup {NoSlot}]
      /\ NoSharedSlot
  BY DEF Take, SeatInv, TypeOK
<1> QED
  BY <1>1, <1>2, <1>3 DEF NoSharedSlot

(* Whoever exits holds no slot, and frees no slot but its own. *)
LEMMA ExitsAlone ==
  ASSUME SeatInv, NEW p \in Procs, Exits(p),
         \/ pstatus' = pstatus
         \/ slot[p] # NoSlot /\ pstatus' = [pstatus EXCEPT ![slot[p]] = "PFREE"]
  PROVE  /\ NoSharedSlot'
         /\ slot'[p] = NoSlot
         /\ \A q \in Procs \ {p} : slot'[q] = slot[q]
<1>1. /\ slot' = [slot EXCEPT ![p] = NoSlot]
      /\ pstatus \in [Slots -> {"PFREE", "POUTFIT"}]
      /\ slot \in [Procs -> Slots \cup {NoSlot}]
      /\ NoSharedSlot
  BY DEF Exits, SeatInv, TypeOK
<1> QED
  BY <1>1 DEF NoSharedSlot

(* The actions of p that do change the slots keep what it holds, too. *)
LEMMA LetsGo ==
  ASSUME ~Preempt, SeatInv, NEW p \in Procs,
         \/ ClaimAtOnce(p) \/ ClaimInTurn(p) \/ Goodbye(p) \/ Wake(p)
         \/ Quit(p) \/ Leave(p)
  PROVE  /\ Seated(p)' /\ NoSharedSlot'
         /\ \A q \in Procs \ {p} : slot'[q] = slot[q]
<1>0. Seated(p) /\ my[p] \in Locals /\ p \in DOMAIN pc /\ p \in DOMAIN my
  BY DEF Seated, SeatInv, TypeOK
<1>1. CASE ClaimAtOnce(p)
  <2>1. pc[p] = "claim" /\ Take(p) /\ pc'[p] = "enter"
    BY <1>1, <1>0 DEF ClaimAtOnce, Step
  <2> QED BY <2>1, TakesIt DEF Seated, Unseated
<1>2. CASE ClaimInTurn(p)
  <2>1. pc[p] = "claim" /\ Take(p) /\ pc'[p] = "loop" /\ my'[p].idie
    BY <1>2, <1>0 DEF ClaimInTurn, Step, Locals
  <2> QED BY <2>1, TakesIt DEF Seated, Unseated
<1>3. CASE Goodbye(p)
  <2>1. CASE slot[p] # NoSlot
    <3>1. pc'[p] = "enter" /\ UNCHANGED <<slot, pstatus>>
      BY <1>3, <2>1, <1>0 DEF Goodbye, Step, seats
    <3> QED BY <3>1 DEF Seated, Unseated, SeatInv, NoSharedSlot
  <2>2. CASE slot[p] = NoSlot
    <3>1. pc'[p] = "gone" /\ Exits(p) /\ UNCHANGED pstatus
      BY <1>3, <2>2, <1>0 DEF Goodbye, Step, seats
    <3> QED BY <3>1, ExitsAlone DEF Seated, Unseated
  <2> QED BY <2>1, <2>2
<1>4. CASE Wake(p)
  <2>1. CASE count = 0
    <3>1. pc'[p] = "gone" /\ Exits(p) /\ UNCHANGED pstatus
      BY <1>4, <2>1, <1>0 DEF Wake, Step, seats
    <3> QED BY <3>1, ExitsAlone DEF Seated, Unseated
  <2>2. CASE count # 0
    <3>1. pc[p] = "sleep" /\ pc'[p] = "done" /\ UNCHANGED <<slot, my, pstatus>>
      BY <1>4, <2>2, <1>0 DEF Wake, Step, seats
    <3> QED BY <3>1, <1>0 DEF Seated, Unseated, SeatInv, NoSharedSlot
  <2> QED BY <2>1, <2>2
<1>5. CASE Quit(p)
  <2>1. pc'[p] = "gone" /\ Exits(p) /\ UNCHANGED pstatus
    BY <1>5, <1>0 DEF Quit, Step, seats
  <2> QED BY <2>1, ExitsAlone DEF Seated, Unseated
<1>6. CASE Leave(p)
  <2>1. /\ pc'[p] = "gone" /\ Exits(p)
        /\ pstatus' = [pstatus EXCEPT ![slot[p]] = "PFREE"]
    BY <1>6, <1>0 DEF Leave, Step
  <2>2. slot[p] = NoSlot => pstatus' = pstatus
    <3>1. pstatus \in [Slots -> {"PFREE", "POUTFIT"}] /\ NoSlot \notin Slots
      BY DEF SeatInv, TypeOK, Slots, NoSlot
    <3> QED BY <3>1, <2>1
  <2> QED BY <2>1, <2>2, ExitsAlone DEF Seated, Unseated
<1> QED BY <1>1, <1>2, <1>3, <1>4, <1>5, <1>6

-----------------------------------------------------------------------------
(* SeatInv is inductive when a pass is not interrupted. *)
LEMMA SeatInvStep ==
  ASSUME ~Preempt, SeatInv, [Next]_vars, TypeOK'
  PROVE  SeatInv'
<1> USE WaitQueueAssumption
<1>0. SeatInv = /\ TypeOK
                /\ NoSharedSlot
                /\ \A p \in Procs : (pc[p] \in Passing => turn = p) /\ Seated(p)
  BY DEF SeatInv, Seated
<1>1. ASSUME NEW p \in Procs, Run(p) \/ Arrive(p) \/ Quit(p) \/ Leave(p)
      PROVE  SeatInv'
  <2>1. /\ pc'[p] \in Passing => turn' = p
        /\ \A q \in Procs \ {p} :
             pc[q] \notin Passing /\ pc'[q] = pc[q] /\ my'[q] = my[q]
    BY <1>1, Alone
  <2>2. /\ Seated(p)' /\ NoSharedSlot'
        /\ \A q \in Procs \ {p} : slot'[q] = slot[q]
    <3>1. CASE \/ ClaimAtOnce(p) \/ ClaimInTurn(p) \/ Goodbye(p) \/ Wake(p)
               \/ Quit(p) \/ Leave(p)
      BY <3>1, LetsGo
    <3>2. CASE ~ (\/ ClaimAtOnce(p) \/ ClaimInTurn(p) \/ Goodbye(p) \/ Wake(p)
                  \/ Quit(p) \/ Leave(p))
      <4>1. Seated(p)' /\ UNCHANGED <<slot, pstatus>>
        BY <1>1, <3>2, HoldsOn DEF Run
      <4> QED BY <4>1 DEF SeatInv, NoSharedSlot
    <3> QED BY <3>1, <3>2
  <2>3. \A q \in Procs \ {p} : Seated(q) /\ pc[q] # "claim"
    BY <2>1 DEF SeatInv, Seated, Passing
  <2>4. \A q \in Procs \ {p} : Seated(q)'
    BY <2>1, <2>2, <2>3 DEF Seated
  <2>5. \A q \in Procs : (pc'[q] \in Passing => turn' = q) /\ Seated(q)'
    BY <2>1, <2>2, <2>4
  <2> QED BY <2>2, <2>5, <1>0 DEF SeatInv, Seated
<1> DEFINE Idle == \A q \in Procs : pc[q] \notin Passing
<1>2. turn = NoProc => Idle
  BY DEF SeatInv
<1>3. ASSUME NEW p \in Procs, Crash(p) PROVE SeatInv'
  <2>1. /\ pc' = [pc EXCEPT ![p] = "gone"] /\ Exits(p) /\ UNCHANGED pstatus
        /\ turn' = IF turn = p THEN NoProc ELSE turn
        /\ pc \in [Procs -> Resting \cup Passing] /\ my \in [Procs -> Locals]
    BY <1>3 DEF Crash, seats, SeatInv, TypeOK
  <2>2. /\ NoSharedSlot' /\ slot'[p] = NoSlot
        /\ \A q \in Procs \ {p} : slot'[q] = slot[q]
    BY <2>1, ExitsAlone
  <2>3. /\ pc'[p] = "gone" /\ "gone" \notin Passing
        /\ \A q \in Procs \ {p} : pc'[q] = pc[q] /\ my'[q] = my[q]
    BY <2>1 DEF Exits, Passing
  <2>4. \A q \in Procs : pc'[q] \in Passing => turn' = q
    BY <2>1, <2>3 DEF SeatInv
  <2>5. \A q \in Procs : Seated(q)'
    <3>1. Seated(p)'
      BY <2>2, <2>3 DEF Seated, Unseated
    <3>2. \A q \in Procs \ {p} : Seated(q)'
      BY <2>1, <2>2, <2>3 DEF SeatInv, Seated
    <3> QED BY <3>1, <3>2
  <2> QED BY <2>2, <2>4, <2>5 DEF SeatInv, Seated
<1>4. ASSUME NEW i \in Slots, GhostBust(i) PROVE SeatInv'
  <2>1. /\ Idle /\ \A q \in Procs : slot[q] # i
        /\ pstatus' = [pstatus EXCEPT ![i] = "PFREE"]
        /\ UNCHANGED <<pc, slot, my, turn>>
        /\ pstatus \in [Slots -> {"PFREE", "POUTFIT"}]
    BY <1>2, <1>4 DEF GhostBust, Ghost, SeatInv, TypeOK
  <2>2. \A q \in Procs : pc[q] # "claim"
    BY <2>1 DEF Passing
  <2>3. NoSharedSlot'
    BY <2>1 DEF SeatInv, NoSharedSlot
  <2> QED BY <2>1, <2>2, <2>3 DEF SeatInv
<1>5. CASE DaemonDies
  <2>1. /\ Idle
        /\ pstatus' = [i \in Slots |-> "POUTFIT"]
        /\ UNCHANGED <<pc, slot, my, turn>>
        /\ slot \in [Procs -> Slots \cup {NoSlot}]
    BY <1>2, <1>5 DEF DaemonDies, SeatInv, TypeOK
  <2>2. \A q \in Procs : pc[q] # "claim"
    BY <2>1 DEF Passing
  <2>3. NoSharedSlot'
    BY <2>1 DEF SeatInv, NoSharedSlot
  <2> QED BY <2>1, <2>2, <2>3 DEF SeatInv
<1>6. CASE Tick \/ AllGone \/ UNCHANGED vars
  <2>1. UNCHANGED <<pstatus, pc, slot, my, turn>>
    BY <1>6 DEF Tick, AllGone, vars, seats
  <2> QED BY <2>1 DEF SeatInv, NoSharedSlot
<1> QED BY <1>1, <1>3, <1>4, <1>5, <1>6 DEF Next

(* A slot with a process in it stays taken, and no two processes share one, *)
(* when passes do not interleave: allocate_slot's test and store are then  *)
(* one step, and whoever frees a slot frees its own.                       *)
THEOREM SeatsHeld ==
  ASSUME ~Preempt
  PROVE  Spec => [](SeatInv /\ NoSharedSlot)
<1>1. Init => SeatInv
  <2> SUFFICES ASSUME Init PROVE SeatInv
    OBVIOUS
  <2>1. TypeOK
    BY WaitQueueAssumption, FreshLocals
    DEF Init, TypeOK, Sides, Resting, Passing, Asleep, Requests
  <2>2. NoSharedSlot
    <3> SUFFICES ASSUME NEW p \in Procs, Seat[p] # NoSlot
                 PROVE  /\ pstatus[Seat[p]] = "POUTFIT"
                        /\ \A q \in Procs \ {p} : Seat[q] # Seat[p]
      BY DEF Init, NoSharedSlot
    <3>1. Seat[p] \in Slots
      BY WaitQueueAssumption
    <3> QED BY <3>1, WaitQueueAssumption DEF Init
  <2>3. \A p \in Procs : /\ pc[p] = IF Seat[p] = NoSlot THEN "out" ELSE "in"
                         /\ slot[p] = Seat[p]
    BY DEF Init
  <2> QED BY <2>1, <2>2, <2>3 DEF SeatInv, Passing, Unseated
<1>2. SeatInv /\ [Next]_vars /\ TypeOK' => SeatInv'
  BY SeatInvStep
<1>3. SeatInv => NoSharedSlot
  BY DEF SeatInv
<1> QED BY <1>1, <1>2, <1>3, TypeCorrect, PTL DEF Spec

-----------------------------------------------------------------------------
(* Refinement: every step of grabslot sits a process down in an empty slot,*)
(* lets a process rise from its slot, or leaves the pool of slots alone.   *)
LEMMA ExitIsRise ==
  ASSUME TypeOK, NEW p \in Procs, Exits(p)
  PROVE  slot' = slot \/ Pool!Rise(p)
<1>1. slot' = [slot EXCEPT ![p] = NoSlot] /\ slot \in [Procs -> Slots \cup {NoSlot}]
  BY DEF Exits, TypeOK
<1>2. CASE slot[p] = NoSlot
  BY <1>1, <1>2
<1>3. CASE slot[p] # NoSlot
  BY <1>1, <1>3 DEF Pool!Rise
<1> QED BY <1>2, <1>3

(* The store of allocate_slot is a step of the pool: p sits down in an     *)
(* empty seat.                                                             *)
LEMMA TakeIsSit ==
  ASSUME SeatInv, NEW p \in Procs, pc[p] = "claim", Take(p)
  PROVE  \E i \in Slots : Pool!Sit(p, i)
<1>1. my[p].i \in Slots /\ pstatus[my[p].i] = "PFREE" /\ slot[p] = NoSlot
  BY DEF SeatInv, Unseated
<1>2. my[p].i # NoSlot
  BY <1>1 DEF Slots, NoSlot
<1>3. \A q \in Procs : slot[q] # my[p].i
  BY <1>1, <1>2 DEF SeatInv, NoSharedSlot
<1>4. Pool!Sit(p, my[p].i)
  BY <1>1, <1>3 DEF Take, Pool!Sit, Pool!Empty
<1> QED BY <1>1, <1>4

(* Every step is one of the pool, or none.                                 *)
LEMMA PoolStep ==
  ASSUME ~Preempt, SeatInv, [Next]_vars
  PROVE  [Pool!Next]_slot
<1>0. TypeOK
  BY DEF SeatInv
<1>1. ASSUME NEW p \in Procs, Run(p) \/ Arrive(p) \/ Quit(p) \/ Leave(p)
      PROVE  [Pool!Next]_slot
  <2>1. CASE ClaimAtOnce(p) \/ ClaimInTurn(p)
    <3>1. pc[p] = "claim" /\ Take(p)
      BY <2>1 DEF ClaimAtOnce, ClaimInTurn, Step
    <3> QED BY <3>1, TakeIsSit DEF Pool!Next
  <2>2. CASE Goodbye(p) \/ Wake(p) \/ Quit(p) \/ Leave(p)
    <3>1. Exits(p) \/ slot' = slot
      BY <2>2 DEF Goodbye, Wake, Quit, Leave
    <3> QED BY <3>1, <1>0, ExitIsRise DEF Pool!Next
  <2>3. CASE ~ (\/ ClaimAtOnce(p) \/ ClaimInTurn(p) \/ Goodbye(p) \/ Wake(p)
                \/ Quit(p) \/ Leave(p))
    BY <1>1, <2>3, HoldsOn DEF Run
  <2> QED BY <2>1, <2>2, <2>3
<1>2. ASSUME NEW p \in Procs, Crash(p) PROVE [Pool!Next]_slot
  BY <1>0, <1>2, ExitIsRise DEF Crash, Pool!Next
<1>3. ASSUME NEW i \in Slots, GhostBust(i) PROVE UNCHANGED slot
  BY <1>3 DEF GhostBust
<1>4. CASE DaemonDies \/ Tick \/ AllGone \/ UNCHANGED vars
  BY <1>4 DEF DaemonDies, Tick, AllGone, vars
<1> QED BY <1>1, <1>2, <1>3, <1>4 DEF Next

(* What grabslot does with the slots is what the pool of slots allows.     *)
THEOREM Refines ==
  ASSUME ~Preempt
  PROVE  Spec => SeatsArePooled
<1>1. Init => Pool!Init
  BY WaitQueueAssumption DEF Init, Pool!Init
<1>2. SeatInv /\ [Next]_vars => [Pool!Next]_slot
  BY PoolStep
<1> QED BY <1>1, <1>2, SeatsHeld, PTL DEF Spec, SeatsArePooled, Pool!Spec

-----------------------------------------------------------------------------
(* Most actions change neither the number of their process nor count. *)
LEMMA KeepsNumber ==
  ASSUME SeatInv, NEW p \in Procs, pc[p] \in InLoop => my[p].count # NoNumber,
         \/ Alloc(p) \/ StayAlive(p) \/ ReadAnswer(p) \/ CountDown(p)
         \/ TestRequest(p) \/ Post(p) \/ SeeNothing(p) \/ SeeAgain(p)
         \/ SeeNew(p) \/ InLine(p) \/ Continue(p) \/ Served(p) \/ Lurk(p)
         \/ NapOver(p) \/ Arrive(p) \/ ClaimAtOnce(p) \/ ClaimInTurn(p)
  PROVE  /\ count' = count /\ my'[p].count = my[p].count
         /\ pc[p] # "store" /\ pc'[p] # "store"
         /\ pc'[p] \in InLoop => my[p].count # NoNumber
<1>0. my[p] \in Locals /\ p \in DOMAIN pc /\ p \in DOMAIN my
  BY DEF SeatInv, TypeOK
<1> USE DEF Step, tickets, InLoop
<1>1. CASE Alloc(p)
  BY <1>1, <1>0 DEF Alloc, Locals
<1>2. CASE StayAlive(p)
  BY <1>2, <1>0 DEF StayAlive, Locals
<1>3. CASE ReadAnswer(p)
  BY <1>3, <1>0 DEF ReadAnswer, Locals
<1>4. CASE CountDown(p)
  BY <1>4, <1>0 DEF CountDown, Locals
<1>5. CASE TestRequest(p)
  BY <1>5, <1>0 DEF TestRequest, Locals
<1>6. CASE Post(p)
  BY <1>6, <1>0 DEF Post, Locals
<1>7. CASE SeeNothing(p)
  BY <1>7, <1>0 DEF SeeNothing, Locals
<1>8. CASE SeeAgain(p)
  BY <1>8, <1>0 DEF SeeAgain, Locals
<1>9. CASE SeeNew(p)
  BY <1>9, <1>0 DEF SeeNew, Locals
<1>10. CASE InLine(p)
  BY <1>10, <1>0 DEF InLine, Locals
<1>11. CASE Continue(p)
  BY <1>11, <1>0 DEF Continue, Locals
<1>12. CASE Served(p)
  BY <1>12, <1>0 DEF Served, Locals
<1>13. CASE Lurk(p)
  BY <1>13, <1>0 DEF Lurk, Locals
<1>14. CASE NapOver(p)
  BY <1>14, <1>0 DEF NapOver, Locals
<1>15. CASE Arrive(p)
  BY <1>15, <1>0 DEF Arrive, Locals
<1>16. CASE ClaimAtOnce(p)
  BY <1>16, <1>0 DEF ClaimAtOnce, Locals, Take
<1>17. CASE ClaimInTurn(p)
  BY <1>17, <1>0 DEF ClaimInTurn, Locals, Take
<1> QED BY <1>1, <1>2, <1>3, <1>4, <1>5, <1>6, <1>7, <1>8, <1>9, <1>10, <1>11, <1>12, <1>13, <1>14, <1>15, <1>16, <1>17

(* Whoever leaves the queue has no number any more. *)
LEMMA LosesNumber ==
  ASSUME SeatInv, NEW p \in Procs, Exits(p)
  PROVE  my'[p].count = NoNumber
  BY DEF SeatInv, TypeOK, Exits, Fresh

(* Numbers stay distinct if one process changes its own, and count does    *)
(* not come down to a number that somebody else still holds.               *)
LEMMA StaysDistinct ==
  ASSUME NumberInv, SeatInv, NEW p \in Procs,
         \A q \in Procs \ {p} : pc'[q] = pc[q] /\ my'[q] = my[q],
         \A q \in Procs \ {p} : pc[q] # "store" \/ count' = count,
         \A q \in Procs \ {p} : Waiting(q) => my[q].count < count',
         count' >= 0, my'[p].count \in Int, my'[p].count >= NoNumber,
         pc'[p] = "store" => my'[p].count = count',
         pc'[p] \in InLoop => my'[p].count # NoNumber,
         Waiting(p)' =>
           /\ my'[p].count < count'
           /\ \A q \in Procs \ {p} : Waiting(q) => my[q].count # my'[p].count
  PROVE  NumberInv'
<1>1. \A q \in Procs \ {p} : Waiting(q)' <=> Waiting(q)
  BY DEF Waiting
<1>2. \A q \in Procs \ {p} : Waiting(q) =>
        \A r \in Procs \ {p, q} : Waiting(r) => my[r].count # my[q].count
  BY DEF NumberInv, NumbersDistinct
<1>3. NumbersDistinct'
  BY <1>1, <1>2 DEF NumbersDistinct
<1>4. \A q \in Procs \ {p} :
        /\ my'[q].count >= NoNumber
        /\ pc'[q] = "store" => my'[q].count = count'
        /\ pc'[q] \in InLoop => my'[q].count # NoNumber
  BY DEF NumberInv
<1> QED BY <1>3, <1>4 DEF NumberInv

(* The processes do not touch the daemon, ... *)
LEMMA DaemonUntouched ==
  ASSUME NEW p \in Procs, Run(p) \/ Arrive(p) \/ Quit(p) \/ Leave(p) \/ Crash(p)
  PROVE  daemonUp' = daemonUp
<1>1. CASE Alloc(p) BY <1>1 DEF Alloc, outside
<1>2. CASE Load(p) BY <1>2 DEF Load, outside
<1>3. CASE Store(p) BY <1>3 DEF Store, outside
<1>4. CASE ClaimAtOnce(p) BY <1>4 DEF ClaimAtOnce, Take, outside
<1>5. CASE Enter(p) BY <1>5 DEF Enter, outside
<1>6. CASE StayAlive(p) BY <1>6 DEF StayAlive, outside
<1>7. CASE Wake(p) BY <1>7 DEF Wake, outside
<1>8. CASE Goodbye(p) BY <1>8 DEF Goodbye, outside
<1>9. CASE ReadAnswer(p) BY <1>9 DEF ReadAnswer, outside
<1>10. CASE CountDown(p) BY <1>10 DEF CountDown, outside
<1>11. CASE TestRequest(p) BY <1>11 DEF TestRequest, outside
<1>12. CASE Post(p) BY <1>12 DEF Post, outside
<1>13. CASE SeeNothing(p) BY <1>13 DEF SeeNothing, outside
<1>14. CASE SeeAgain(p) BY <1>14 DEF SeeAgain, outside
<1>15. CASE SeeNew(p) BY <1>15 DEF SeeNew, outside
<1>16. CASE InLine(p) BY <1>16 DEF InLine, outside
<1>17. CASE Continue(p) BY <1>17 DEF Continue, outside
<1>18. CASE Served(p) BY <1>18 DEF Served, outside
<1>19. CASE ClaimInTurn(p) BY <1>19 DEF ClaimInTurn, Take, outside
<1>20. CASE Lurk(p) BY <1>20 DEF Lurk, outside
<1>21. CASE NapOver(p) BY <1>21 DEF NapOver, outside
<1>22. CASE Arrive(p) BY <1>22 DEF Arrive, outside
<1>23. CASE Quit(p) BY <1>23 DEF Quit, outside
<1>24. CASE Leave(p) BY <1>24 DEF Leave, outside
<1>25. CASE Crash(p) BY <1>25 DEF Crash, outside
<1> QED BY <1>1, <1>2, <1>3, <1>4, <1>5, <1>6, <1>7, <1>8, <1>9, <1>10, <1>11, <1>12, <1>13,
             <1>14, <1>15, <1>16, <1>17, <1>18, <1>19, <1>20, <1>21, <1>22, <1>23, <1>24, <1>25 DEF Run

(* ... and nothing starts it again. *)
LEMMA DaemonStaysDown ==
  ASSUME [Next]_vars, daemonUp'
  PROVE  daemonUp
<1>1. ASSUME NEW p \in Procs, Run(p) \/ Arrive(p) \/ Quit(p) \/ Leave(p) \/ Crash(p)
      PROVE  daemonUp
  BY <1>1, DaemonUntouched
<1>2. CASE Tick \/ AllGone \/ UNCHANGED vars
  BY <1>2 DEF Tick, AllGone, vars, outside
<1>3. ASSUME NEW i \in Slots, GhostBust(i) PROVE daemonUp
  BY <1>3 DEF GhostBust, outside
<1>4. CASE DaemonDies
  BY <1>4 DEF DaemonDies
<1> QED BY <1>1, <1>2, <1>3, <1>4 DEF Next

(* Every step keeps the numbers distinct.                                  *)
LEMMA NumberStep ==
  ASSUME ~Preempt, NumberInv, SeatInv, [Next]_vars, daemonUp'
  PROVE  NumberInv'
<1> USE WaitQueueAssumption
<1>0. /\ count \in Int /\ count >= 0
      /\ \A q \in Procs : my[q].count \in Int /\ my[q].count >= NoNumber
      /\ \A q \in Procs : Waiting(q) => my[q].count < count
  BY DEF NumberInv, NumbersDistinct, SeatInv, TypeOK, Locals
<1>1. ASSUME NEW p \in Procs, Run(p) \/ Arrive(p) \/ Quit(p) \/ Leave(p)
      PROVE  NumberInv'
  <2>0. /\ \A q \in Procs \ {p} :
             pc[q] \notin Passing /\ pc'[q] = pc[q] /\ my'[q] = my[q]
        /\ \A q \in Procs \ {p} : pc[q] # "store"
        /\ p \in DOMAIN pc /\ p \in DOMAIN my /\ my[p] \in Locals
    BY <1>1, Alone DEF Passing, SeatInv, TypeOK
  <2>1. \A q \in Procs \ {p} : Waiting(p) /\ Waiting(q) => my[q].count # my[p].count
    BY DEF NumberInv, NumbersDistinct
  <2>2. CASE \/ Alloc(p) \/ StayAlive(p) \/ ReadAnswer(p) \/ CountDown(p)
             \/ TestRequest(p) \/ Post(p) \/ SeeNothing(p) \/ SeeAgain(p)
             \/ SeeNew(p) \/ InLine(p) \/ Continue(p) \/ Served(p) \/ Lurk(p)
             \/ NapOver(p) \/ Arrive(p) \/ ClaimAtOnce(p) \/ ClaimInTurn(p)
    <3>1. pc[p] \in InLoop => my[p].count # NoNumber
      BY DEF NumberInv
    <3>2. /\ count' = count /\ my'[p].count = my[p].count
          /\ pc[p] # "store" /\ pc'[p] # "store"
          /\ pc'[p] \in InLoop => my[p].count # NoNumber
      BY <2>2, <3>1, KeepsNumber
    <3>3. Waiting(p)' => Waiting(p)
      BY <3>2 DEF Waiting
    <3> QED BY <1>0, <2>0, <2>1, <3>2, <3>3, StaysDistinct
  <2>3. CASE Load(p)
    <3>1. count' = count /\ my'[p].count = count /\ pc'[p] = "store"
      BY <2>3, <2>0 DEF Load, Step, tickets, Locals
    <3>2. ~ Waiting(p)' /\ "store" \notin InLoop
      BY <3>1 DEF Waiting, InLoop
    <3>3. count >= NoNumber
      BY <1>0 DEF NoNumber
    <3> QED BY <1>0, <2>0, <3>1, <3>2, <3>3, StaysDistinct
  <2>4. CASE Store(p)
    <3>1. /\ my[p].count = count /\ count' = count + 1
          /\ my'[p].count = count /\ pc'[p] = "loop"
      BY <2>4, <2>0 DEF Store, Step, NumberInv, Locals
    <3>2. count # NoNumber
      BY <1>0 DEF NoNumber
    <3>3. \A q \in Procs \ {p} : Waiting(q) => my[q].count < count' /\ my[q].count # count
      BY <1>0, <3>1
    <3>4. count' >= 0 /\ my'[p].count >= NoNumber /\ my'[p].count < count'
      BY <1>0, <3>1
    <3> QED BY <1>0, <2>0, <3>1, <3>2, <3>3, <3>4, StaysDistinct
  <2>5. CASE Quit(p)
    <3>1. /\ Exits(p) /\ pc[p] = "loop" /\ pc'[p] = "gone"
          /\ count' = IF my[p].count = count - 1 THEN count - 1 ELSE count
      BY <2>5, <2>0 DEF Quit, Step
    <3>2. Waiting(p) /\ my[p].count # NoNumber
      BY <3>1 DEF NumberInv, InLoop, Waiting
    <3>3. my'[p].count = NoNumber /\ "gone" \notin InLoop
      BY <3>1, LosesNumber DEF InLoop
    <3>4. ~ Waiting(p)'
      BY <3>3 DEF Waiting
    <3>5. \A q \in Procs \ {p} : Waiting(q) => my[q].count < count'
      BY <1>0, <2>1, <3>1, <3>2
    <3>6. count' >= 0
      BY <1>0, <3>1, <3>2 DEF NoNumber
    <3> QED BY <1>0, <2>0, <3>1, <3>3, <3>4, <3>5, <3>6, StaysDistinct DEF NoNumber
  <2>6. CASE Enter(p)
    <3>1. count' = count /\ my'[p].count = NoNumber /\ pc'[p] = "in"
      BY <2>6, <2>0 DEF Enter, Step, tickets, Fresh
    <3>2. ~ Waiting(p)' /\ "in" \notin InLoop
      BY <3>1 DEF Waiting, InLoop
    <3> QED BY <1>0, <2>0, <3>1, <3>2, StaysDistinct DEF NoNumber
  <2>7. CASE \/ Wake(p) /\ count = 0
             \/ Goodbye(p) /\ slot[p] = NoSlot
             \/ Leave(p)
    <3>1. Exits(p) /\ count' = count /\ pc'[p] = "gone"
      BY <2>7, <2>0 DEF Wake, Goodbye, Leave, Step, tickets
    <3>2. my'[p].count = NoNumber /\ "gone" \notin InLoop
      BY <3>1, LosesNumber DEF InLoop
    <3>3. ~ Waiting(p)'
      BY <3>2 DEF Waiting
    <3> QED BY <1>0, <2>0, <3>1, <3>2, <3>3, StaysDistinct DEF NoNumber
  <2>8. CASE Wake(p) /\ count # 0
    <3>1. count' = count /\ my' = my /\ pc[p] = "sleep" /\ pc'[p] = "done"
      BY <2>8, <2>0 DEF Wake, Step, tickets
    <3>2. Waiting(p)' => Waiting(p)
      BY <3>1 DEF Waiting
    <3>3. my[p].count # NoNumber
      BY <3>1 DEF NumberInv, InLoop
    <3> QED BY <1>0, <2>0, <2>1, <3>1, <3>2, <3>3, StaysDistinct
  <2>9. CASE Goodbye(p) /\ slot[p] # NoSlot
    <3>1. /\ count' = count /\ my'[p].count = my[p].count
          /\ pc[p] = "done" /\ pc'[p] = "enter"
      BY <2>9, <2>0 DEF Goodbye, Step, tickets, Locals
    <3>2. (Waiting(p)' => Waiting(p)) /\ "enter" \notin InLoop
      BY <3>1 DEF Waiting, InLoop
    <3> QED BY <1>0, <2>0, <2>1, <3>1, <3>2, StaysDistinct
  <2>10. Wake(p) \/ Goodbye(p) \/ Leave(p) => NumberInv'
    BY <2>7, <2>8, <2>9
  <2> QED BY <1>1, <2>2, <2>3, <2>4, <2>5, <2>6, <2>10 DEF Run
<1>2. ASSUME NEW p \in Procs, Crash(p) PROVE NumberInv'
  <2>1. /\ Exits(p) /\ count' = count /\ pc' = [pc EXCEPT ![p] = "gone"]
        /\ pc \in [Procs -> Resting \cup Passing] /\ my \in [Procs -> Locals]
    BY <1>2 DEF Crash, tickets, SeatInv, TypeOK
  <2>2. /\ pc'[p] = "gone" /\ "gone" \notin InLoop
        /\ \A q \in Procs \ {p} : pc'[q] = pc[q] /\ my'[q] = my[q]
    BY <2>1 DEF Exits, InLoop
  <2>3. my'[p].count = NoNumber
    BY <2>1, LosesNumber
  <2>4. ~ Waiting(p)'
    BY <2>3 DEF Waiting
  <2> QED BY <1>0, <2>1, <2>2, <2>3, <2>4, StaysDistinct DEF NoNumber
<1>3. ASSUME NEW i \in Slots, GhostBust(i) PROVE NumberInv'
  BY <1>3 DEF GhostBust, tickets, NumberInv, NumbersDistinct, Waiting
<1>4. CASE DaemonDies
  BY <1>4 DEF DaemonDies
<1>5. CASE Tick \/ AllGone \/ UNCHANGED vars
  BY <1>5 DEF Tick, AllGone, vars, tickets, NumberInv, NumbersDistinct, Waiting
<1> QED BY <1>1, <1>2, <1>3, <1>4, <1>5 DEF Next

(* No two processes wait with the same number, as long as passes do not    *)
(* interleave and the daemon lives, although those who drop out of the end *)
(* of the queue give their numbers back.                                   *)
THEOREM NumbersKept ==
  ASSUME ~Preempt
  PROVE  Spec => [](daemonUp => NumberInv /\ NumbersDistinct)
<1> DEFINE Kept == daemonUp => NumberInv
<1>1. Init => Kept
  BY DEF Init, NumberInv, NumbersDistinct, Waiting, Fresh, NoNumber, InLoop
<1>2. Kept /\ SeatInv /\ [Next]_vars => Kept'
  BY NumberStep, DaemonStaysDown
<1>3. Kept => (daemonUp => NumberInv /\ NumbersDistinct)
  BY DEF NumberInv
<1> QED BY <1>1, <1>2, <1>3, SeatsHeld, PTL DEF Spec

-----------------------------------------------------------------------------
(* The order of service, when one queue is open to everybody (OneQueue):   *)
(* then every process that looks finds a slot as soon as any is free.      *)
LEMMA OpenForAll ==
  ASSUME OneQueue, NEW p \in Procs
  PROVE  SlotFor(p) # NoSlot <=> OpenSlots # {}
<1>1. OpenSlots # {} => \E i \in OpenSlots : \A j \in OpenSlots : i <= j
  <2>1. OpenSlots \subseteq Nat
    BY DEF OpenSlots, FreeSlots, Slots
  <2> QED BY <2>1, LowestNumber
<1>2. \A i \in OpenSlots : i # NoSlot
  BY DEF OpenSlots, FreeSlots, Slots, NoSlot
<1>3. p \notin Overload /\ ~TeamFull(p)
  BY DEF OneQueue, TeamFull
<1> QED BY <1>1, <1>2, <1>3 DEF SlotFor

(* The quantities of LineInv are small numbers. *)
LEMMA LineTypes ==
  ASSUME TypeOK
  PROVE  /\ wait \in Int /\ count \in Int
         /\ \A q \in Procs :
              /\ my[q].count \in Int /\ my[q].oldwait \in Int
              /\ my[q].waits \in 0..4 /\ my[q].idie \in BOOLEAN
              /\ nap[q] \in 0..2 /\ Due(q) \in 0..2 /\ ToServe(q) \in 0..3
  BY DEF TypeOK, Locals, Due, ToServe

(* What LineInv says of q stays true when the following stays as it is. *)
Keeps(q) ==
  Queued(q)' =>
    /\ Queued(q)
    /\ my'[q].count = my[q].count /\ my'[q].oldwait = my[q].oldwait
    /\ my'[q].waits = my[q].waits
    /\ Due(q)' = Due(q) /\ ToServe(q)' = ToServe(q)
    /\ (Napping(q)' <=> Napping(q)) /\ (Napping(q) => nap'[q] = nap[q])
    /\ (pc'[q] = "nap" <=> pc[q] = "nap")

(* Whoever does not move keeps it, and its place in its pass. *)
LEMMA OthersKeep ==
  ASSUME NEW q \in Procs, pc'[q] = pc[q], my'[q] = my[q], nap'[q] = nap[q]
  PROVE  Keeps(q)
  BY DEF Keeps, Queued, Waiting, Due, ToServe, Napping

(* The place in a pass of somebody who does not move stays what it was.    *)
LEMMA OthersPass ==
  ASSUME NEW q \in Procs, pc'[q] = pc[q], my'[q] = my[q], nap'[q] = nap[q],
         pc[q] \notin Passing, PassInv(q)
  PROVE  PassInv(q)'
  BY DEF PassInv, Passing

(* So LineInv is kept if everybody keeps its part, and no slot is taken.   *)
LEMMA QuietStep ==
  ASSUME TypeOK, LineInv,
         \A q \in Procs : Keeps(q) /\ PassInv(q)',
         wait' = wait, count' = count, OpenSlots # {} => OpenSlots' # {}
  PROVE  LineInv'
<1>1. PassedBy'
  BY LineTypes DEF LineInv, PassedBy, Keeps
<1>2. Objection'
  BY LineTypes DEF LineInv, Objection, Keeps
<1>3. \A q \in Procs : /\ Looked(q)' => Looked(q)
                       /\ Watches(q)' => Watches(q)
  BY DEF Looked, Watches, Keeps
<1>4. Patience'
  BY <1>3, LineTypes DEF LineInv, Patience, Keeps, Watches, Looked
<1>5. ASSUME NEW p \in Procs, Looked(p)'
      PROVE  /\ my'[p].oldwait < my'[p].count
             /\ Current(p)' \/ Past(p)' \/ Recalled(p)'
  <2>1. /\ my[p].oldwait < my[p].count
        /\ Current(p) \/ Past(p) \/ Recalled(p)
    BY <1>3, <1>5 DEF LineInv, Looks
  <2>2. Keeps(p) /\ Queued(p)'
    BY <1>5 DEF Looked
  <2>3. CASE Current(p)
    BY <2>1, <2>2, <2>3 DEF Keeps, Current
  <2>4. CASE Past(p)
    BY <2>1, <2>2, <2>4 DEF Keeps, Past
  <2>5. CASE Recalled(p)
    <3>1. \A r \in Procs : Watches(r)' => my'[r].waits + Due(p)' <= 1 + Due(r)'
      BY <1>3, <2>2, <2>5 DEF Keeps, Recalled, Watches, Looked
    <3>2. \A q \in Procs : Queued(q)' /\ my'[q].count = wait' =>
                             pc'[q] = "nap" /\ nap'[q] > Due(p)'
      BY <2>2, <2>5 DEF Keeps, Recalled, Napping
    <3> QED BY <2>1, <2>2, <2>5, <3>1, <3>2 DEF Keeps, Recalled
  <2> QED BY <2>1, <2>3, <2>4, <2>5
<1> QED BY <1>1, <1>2, <1>4, <1>5 DEF LineInv, Looks

(* The steps of p after which nothing in LineInv is different. *)
Quietly(p) ==
  /\ wait' = wait /\ count' = count
  /\ OpenSlots # {} => OpenSlots' # {}
  /\ Keeps(p) /\ PassInv(p)'
  /\ \A q \in Procs \ {p} : nap'[q] = nap[q]

(* A slot that nobody touches stays free.                                  *)
LEMMA SameSlots ==
  ASSUME pstatus' = pstatus
  PROVE  OpenSlots # {} => OpenSlots' # {}
  BY DEF OpenSlots, FreeSlots

(* These are those steps.                                                  *)
LEMMA QuietActions ==
  ASSUME OneQueue, SeatInv, NumberInv, LineInv, NEW p \in Procs,
         \/ Arrive(p) \/ Alloc(p) \/ Load(p) \/ Enter(p) \/ StayAlive(p)
         \/ Wake(p) \/ Goodbye(p) \/ ReadAnswer(p) \/ CountDown(p)
         \/ TestRequest(p) \/ Post(p) \/ SeeNothing(p) \/ SeeAgain(p)
         \/ SeeNew(p) \/ Served(p) \/ Leave(p)
  PROVE  Quietly(p)
<1>0. /\ my[p] \in Locals /\ p \in DOMAIN pc /\ p \in DOMAIN my
      /\ PassInv(p) /\ (pc[p] \in InLoop => my[p].count # NoNumber)
      /\ nap \in [Procs -> 0..2]
  BY DEF SeatInv, TypeOK, LineInv, NumberInv
<1> USE DEF Quietly, Keeps, PassInv, Queued, Waiting, Due, ToServe, Napping, Asleep,
            Step, tickets, seats
<1>1. CASE Arrive(p)
  BY <1>1, <1>0, SameSlots DEF Arrive, OneQueue
<1>2. CASE Alloc(p)
  BY <1>2, <1>0, SameSlots DEF Alloc, Locals
<1>3. CASE Load(p)
  BY <1>3, <1>0, SameSlots DEF Load, Locals
<1>4. CASE Enter(p)
  BY <1>4, <1>0, SameSlots DEF Enter, Fresh, NoNumber
<1>5. CASE StayAlive(p)
  BY <1>5, <1>0, SameSlots DEF StayAlive, Locals
<1>6. CASE Wake(p)
  BY <1>6, <1>0, SameSlots DEF Wake, Exits, Fresh
<1>7. CASE Goodbye(p)
  <2>1. CASE slot[p] # NoSlot
    <3>1. /\ UNCHANGED <<seats, tickets, nap>>
          /\ pc[p] = "done" /\ pc'[p] = "enter" /\ my[p].idie /\ my'[p].idie
          /\ my'[p].count = my[p].count
      BY <1>7, <2>1, <1>0 DEF Goodbye, SaidBye, Locals
    <3> QED BY <3>1, <1>0, SameSlots
  <2>2. CASE slot[p] = NoSlot
    BY <1>7, <2>2, <1>0, SameSlots DEF Goodbye, Exits, Fresh
  <2> QED BY <2>1, <2>2
<1>8. CASE ReadAnswer(p)
  BY <1>8, <1>0, SameSlots DEF ReadAnswer, Locals
<1>9. CASE CountDown(p)
  BY <1>9, <1>0, SameSlots DEF CountDown, Locals
<1>10. CASE TestRequest(p)
  BY <1>10, <1>0, SameSlots DEF TestRequest, Locals
<1>11. CASE Post(p)
  BY <1>11, <1>0, SameSlots DEF Post, Locals
<1>12. CASE SeeNothing(p)
  BY <1>12, <1>0, SameSlots DEF SeeNothing, Locals
<1>13. CASE SeeAgain(p)
  BY <1>13, <1>0, SameSlots DEF SeeAgain, Locals
<1>14. CASE SeeNew(p)
  BY <1>14, <1>0, SameSlots DEF SeeNew, Locals
<1>15. CASE Served(p)
  BY <1>15, <1>0, SameSlots DEF Served, Locals, InLoop
<1>16. CASE Leave(p)
  <2>1. pstatus' = [pstatus EXCEPT ![slot[p]] = "PFREE"] /\ pstatus \in [Slots -> {"PFREE", "POUTFIT"}]
    BY <1>16 DEF Leave, SeatInv, TypeOK
  <2>2. OpenSlots # {} => OpenSlots' # {}
    BY <2>1 DEF OpenSlots, FreeSlots
  <2> QED BY <1>16, <1>0, <2>2 DEF Leave, Exits, Fresh
<1> QED BY <1>1, <1>2, <1>3, <1>4, <1>5, <1>6, <1>7, <1>8, <1>9, <1>10, <1>11, <1>12, <1>13, <1>14, <1>15, <1>16

(* A step of p is quiet for everybody else. *)
LEMMA OthersStay ==
  ASSUME OneQueue, SeatInv, LineInv,
         NEW p \in Procs, Run(p) \/ Arrive(p) \/ Quit(p) \/ Leave(p),
         \A q \in Procs \ {p} : nap'[q] = nap[q]
  PROVE  \A q \in Procs \ {p} : Keeps(q) /\ PassInv(q)'
<1> SUFFICES ASSUME NEW q \in Procs, q # p
             PROVE  Keeps(q) /\ PassInv(q)'
  OBVIOUS
<1>1. pc[q] \notin Passing /\ pc'[q] = pc[q] /\ my'[q] = my[q] /\ nap'[q] = nap[q]
  BY Alone DEF OneQueue
<1>2. PassInv(q)
  BY DEF LineInv
<1> QED BY <1>1, <1>2, OthersKeep, OthersPass

(* What is known of anybody in the queue. *)
LEMMA InQueue ==
  ASSUME SeatInv, NumberInv, LineInv
  PROVE  \A q \in Procs : Queued(q) =>
           /\ my[q].count \in Int /\ 0 <= my[q].count /\ my[q].count < count
           /\ \A r \in Procs : Queued(r) /\ my[r].count = my[q].count => r = q
           /\ (~ Napping(q) => Due(q) <= 1)
           /\ (my[q].count < wait => Due(q) <= 1 /\ ~ Napping(q))
<1> SUFFICES ASSUME NEW q \in Procs, Queued(q)
             PROVE  /\ my[q].count \in Int /\ 0 <= my[q].count /\ my[q].count < count
                    /\ \A r \in Procs : Queued(r) /\ my[r].count = my[q].count => r = q
                    /\ (~ Napping(q) => Due(q) <= 1)
                    /\ (my[q].count < wait => Due(q) <= 1 /\ ~ Napping(q))
  OBVIOUS
<1>1. my[q].count \in Int /\ my[q].count >= NoNumber /\ my[q].count # NoNumber
  BY LineTypes DEF SeatInv, NumberInv, Queued, Waiting
<1>2. my[q].count < count /\ \A r \in Procs : Queued(r) /\ my[r].count = my[q].count => r = q
  BY DEF NumberInv, NumbersDistinct, Queued
<1>3. ~ Napping(q) => Due(q) <= 1
  BY DEF LineInv, PassInv, Napping, Due, Asleep
<1>4. my[q].count < wait => ~ Napping(q)
  BY DEF LineInv, PassedBy
<1> QED BY <1>1, <1>2, <1>3, <1>4 DEF NoNumber

(* Everybody's PassInv, for the steps that are not quiet. *)
LEMMA NoisyPass ==
  ASSUME OneQueue, SeatInv, NumberInv, LineInv, NEW p \in Procs,
         \/ Store(p) \/ InLine(p) \/ Lurk(p) \/ ClaimInTurn(p) \/ ClaimAtOnce(p)
         \/ Continue(p) \/ NapOver(p)
  PROVE  PassInv(p)' /\ \A q \in Procs \ {p} : Keeps(q) /\ PassInv(q)'
<1>0. /\ my[p] \in Locals /\ p \in DOMAIN pc /\ p \in DOMAIN my
      /\ PassInv(p) /\ (pc[p] \in InLoop => my[p].count # NoNumber)
      /\ nap \in [Procs -> 0..2]
  BY DEF SeatInv, TypeOK, LineInv, NumberInv
<1>1. \A q \in Procs \ {p} : nap'[q] = nap[q]
  BY <1>0 DEF Store, InLine, Lurk, ClaimInTurn, ClaimAtOnce, Take, Continue, NapOver
<1>2. \A q \in Procs \ {p} : Keeps(q) /\ PassInv(q)'
  BY <1>1, OthersStay DEF Run
<1>3. PassInv(p)'
  <2> USE DEF PassInv, Step, Asleep
  <2>1. CASE Store(p)
    BY <2>1, <1>0 DEF Store
  <2>2. CASE InLine(p)
    BY <2>2, <1>0 DEF InLine
  <2>3. CASE Lurk(p)
    BY <2>3, <1>0 DEF Lurk
  <2>4. CASE ClaimInTurn(p)
    BY <2>4, <1>0 DEF ClaimInTurn, Take
  <2>5. CASE ClaimAtOnce(p)
    BY <2>5, <1>0 DEF ClaimAtOnce, Take
  <2>6. CASE Continue(p)
    BY <2>6, <1>0 DEF Continue
  <2>7. CASE NapOver(p)
    <3>1. /\ nap[p] = 0 /\ nap' = nap /\ my' = my /\ wait' = wait
          /\ pc[p] \in {"nap", "nap2"} /\ pc'[p] \in {"serve", "loop"}
      BY <2>7, <1>0 DEF NapOver, tickets
    <3>2. ~ my[p].idie => wait <= my[p].count
      <4> SUFFICES ASSUME ~ my[p].idie PROVE wait <= my[p].count
        OBVIOUS
      <4>1. Queued(p) /\ Napping(p)
        BY <3>1, <1>0 DEF Queued, Waiting, Napping, InLoop
      <4>2. wait \in Int /\ my[p].count \in Int
        BY LineTypes DEF SeatInv
      <4> QED BY <4>1, <4>2, InQueue
    <3> QED BY <3>1, <3>2
  <2> QED BY <2>1, <2>2, <2>3, <2>4, <2>5, <2>6, <2>7
<1> QED BY <1>2, <1>3

(* What the other processes have looked at, when p alone makes a step.     *)
LEMMA LookedBefore ==
  ASSUME NEW q \in Procs, Keeps(q)
  PROVE  Looked(q)' => Looked(q)
  BY DEF Looked, Keeps

(* What LineInv says of somebody who has looked at the number being        *)
(* served.                                                                 *)
LEMMA LooksAt ==
  ASSUME LineInv, NEW s \in Procs, Looked(s)
  PROVE  /\ Queued(s) /\ my[s].oldwait < my[s].count
         /\ Current(s) \/ Past(s) \/ Recalled(s)
  BY DEF LineInv, Looks, Looked

(* A new number is the highest one. *)
LEMMA StoreKeepsLine ==
  ASSUME OneQueue, SeatInv, NumberInv, LineInv, NEW p \in Procs, Store(p)
  PROVE  LineInv'
<1>1. /\ my'[p].count = count /\ count' = count + 1 /\ wait' = wait
      /\ my'[p].waits = 0 /\ nap'[p] = 0 /\ pc'[p] = "loop"
      /\ OpenSlots' = OpenSlots
  BY DEF Store, Step, seats, SeatInv, TypeOK, Locals, LineInv, PassInv, NumberInv,
         Asleep, OpenSlots, FreeSlots
<1>2. PassInv(p)' /\ \A q \in Procs \ {p} : Keeps(q) /\ PassInv(q)'
  BY NoisyPass
<1>3. /\ ~ Looked(p)' /\ Due(p)' = 1 /\ ToServe(p)' = 1 /\ ~ Napping(p)'
  BY <1>1 DEF Looked, Due, ToServe, Napping
<1>4. /\ wait \in Int /\ count \in Int /\ wait <= count
      /\ \A q \in Procs : Queued(q) => my[q].count < count
      /\ \A q \in Procs : Queued(q) /\ my[q].count < wait => wait < count /\ ~ Napping(q)
  BY LineTypes, InQueue DEF SeatInv, LineInv, PassedBy
<1>5. PassedBy'
  <2> SUFFICES ASSUME NEW q \in Procs, Queued(q)', my'[q].count < wait
               PROVE  ~ Napping(q)'
    BY <1>1, <1>4 DEF PassedBy
  <2>1. q # p
    BY <1>1, <1>4
  <2> QED BY <1>2, <1>4, <2>1 DEF Keeps
<1>6. Objection'
  <2> SUFFICES ASSUME NEW q \in Procs, NEW s \in Procs, Queued(q)', Queued(s)',
                      my'[s].count = wait, my'[q].count < wait
               PROVE  Napping(s)' /\ nap'[s] > Due(q)'
    BY <1>1 DEF Objection
  <2>1. q # p
    BY <1>1, <1>4
  <2>2. Queued(q) /\ my[q].count < wait
    BY <1>2, <2>1 DEF Keeps
  <2>3. s # p
    BY <1>1, <1>4, <2>2
  <2> QED BY <1>2, <2>1, <2>2, <2>3 DEF LineInv, Objection, Keeps
<1>7. ASSUME NEW s \in Procs, Looked(s)'
      PROVE  /\ s # p /\ Keeps(s) /\ Queued(s)'
             /\ Looked(s) /\ my[s].oldwait < count
             /\ my'[s].oldwait < my'[s].count
             /\ Current(s)' \/ Past(s)' \/ Recalled(s)'
  <2>1. s # p /\ Keeps(s) /\ Queued(s)' /\ Looked(s)
    BY <1>2, <1>3, <1>7, LookedBefore DEF Looked
  <2>2. Queued(s) /\ my[s].oldwait < my[s].count /\ (Current(s) \/ Past(s) \/ Recalled(s))
    BY <2>1, LooksAt
  <2>3. my[s].oldwait < count
    BY <1>4, <2>2, LineTypes DEF SeatInv
  <2>4. Current(s)' \/ Past(s)' \/ Recalled(s)'
    <3>1. CASE Current(s)
      BY <1>1, <2>1, <3>1 DEF Current, Keeps
    <3>2. CASE Past(s)
      <4>1. ASSUME NEW q \in Procs, Queued(q)' PROVE my[s].oldwait < my'[q].count
        BY <1>1, <1>2, <2>3, <3>2, <4>1 DEF Past, Keeps
      <4> QED BY <1>1, <2>1, <3>2, <4>1 DEF Past, Keeps
    <3>3. CASE Recalled(s)
      <4>0. wait < count
        BY <1>4, <2>3, <3>3, LineTypes DEF Recalled, SeatInv
      <4>1. ASSUME NEW q \in Procs, Queued(q)', my'[q].count = wait
            PROVE  pc'[q] = "nap" /\ nap'[q] > Due(s)'
        <5>1. q # p
          BY <1>1, <1>4, <4>0, <4>1
        <5> QED BY <1>2, <2>1, <3>3, <4>1, <5>1 DEF Recalled, Keeps, Napping
      <4>2. ASSUME NEW r \in Procs, Watches(r)'
            PROVE  my'[r].waits + Due(s)' <= 1 + Due(r)'
        <5>1. r # p
          BY <1>3, <4>2 DEF Watches
        <5> QED BY <1>1, <1>2, <2>1, <3>3, <4>2, <5>1 DEF Recalled, Keeps, Watches, Looked
      <4> QED BY <1>1, <2>1, <3>3, <4>1, <4>2 DEF Recalled, Keeps
    <3> QED BY <2>2, <3>1, <3>2, <3>3
  <2> QED BY <2>1, <2>2, <2>3, <2>4 DEF Keeps
<1>8. Patience'
  <2> SUFFICES ASSUME NEW r \in Procs, NEW q \in Procs, Watches(r)', Queued(q)'
               PROVE  /\ my'[q].count < wait' => my'[r].waits + Due(q)' <= 1 + Due(r)'
                      /\ my'[q].count = wait' => my'[r].waits + ToServe(q)' <= 3 + Due(r)'
                      /\ Napping(q)' => my'[r].waits + nap'[q] <= 2 + Due(r)'
    BY DEF Patience
  <2>1. r # p /\ Keeps(r) /\ Watches(r) /\ wait < count
    BY <1>1, <1>7 DEF Watches, Looked, Keeps
  <2>2. CASE q = p
    BY <1>1, <1>3, <1>4, <2>1, <2>2
  <2>3. CASE q # p
    BY <1>1, <1>2, <2>1, <2>3 DEF LineInv, Patience, Keeps, Watches, Looked
  <2> QED BY <2>2, <2>3
<1> QED BY <1>2, <1>5, <1>6, <1>7, <1>8 DEF LineInv, Looks

(* Whoever takes a slot in turn has everybody else of the queue behind it. *)
LEMMA NobodyBefore ==
  ASSUME SeatInv, NumberInv, LineInv, NEW p \in Procs, pc[p] = "claim",
         my[p].count # NoNumber
  PROVE  /\ my[p].count = wait /\ Queued(p)
         /\ \A q \in Procs \ {p} : Queued(q) => wait < my[q].count
         /\ \A s \in Procs : Looked(s) => my[s].oldwait <= wait
<1>1. my[p].count = wait /\ Queued(p) /\ ~ Napping(p) /\ wait \in Int
  BY LineTypes DEF LineInv, PassInv, Queued, Waiting, Napping, SeatInv
<1>2. ASSUME NEW q \in Procs \ {p}, Queued(q)
      PROVE  wait < my[q].count
  <2>1. my[q].count # wait
    BY <1>1, <1>2, InQueue
  <2>2. ~ (my[q].count < wait)
    BY <1>1, <1>2 DEF LineInv, Objection
  <2>3. my[q].count \in Int
    BY <1>2, InQueue
  <2> QED BY <1>1, <2>1, <2>2, <2>3
<1>3. ASSUME NEW s \in Procs, Looked(s)
      PROVE  my[s].oldwait <= wait
  <2>1. Current(s) \/ Past(s) \/ Recalled(s)
    BY <1>3, LooksAt
  <2>2. ~ Recalled(s)
    BY <1>1 DEF Recalled
  <2>3. my[s].oldwait \in Int
    BY LineTypes DEF SeatInv
  <2> QED BY <1>1, <2>1, <2>2, <2>3 DEF Current, Past
<1> QED BY <1>1, <1>2, <1>3

(* With p served, the next number is that of nobody who was passed by.     *)
LEMMA ClaimInTurnKeepsLine ==
  ASSUME OneQueue, SeatInv, NumberInv, LineInv, NEW p \in Procs, ClaimInTurn(p)
  PROVE  LineInv'
<1>1. /\ pc[p] = "claim" /\ my[p].count # NoNumber /\ my'[p].idie
      /\ wait' = wait + 1 /\ count' = count
  BY DEF ClaimInTurn, Take, Step, SeatInv, TypeOK, Locals
<1>2. PassInv(p)' /\ \A q \in Procs \ {p} : Keeps(q) /\ PassInv(q)'
  BY NoisyPass
<1>3. /\ my[p].count = wait /\ wait < count /\ wait \in Int /\ count \in Int
      /\ \A q \in Procs \ {p} : Queued(q) => wait < my[q].count /\ my[q].count \in Int
      /\ \A s \in Procs : Looked(s) => my[s].oldwait <= wait
  BY <1>1, NobodyBefore, InQueue, LineTypes DEF SeatInv
<1>4. ~ Queued(p)'
  BY <1>1 DEF Queued
<1>5. ASSUME NEW q \in Procs, Queued(q)'
      PROVE  /\ q # p /\ Keeps(q) /\ Queued(q) /\ my'[q].count = my[q].count
             /\ my[q].count >= wait' /\ my[q].oldwait \in Int
  BY <1>1, <1>2, <1>3, <1>4, <1>5, LineTypes DEF Keeps, SeatInv
<1>6. PassedBy' /\ Objection'
  BY <1>1, <1>3, <1>5 DEF PassedBy, Objection
<1>7. ASSUME NEW s \in Procs, Looked(s)'
      PROVE  my'[s].oldwait < my'[s].count /\ Past(s)' /\ ~ Watches(s)'
  <2>1. Queued(s)' /\ Looked(s) /\ my'[s].oldwait = my[s].oldwait
    BY <1>5, <1>7, LookedBefore DEF Looked, Keeps
  <2>2. my[s].oldwait <= wait
    BY <1>3, <2>1
  <2> QED BY <1>1, <1>3, <1>5, <2>1, <2>2 DEF Past, Watches
<1> QED BY <1>2, <1>6, <1>7 DEF LineInv, Looks, Patience, Watches

(* Nobody waits when a newcomer finds a slot at once. *)
LEMMA NobodyThere ==
  ASSUME SeatInv, NumberInv, LineInv, wait = count
  PROVE  \A q \in Procs : ~ Queued(q)
<1> SUFFICES ASSUME NEW q \in Procs, Queued(q) PROVE FALSE
  OBVIOUS
<1>1. my[q].count < wait
  BY InQueue
<1>2. wait < count /\ wait \in Int
  BY <1>1, LineTypes DEF LineInv, PassedBy, SeatInv
<1> QED BY <1>2

(* ... and the queue is as empty after it has taken the slot.              *)
LEMMA ClaimAtOnceKeepsLine ==
  ASSUME OneQueue, SeatInv, NumberInv, LineInv, NEW p \in Procs, ClaimAtOnce(p)
  PROVE  LineInv'
<1>1. /\ pc[p] = "claim" /\ my[p].count = NoNumber /\ my' = my
      /\ wait' = wait /\ count' = count
  BY DEF ClaimAtOnce, Take, Step
<1>2. PassInv(p)' /\ \A q \in Procs \ {p} : Keeps(q) /\ PassInv(q)'
  BY NoisyPass
<1>3. wait = count
  BY <1>1 DEF LineInv, PassInv
<1>4. \A q \in Procs : ~ Queued(q)
  BY <1>3, NobodyThere
<1>5. \A q \in Procs : ~ Queued(q)'
  <2>1. ~ Queued(p)'
    BY <1>1 DEF Queued, Waiting
  <2> QED BY <1>2, <1>4, <2>1 DEF Keeps
<1>6. wait' <= count'
  BY <1>1 DEF LineInv, PassedBy
<1> QED
  BY <1>2, <1>5, <1>6 DEF LineInv, PassedBy, Objection, Looks, Patience, Watches, Looked

(* A process in the loop waits, and may be told to leave. *)
LEMMA LoopIsQueued ==
  ASSUME NumberInv, NEW p \in Procs, pc[p] \in InLoop, ~ my[p].idie
  PROVE  Queued(p)
  BY DEF NumberInv, Queued, Waiting, InLoop

(* Nobody watches while every slot is taken: p may well go round again. *)
LEMMA ContinueKeepsLine ==
  ASSUME OneQueue, SeatInv, NumberInv, LineInv, NEW p \in Procs, Continue(p)
  PROVE  LineInv'
<1>1. /\ pc[p] = "serve" /\ pc'[p] = "loop" /\ my' = my /\ wait' = wait /\ count' = count
      /\ nap' = nap /\ nap[p] = 0 /\ OpenSlots' = OpenSlots
  BY DEF Continue, Step, seats, tickets, SeatInv, TypeOK, LineInv, PassInv, Asleep,
         OpenSlots, FreeSlots
<1>2. PassInv(p)' /\ \A q \in Procs \ {p} : Keeps(q) /\ PassInv(q)'
  BY NoisyPass
<1>3. CASE my[p].idie
  <2>1. Keeps(p)
    BY <1>1, <1>3 DEF Keeps, Queued
  <2> QED BY <1>1, <1>2, <2>1, QuietStep DEF SeatInv
<1>4. CASE ~ my[p].idie
  <2>0. OpenSlots = {}
    BY <1>4, OpenForAll DEF Continue
  <2>1. \A s \in Procs : Looked(s) => Past(s)
    BY <2>0, LooksAt DEF Current, Recalled
  <2>2. \A r \in Procs : ~ Watches(r)
    BY <2>1, LineTypes DEF Watches, Past, SeatInv
  <2>3. /\ wait \in Int /\ count \in Int /\ wait <= my[p].count /\ my[p].count \in Int
        /\ ~ Napping(p) /\ ~ Napping(p)'
    BY <1>1, <1>4, LineTypes DEF SeatInv, LineInv, PassInv, Napping
  <2>4. \A q \in Procs : Queued(q)' =>
          /\ Queued(q) /\ (Napping(q)' <=> Napping(q))
          /\ (q # p => Due(q)' = Due(q))
    BY <1>1, <1>2, <2>3 DEF Keeps, Queued, Waiting
  <2>5. PassedBy'
    BY <1>1, <2>4 DEF LineInv, PassedBy
  <2>6. Objection'
    <3> SUFFICES ASSUME NEW q \in Procs, NEW s \in Procs, Queued(q)', Queued(s)',
                        my[s].count = wait, my[q].count < wait
                 PROVE  Napping(s)' /\ nap[s] > Due(q)'
      BY <1>1 DEF Objection
    <3>1. q # p
      BY <2>3
    <3> QED BY <2>4, <3>1 DEF LineInv, Objection
  <2>7. \A s \in Procs : Looked(s)' => Looked(s) /\ Past(s)'
    BY <1>1, <2>1, <2>4 DEF Looked, Past
  <2>8. \A r \in Procs : ~ Watches(r)'
    BY <1>1, <2>2, <2>7 DEF Watches
  <2>9. Looks'
    BY <1>1, <2>7, LooksAt DEF Looks
  <2> QED BY <1>2, <2>5, <2>6, <2>8, <2>9 DEF LineInv, Patience
<1> QED BY <1>3, <1>4

(* A nap ends only when nobody with a lower number is left to be served    *)
(* first, and nobody relies on it any more.                                *)
LEMMA NapOverKeepsLine ==
  ASSUME OneQueue, SeatInv, NumberInv, LineInv, NEW p \in Procs, NapOver(p)
  PROVE  LineInv'
<1>1. /\ pc[p] \in {"nap", "nap2"} /\ nap' = nap /\ nap[p] = 0
      /\ pc'[p] = (IF pc[p] = "nap" THEN "serve" ELSE "loop")
      /\ my' = my /\ wait' = wait /\ count' = count /\ OpenSlots' = OpenSlots
  BY DEF NapOver, Step, seats, tickets, SeatInv, TypeOK, OpenSlots, FreeSlots
<1>2. PassInv(p)' /\ \A q \in Procs \ {p} : Keeps(q) /\ PassInv(q)'
  BY NoisyPass
<1>3. CASE my[p].idie
  <2>1. Keeps(p)
    BY <1>1, <1>3 DEF Keeps, Queued
  <2> QED BY <1>1, <1>2, <2>1, QuietStep DEF SeatInv
<1>4. CASE ~ my[p].idie
  <2>1. /\ Queued(p) /\ Napping(p) /\ ~ Napping(p)' /\ Due(p) = 0
        /\ ToServe(p)' = ToServe(p) /\ pc'[p] # "nap"
    BY <1>1, <1>4, LoopIsQueued DEF InLoop, Napping, Due, ToServe
  <2>2. /\ wait \in Int /\ my[p].count \in Int /\ wait <= my[p].count
        /\ \A q \in Procs : Due(q) \in 0..2
    BY <2>1, InQueue, LineTypes DEF SeatInv
  <2>3. \A q \in Procs : /\ Queued(q)' => Queued(q) /\ (Napping(q)' => Napping(q))
                         /\ q # p /\ Queued(q)' => Keeps(q)
    BY <1>2, <2>1 DEF Keeps
  <2>4. PassedBy'
    BY <1>1, <2>3 DEF LineInv, PassedBy
  <2>5. Objection'
    <3> SUFFICES ASSUME NEW q \in Procs, NEW s \in Procs, Queued(q)', Queued(s)',
                        my[s].count = wait, my[q].count < wait
                 PROVE  Napping(s)' /\ nap[s] > Due(q)'
      BY <1>1 DEF Objection
    <3>1. q # p
      BY <2>2
    <3>2. Napping(s) /\ nap[s] > Due(q)
      BY <2>3 DEF LineInv, Objection
    <3>3. s # p
      BY <1>1, <2>2, <3>2
    <3> QED BY <2>3, <3>1, <3>2, <3>3 DEF Keeps
  <2>6. ~ Watches(p)
    <3> SUFFICES ASSUME Watches(p) PROVE FALSE
      OBVIOUS
    <3>1. my[p].oldwait = wait /\ Looked(p)
      BY DEF Watches
    <3> QED BY <2>1, <2>2, <3>1, LooksAt DEF Current, Past, Recalled
  <2>7. ASSUME NEW r \in Procs, Watches(r)'
        PROVE  r # p /\ Watches(r) /\ Due(r)' = Due(r)
    BY <1>1, <2>3, <2>6, <2>7 DEF Watches, Looked, Keeps
  <2>8. Patience'
    <3> SUFFICES ASSUME NEW r \in Procs, NEW q \in Procs, Watches(r)', Queued(q)'
                 PROVE  /\ my[q].count < wait => my[r].waits + Due(q)' <= 1 + Due(r)'
                        /\ my[q].count = wait => my[r].waits + ToServe(q)' <= 3 + Due(r)'
                        /\ Napping(q)' => my[r].waits + nap[q] <= 2 + Due(r)'
      BY <1>1 DEF Patience
    <3>1. CASE q = p
      BY <2>1, <2>2, <2>7, <3>1 DEF LineInv, Patience
    <3>2. CASE q # p
      BY <2>3, <2>7, <3>2 DEF LineInv, Patience, Keeps
    <3> QED BY <3>1, <3>2
  <2>9. ASSUME NEW s \in Procs, Looked(s)'
        PROVE  my[s].oldwait < my[s].count /\ (Current(s)' \/ Past(s)' \/ Recalled(s)')
    <3>1. Looked(s) /\ Queued(s)'
      BY <1>1, <2>3, <2>9 DEF Looked
    <3>2. my[s].oldwait < my[s].count /\ (Current(s) \/ Past(s) \/ Recalled(s))
      BY <3>1, LooksAt
    <3>3. CASE Past(s)
      BY <1>1, <2>3, <3>2, <3>3 DEF Past
    <3>4. CASE Current(s)
      BY <1>1, <2>3, <3>1, <3>2, <3>4 DEF Current
    <3>5. CASE Recalled(s)
      <4>1. s # p
        BY <2>1, <3>5 DEF Recalled
      <4>2. my[p].count # wait
        BY <1>1, <2>1, <2>2, <3>5 DEF Recalled
      <4>3. ASSUME NEW q \in Procs, Queued(q)', my[q].count = wait
            PROVE  pc'[q] = "nap" /\ nap[q] > Due(s)'
        BY <2>3, <3>1, <3>5, <4>1, <4>2, <4>3 DEF Recalled, Keeps
      <4>4. ASSUME NEW r \in Procs, Watches(r)'
            PROVE  my[r].waits + Due(s)' <= 1 + Due(r)'
        BY <2>3, <2>7, <3>1, <3>5, <4>1, <4>4 DEF Recalled, Keeps
      <4>5. ~ Napping(s)' /\ wait < my[s].oldwait /\ OpenSlots # {}
        BY <2>3, <3>1, <3>5 DEF Recalled
      <4>6. Recalled(s)'
        BY <1>1, <4>3, <4>4, <4>5 DEF Recalled
      <4> QED BY <3>2, <4>6
    <3> QED BY <3>2, <3>3, <3>4, <3>5
  <2>10. Looks'
    BY <1>1, <2>9 DEF Looks
  <2> QED BY <1>2, <2>4, <2>5, <2>8, <2>10 DEF LineInv
<1> QED BY <1>3, <1>4

(* Whoever was passed by steps in, and naps two seconds: longer than any   *)
(* other process that was passed by, or that looks at the number, needs.   *)
LEMMA InLineKeepsLine ==
  ASSUME OneQueue, SeatInv, NumberInv, LineInv, NEW p \in Procs, InLine(p)
  PROVE  LineInv'
<1>0. PassInv(p)' /\ \A q \in Procs \ {p} : Keeps(q) /\ PassInv(q)'
  BY NoisyPass
<1>1. /\ pc[p] = "inline" /\ my' = my /\ count' = count /\ OpenSlots' = OpenSlots
      /\ nap[p] = 0
  BY DEF InLine, Step, seats, OpenSlots, FreeSlots, LineInv, PassInv, Asleep
<1>2. CASE wait <= my[p].count \/ my[p].idie
  <2>1. wait' = wait /\ nap' = nap /\ pc'[p] = "serve"
    BY <1>2, LineTypes DEF InLine, Step, SeatInv, TypeOK
  <2>2. Keeps(p)
    BY <1>1, <2>1 DEF Keeps, Queued, Waiting, Due, ToServe, Napping
  <2> QED BY <1>0, <1>1, <2>1, <2>2, QuietStep DEF SeatInv
<1>3. CASE my[p].count < wait /\ ~ my[p].idie
  <2>1. wait' = my[p].count /\ pc'[p] = "nap" /\ nap'[p] = 2
    BY <1>3, LineTypes DEF InLine, Step, SeatInv, TypeOK
  <2>2. /\ Queued(p) /\ ~ Napping(p) /\ Due(p) = 0
        /\ Napping(p)' /\ Due(p)' = 2 /\ ToServe(p)' = 2
    BY <1>1, <1>3, <2>1, LoopIsQueued DEF InLoop, Napping, Due, ToServe
  <2>3. /\ wait \in Int /\ count \in Int /\ my[p].count \in Int
        /\ my[p].count < count
        /\ \A q \in Procs : my[q].oldwait \in Int /\ my[q].count \in Int
    BY <2>2, InQueue, LineTypes DEF SeatInv
  <2>4. ASSUME NEW q \in Procs, Queued(q)'
        PROVE  /\ Queued(q)
               /\ q # p => Keeps(q) /\ Due(q)' = Due(q) /\ (Napping(q)' <=> Napping(q))
               /\ my[q].count = my[p].count => q = p
               /\ my[q].count < wait => Due(q) <= 1 /\ ~ Napping(q)
    BY <1>0, <2>2, <2>4, InQueue DEF Keeps
  <2>5. PassedBy'
    BY <1>1, <2>1, <2>3, <1>3, <2>4 DEF PassedBy
  <2>6. Objection'
    <3> SUFFICES ASSUME NEW q \in Procs, NEW s \in Procs, Queued(q)', Queued(s)',
                        my[s].count = my[p].count, my[q].count < my[p].count
                 PROVE  Napping(s)' /\ nap'[s] > Due(q)'
      BY <1>1, <2>1 DEF Objection
    <3>1. s = p /\ q # p /\ my[q].count < wait
      BY <1>3, <2>3, <2>4
    <3>2. Due(q)' <= 1 /\ Due(q) \in 0..2
      BY <2>4, <3>1, LineTypes DEF SeatInv
    <3> QED BY <2>1, <2>2, <2>4, <3>1, <3>2
  <2>7. ASSUME NEW s \in Procs, Looked(s)'
        PROVE  /\ Looked(s) /\ my[s].oldwait < my[s].count
               /\ Current(s) \/ Past(s) \/ Recalled(s)
               /\ my[s].oldwait # my[p].count
    <3>1. Looked(s) /\ my[s].oldwait < my[s].count /\ (Current(s) \/ Past(s) \/ Recalled(s))
      BY <1>1, <2>4, <2>7, LooksAt DEF Looked
    <3> QED BY <1>3, <2>2, <2>3, <3>1 DEF Current, Past, Recalled
  <2>8. \A r \in Procs : ~ Watches(r)'
    BY <1>1, <2>1, <2>7 DEF Watches
  <2>9. ASSUME NEW s \in Procs, Looked(s)'
        PROVE  Current(s)' \/ Past(s)' \/ Recalled(s)'
    <3>0. Queued(s)' /\ (Current(s) \/ Past(s) \/ Recalled(s))
      BY <2>7, <2>9 DEF Looked
    <3>1. CASE Past(s)
      <4>1. my[s].oldwait < my[p].count
        BY <2>2, <3>1 DEF Past
      <4> QED BY <1>1, <2>1, <2>4, <3>1, <4>1 DEF Past
    <3>2. CASE Current(s) \/ Recalled(s)
      <4>1. /\ ~ Napping(s) /\ OpenSlots # {} /\ wait <= my[s].oldwait
            /\ my[s].oldwait < my[s].count /\ Queued(s)
        BY <2>3, <2>4, <2>7, <2>9, <3>0, <3>2 DEF Current, Recalled
      <4>2. s # p /\ my[p].count < my[s].oldwait
        BY <1>3, <2>3, <4>1
      <4>3. ~ Napping(s)' /\ Due(s)' <= 1
        BY <2>4, <3>0, <4>1, <4>2, InQueue
      <4>4. Due(s)' \in 0..2
        BY <2>4, <3>0, <4>2, LineTypes DEF SeatInv
      <4>5. ASSUME NEW q \in Procs, Queued(q)', my[q].count = my[p].count
            PROVE  pc'[q] = "nap" /\ nap'[q] > Due(s)'
        <5>1. q = p
          BY <2>4, <4>5
        <5> QED BY <2>1, <4>3, <4>4, <5>1
      <4>6. Recalled(s)'
        BY <1>1, <2>1, <2>8, <4>1, <4>2, <4>3, <4>5 DEF Recalled
      <4> QED BY <4>6
    <3> QED BY <3>0, <3>1, <3>2
  <2>10. Looks'
    BY <1>1, <2>7, <2>9 DEF Looks
  <2>11. \A q \in Procs : PassInv(q)'
    BY <1>0
  <2> QED BY <2>5, <2>6, <2>8, <2>10, <2>11 DEF LineInv, Patience
<1>4. wait <= my[p].count \/ my[p].count < wait
  BY LineTypes DEF SeatInv
<1> QED BY <1>2, <1>3, <1>4

(* A process that finds a slot free and another number being served. *)
LEMMA LurkFacts ==
  ASSUME OneQueue, SeatInv, NumberInv, LineInv, NEW p \in Procs, Lurk(p)
  PROVE  /\ pc[p] = "serve" /\ count' = count /\ OpenSlots' = OpenSlots
         /\ OpenSlots # {} /\ Queued(p) /\ Due(p) = 0 /\ ~ Napping(p)
         /\ wait \in Int /\ count \in Int /\ my[p].count \in Int
         /\ wait < my[p].count /\ my[p].count < count
         /\ Waits(p) \in 1..5
         /\ Waits(p) = 1 \/ (Watches(p) /\ Waits(p) = my[p].waits + 1)
         /\ my' = [my EXCEPT ![p].oldwait = wait,
                             ![p].waits = IF Waits(p) = 5 THEN 0 ELSE Waits(p)]
<1>1. /\ pc[p] = "serve" /\ count' = count /\ OpenSlots' = OpenSlots
      /\ ~ my[p].idie /\ my[p].count # wait /\ SlotFor(p) # NoSlot
  BY DEF Lurk, Step, seats, OpenSlots, FreeSlots
<1>2. Queued(p) /\ ~ Napping(p) /\ OpenSlots # {} /\ wait <= my[p].count /\ Due(p) = 0
  BY <1>1, LoopIsQueued, OpenForAll
  DEF InLoop, Napping, LineInv, PassInv, Due, Asleep
<1>3. /\ wait \in Int /\ count \in Int /\ my[p].count \in Int /\ my[p].count < count
      /\ my[p].waits \in 0..4
  BY <1>2, InQueue, LineTypes DEF SeatInv
<1>4. /\ Waits(p) \in 1..5
      /\ Waits(p) = 1 \/ (Watches(p) /\ Waits(p) = my[p].waits + 1)
  <2>1. Waits(p) = IF my[p].oldwait = wait THEN my[p].waits + 1 ELSE 1
    BY DEF Waits
  <2>2. CASE my[p].oldwait = wait /\ my[p].waits > 0
    BY <1>2, <1>3, <2>1, <2>2 DEF Watches, Looked
  <2>3. CASE ~ (my[p].oldwait = wait /\ my[p].waits > 0)
    BY <1>3, <2>1, <2>3
  <2> QED BY <2>2, <2>3
<1>5. my' = [my EXCEPT ![p].oldwait = wait,
                       ![p].waits = IF Waits(p) = 5 THEN 0 ELSE Waits(p)]
  BY DEF Lurk
<1> QED BY <1>1, <1>2, <1>3, <1>4, <1>5

(* The first four times it remembers that it has looked, ... *)
LEMMA LurkKeepsLine ==
  ASSUME OneQueue, SeatInv, NumberInv, LineInv, NEW p \in Procs, Lurk(p), Waits(p) # 5
  PROVE  LineInv'
<1>0. PassInv(p)' /\ \A q \in Procs \ {p} : Keeps(q) /\ PassInv(q)'
  BY NoisyPass
<1>1. /\ pc[p] = "serve" /\ count' = count /\ OpenSlots' = OpenSlots
      /\ OpenSlots # {} /\ Queued(p) /\ Due(p) = 0 /\ ~ Napping(p)
      /\ wait \in Int /\ count \in Int /\ my[p].count \in Int
      /\ wait < my[p].count /\ my[p].count < count
      /\ Waits(p) \in 1..5
      /\ Waits(p) = 1 \/ (Watches(p) /\ Waits(p) = my[p].waits + 1)
  BY LurkFacts
<1>2. /\ my'[p].count = my[p].count /\ my'[p].oldwait = wait /\ my'[p].waits = Waits(p)
      /\ wait' = wait /\ pc'[p] = "loop"
  <2>1. my[p] \in Locals /\ p \in DOMAIN my /\ p \in DOMAIN pc
    BY DEF SeatInv, TypeOK
  <2>2. my' = [my EXCEPT ![p].oldwait = wait, ![p].waits = Waits(p)]
    BY LurkFacts
  <2>3. /\ my'[p].count = my[p].count /\ my'[p].oldwait = wait /\ my'[p].waits = Waits(p)
    BY <2>1, <2>2 DEF Locals
  <2> QED BY <2>1, <2>3 DEF Lurk, Step
<1>3. Due(p)' = 1 /\ ~ Napping(p)'
  BY <1>2 DEF Due, Napping
<1>4. ASSUME NEW q \in Procs, Queued(q)'
      PROVE  /\ Queued(q) /\ (Napping(q)' <=> Napping(q))
             /\ my'[q].count = my[q].count
             /\ q # p => Keeps(q)
             /\ q # p => /\ Due(q)' = Due(q) /\ ToServe(q)' = ToServe(q)
                         /\ Napping(q) => nap'[q] = nap[q]
             /\ my[q].count < wait => Due(q) <= 1 /\ ~ Napping(q)
             /\ Due(q) \in 0..2 /\ ToServe(q) \in 0..3 /\ nap[q] \in 0..2
  <2>1. Queued(q) /\ (Napping(q)' <=> Napping(q)) /\ my'[q].count = my[q].count
    BY <1>0, <1>1, <1>2, <1>3, <1>4 DEF Keeps
  <2> QED BY <1>0, <1>4, <2>1, InQueue, LineTypes DEF Keeps, SeatInv
<1>5. PassedBy'
  BY <1>1, <1>2, <1>4 DEF LineInv, PassedBy
<1>6. Objection'
  <2> SUFFICES ASSUME NEW q \in Procs, NEW s \in Procs, Queued(q)', Queued(s)',
                      my[s].count = wait, my[q].count < wait
               PROVE  Napping(s)' /\ nap'[s] > Due(q)'
    BY <1>2, <1>4 DEF Objection
  <2>1. q # p /\ s # p
    BY <1>1
  <2> QED BY <1>4, <2>1 DEF LineInv, Objection
<1>7. ASSUME NEW r \in Procs, Watches(r)'
      PROVE  \/ r = p
             \/ /\ r # p /\ Watches(r) /\ my'[r].waits = my[r].waits /\ Due(r)' = Due(r)
  BY <1>0, <1>2, <1>7 DEF Watches, Looked, Keeps
<1>8. Patience'
  <2> SUFFICES ASSUME NEW r \in Procs, NEW q \in Procs, Watches(r)', Queued(q)'
               PROVE  /\ my[q].count < wait => my'[r].waits + Due(q)' <= 1 + Due(r)'
                      /\ my[q].count = wait => my'[r].waits + ToServe(q)' <= 3 + Due(r)'
                      /\ Napping(q) => my'[r].waits + nap'[q] <= 2 + Due(r)'
    BY <1>2, <1>4 DEF Patience
  <2>1. CASE q = p
    BY <1>1, <2>1
  <2>2. CASE q # p /\ r # p
    BY <1>4, <1>7, <2>2 DEF LineInv, Patience
  <2>3. CASE q # p /\ r = p
    <3>1. my'[r].waits = Waits(p) /\ Due(r)' = 1
      BY <1>2, <1>3, <2>3
    <3>2. CASE Waits(p) = 1
      BY <1>4, <2>3, <3>1, <3>2
    <3>3. CASE Watches(p) /\ Waits(p) = my[p].waits + 1
      <4>1. my[p].waits \in Int
        BY LineTypes DEF SeatInv
      <4> QED BY <1>1, <1>4, <2>3, <3>1, <3>3, <4>1 DEF LineInv, Patience
    <3> QED BY <1>1, <3>2, <3>3
  <2> QED BY <2>1, <2>2, <2>3
<1>9. ASSUME NEW s \in Procs, Looked(s)'
      PROVE  /\ my'[s].oldwait < my'[s].count
             /\ Current(s)' \/ Past(s)' \/ Recalled(s)'
  <2>1. CASE s = p
    BY <1>1, <1>2, <1>3, <2>1 DEF Current
  <2>2. CASE s # p
    <3>0. Queued(s)' /\ Keeps(s)
      BY <1>0, <1>9, <2>2 DEF Looked
    <3>1. Looked(s) /\ my'[s].oldwait = my[s].oldwait /\ my'[s].count = my[s].count
      BY <1>9, <3>0, LookedBefore DEF Keeps
    <3>2. my[s].oldwait < my[s].count /\ (Current(s) \/ Past(s) \/ Recalled(s))
      BY <3>1, LooksAt
    <3>3. CASE Current(s)
      BY <1>1, <1>2, <1>4, <3>0, <3>1, <3>2, <3>3 DEF Current
    <3>4. CASE Past(s)
      BY <1>2, <1>4, <3>1, <3>2, <3>4 DEF Past
    <3>5. CASE Recalled(s)
      <4>1. ASSUME NEW q \in Procs, Queued(q)', my[q].count = wait
            PROVE  pc'[q] = "nap" /\ nap'[q] > Due(s)'
        <5>1. q # p
          BY <1>1, <4>1
        <5>2. pc[q] = "nap" /\ nap[q] > Due(s) /\ Keeps(q)
          BY <1>4, <3>5, <4>1, <5>1 DEF Recalled
        <5> QED BY <1>4, <2>2, <3>0, <4>1, <5>1, <5>2 DEF Keeps, Napping
      <4>2. Due(s)' = Due(s) /\ Due(s) <= 1 /\ Due(s) \in Int /\ ~ Napping(s)'
        <5>1. ~ Napping(s) /\ Queued(s)
          BY <1>4, <3>0, <3>5 DEF Recalled
        <5> QED BY <1>4, <2>2, <3>0, <5>1, InQueue
      <4>3. ASSUME NEW r \in Procs, Watches(r)'
            PROVE  my'[r].waits + Due(s)' <= 1 + Due(r)'
        <5>1. CASE r # p
          BY <1>7, <3>5, <4>2, <4>3, <5>1 DEF Recalled
        <5>2. CASE r = p
          <6>1. my'[r].waits = Waits(p) /\ Due(r)' = 1
            BY <1>2, <1>3, <5>2
          <6>2. CASE Waits(p) = 1
            BY <4>2, <6>1, <6>2
          <6>3. CASE Watches(p) /\ Waits(p) = my[p].waits + 1
            <7>1. my[p].waits + Due(s) <= 1 + Due(p) /\ my[p].waits \in Int
              BY <3>5, <6>3, LineTypes DEF Recalled, SeatInv
            <7> QED BY <1>1, <4>2, <6>1, <6>3, <7>1
          <6> QED BY <1>1, <6>2, <6>3
        <5> QED BY <5>1, <5>2
      <4>4. Recalled(s)'
        BY <1>1, <1>2, <1>4, <3>1, <3>5, <4>1, <4>2, <4>3 DEF Recalled
      <4> QED BY <3>1, <3>2, <4>4
    <3> QED BY <3>1, <3>2, <3>3, <3>4, <3>5
  <2> QED BY <2>1, <2>2
<1> QED BY <1>0, <1>5, <1>6, <1>8, <1>9 DEF LineInv, Looks

(* ... and the fifth time nobody up to the number being served is left, so *)
(* that nobody is passed by when p serves itself.                          *)
LEMMA LurkGivesUpKeepsLine ==
  ASSUME OneQueue, SeatInv, NumberInv, LineInv, NEW p \in Procs, Lurk(p), Waits(p) = 5
  PROVE  LineInv'
<1>0. PassInv(p)' /\ \A q \in Procs \ {p} : Keeps(q) /\ PassInv(q)'
  BY NoisyPass
<1>1. /\ pc[p] = "serve" /\ count' = count
      /\ Queued(p) /\ Due(p) = 0
      /\ wait \in Int /\ count \in Int /\ my[p].count \in Int
      /\ wait < my[p].count /\ my[p].count < count
      /\ Watches(p) /\ my[p].waits + 1 = 5
  <2>1. Waits(p) # 1
    OBVIOUS
  <2> QED BY <2>1, LurkFacts
<1>2. /\ my'[p].count = my[p].count /\ my'[p].waits = 0
      /\ wait' = my[p].count /\ pc'[p] = "nap2" /\ nap'[p] = 2
  <2>1. /\ my[p] \in Locals /\ p \in DOMAIN my /\ p \in DOMAIN pc /\ p \in DOMAIN nap
    BY DEF SeatInv, TypeOK
  <2>2. my' = [my EXCEPT ![p].oldwait = wait, ![p].waits = 0]
    BY LurkFacts
  <2>3. /\ my'[p].count = my[p].count /\ my'[p].waits = 0
    BY <2>1, <2>2 DEF Locals
  <2> QED BY <2>1, <2>3 DEF Lurk, Step
<1>3. my[p].waits = 4
  BY <1>1, LineTypes DEF SeatInv
<1>4. ASSUME NEW q \in Procs, Queued(q)
      PROVE  /\ wait < my[q].count /\ ~ Napping(q) /\ Due(q) <= 1
             /\ my[q].count \in Int /\ Due(q) \in 0..2
             /\ my[q].count = my[p].count => q = p
  <2>1. /\ my[q].count \in Int /\ Due(q) \in 0..2 /\ ToServe(q) \in 0..3 /\ nap[q] \in 0..2
        /\ ~ Napping(q) => Due(q) <= 1
        /\ my[q].count = my[p].count => q = p
    BY <1>1, <1>4, InQueue, LineTypes DEF SeatInv
  <2>2. /\ my[q].count < wait => 4 + Due(q) <= 1
        /\ my[q].count = wait => 4 + ToServe(q) <= 3
        /\ Napping(q) => 4 + nap[q] <= 2
    BY <1>1, <1>3, <1>4 DEF LineInv, Patience
  <2>3. ~ Napping(q)
    BY <2>1, <2>2
  <2> QED BY <1>1, <2>1, <2>2, <2>3
<1>5. ASSUME NEW q \in Procs, Queued(q)'
      PROVE  /\ Queued(q) /\ my'[q].count = my[q].count
             /\ q # p => ~ Napping(q)' /\ Due(q)' = Due(q)
  BY <1>0, <1>1, <1>2, <1>4, <1>5 DEF Keeps
<1>6. PassedBy'
  BY <1>1, <1>2, <1>4, <1>5 DEF PassedBy
<1>7. Objection'
  <2> SUFFICES ASSUME NEW q \in Procs, NEW s \in Procs, Queued(q)', Queued(s)',
                      my[s].count = my[p].count, my[q].count < my[p].count
               PROVE  Napping(s)' /\ nap'[s] > Due(q)'
    BY <1>2, <1>5 DEF Objection
  <2>1. s = p /\ q # p /\ Due(q)' <= 1 /\ Due(q)' \in 0..2
    BY <1>1, <1>4, <1>5
  <2> QED BY <1>2, <2>1 DEF Napping
<1>8. ASSUME NEW s \in Procs, Looked(s)'
      PROVE  /\ my'[s].oldwait < my'[s].count /\ Past(s)' /\ ~ Watches(s)'
  <2>1. s # p /\ Queued(s)'
    BY <1>2, <1>8 DEF Looked
  <2>2. Looked(s) /\ my'[s].oldwait = my[s].oldwait /\ my[s].oldwait \in Int
    BY <1>0, <1>8, <2>1, LookedBefore, LineTypes DEF Keeps, SeatInv
  <2>3. Current(s) \/ Past(s) \/ Recalled(s)
    BY <2>2, LooksAt
  <2>4. ~ Recalled(s)
    <3> SUFFICES ASSUME Recalled(s) PROVE FALSE
      OBVIOUS
    <3>1. my[p].waits + Due(s) <= 1 + Due(p) /\ Due(s) \in 0..2
      BY <1>1, LineTypes DEF Recalled, SeatInv
    <3> QED BY <1>1, <1>3, <3>1
  <2>5. my[s].oldwait <= wait
    <3>1. my[s].oldwait = wait \/ my[s].oldwait < wait
      BY <2>3, <2>4 DEF Current, Past
    <3> QED BY <1>1, <2>2, <3>1
  <2> QED BY <1>1, <1>2, <1>4, <1>5, <2>1, <2>2, <2>5 DEF Past, Watches
<1>9. Looks'
  BY <1>8 DEF Looks
<1>10. \A q \in Procs : PassInv(q)'
  BY <1>0
<1> QED BY <1>6, <1>7, <1>8, <1>9, <1>10 DEF LineInv, Patience, Watches

(* A second later everybody in the queue is a second nearer to its pass.   *)
LEMMA TickKeepsLine ==
  ASSUME OneQueue, SeatInv, NumberInv, LineInv, Tick
  PROVE  LineInv'
<1>1. /\ wait' = wait /\ count' = count /\ my' = my /\ pc' = pc /\ OpenSlots' = OpenSlots
      /\ nap' = [p \in Procs |-> IF pc[p] \in Asleep THEN nap[p] - 1 ELSE nap[p]]
      /\ \A q \in Procs : pc[q] \in Resting /\ (pc[q] \in Asleep => nap[q] > 0)
  BY DEF Tick, seats, tickets, OpenSlots, FreeSlots
<1>2. \A q \in Procs : PassInv(q)'
  <2> SUFFICES ASSUME NEW q \in Procs PROVE PassInv(q)'
    OBVIOUS
  <2>1. PassInv(q) /\ nap[q] \in 0..2
    BY LineTypes DEF LineInv, SeatInv
  <2>2. nap'[q] = IF pc[q] \in Asleep THEN nap[q] - 1 ELSE nap[q]
    BY <1>1
  <2> QED BY <1>1, <2>1, <2>2 DEF PassInv
<1>3. \A q \in Procs : /\ (Queued(q)' <=> Queued(q)) /\ (Napping(q)' <=> Napping(q))
                       /\ (Looked(q)' <=> Looked(q)) /\ (Watches(q)' <=> Watches(q))
  BY <1>1 DEF Queued, Waiting, Napping, Looked, Watches
<1>4. ASSUME NEW q \in Procs, Queued(q)
      PROVE  /\ nap'[q] = nap[q] - 1 /\ Due(q)' = Due(q) - 1
             /\ ToServe(q)' = ToServe(q) - 1
             /\ nap[q] \in 0..2 /\ Due(q) \in 0..2 /\ ToServe(q) \in 0..3
             /\ my[q].waits \in 0..4 /\ my[q].count \in Int
  <2>1. pc[q] \in Asleep
    BY <1>1, <1>4 DEF LineInv, PassInv, Resting, Queued, Waiting
  <2>2. nap'[q] = nap[q] - 1
    BY <1>1, <2>1
  <2> QED BY <1>1, <2>1, <2>2, LineTypes DEF SeatInv, Due, ToServe, Asleep
<1>5. PassedBy'
  BY <1>1, <1>3 DEF LineInv, PassedBy
<1>6. Objection'
  BY <1>1, <1>3, <1>4 DEF LineInv, Objection
<1>7. Patience'
  <2> SUFFICES ASSUME NEW r \in Procs, NEW q \in Procs, Watches(r), Queued(q)
               PROVE  /\ my[q].count < wait => my[r].waits + Due(q)' <= 1 + Due(r)'
                      /\ my[q].count = wait => my[r].waits + ToServe(q)' <= 3 + Due(r)'
                      /\ Napping(q) => my[r].waits + nap'[q] <= 2 + Due(r)'
    BY <1>1, <1>3 DEF Patience
  <2>1. Queued(r)
    BY DEF Watches, Looked
  <2> QED BY <1>4, <2>1 DEF LineInv, Patience
<1>8. ASSUME NEW s \in Procs, Looked(s)
      PROVE  /\ my[s].oldwait < my[s].count
             /\ Current(s)' \/ Past(s)' \/ Recalled(s)'
  <2>1. /\ Queued(s) /\ my[s].oldwait < my[s].count
        /\ Current(s) \/ Past(s) \/ Recalled(s)
    BY <1>8, LooksAt
  <2>2. Current(s) => Current(s)'
    BY <1>1, <1>3 DEF Current
  <2>3. Past(s) => Past(s)'
    BY <1>1, <1>3 DEF Past
  <2>4. CASE Recalled(s)
    <3>1. ASSUME NEW q \in Procs, Queued(q), my[q].count = wait
          PROVE  pc[q] = "nap" /\ nap'[q] > Due(s)'
      BY <1>4, <2>1, <2>4, <3>1 DEF Recalled
    <3>2. ASSUME NEW r \in Procs, Watches(r)
          PROVE  my[r].waits + Due(s)' <= 1 + Due(r)'
      <4>1. Queued(r)
        BY <3>2 DEF Watches, Looked
      <4> QED BY <1>4, <2>1, <2>4, <3>2, <4>1 DEF Recalled
    <3>3. Recalled(s)'
      BY <1>1, <1>3, <2>4, <3>1, <3>2 DEF Recalled
    <3> QED BY <2>1, <3>3
  <2> QED BY <2>1, <2>2, <2>3, <2>4
<1>9. Looks'
  BY <1>1, <1>3, <1>8 DEF Looks
<1> QED BY <1>2, <1>5, <1>6, <1>7, <1>9 DEF LineInv

(* LineInv is inductive: every step of every process keeps it. *)
LEMMA LineStep ==
  ASSUME OneQueue, SeatInv, NumberInv, LineInv, [Next]_vars
  PROVE  LineInv'
<1>0. TypeOK
  BY DEF SeatInv
<1>1. ASSUME NEW p \in Procs, Run(p) \/ Arrive(p) \/ Quit(p) \/ Leave(p)
      PROVE  LineInv'
  <2>1. CASE \/ Arrive(p) \/ Alloc(p) \/ Load(p) \/ Enter(p) \/ StayAlive(p)
             \/ Wake(p) \/ Goodbye(p) \/ ReadAnswer(p) \/ CountDown(p)
             \/ TestRequest(p) \/ Post(p) \/ SeeNothing(p) \/ SeeAgain(p)
             \/ SeeNew(p) \/ Served(p) \/ Leave(p)
    <3>1. /\ wait' = wait /\ count' = count /\ (OpenSlots # {} => OpenSlots' # {})
          /\ Keeps(p) /\ PassInv(p)'
          /\ \A q \in Procs \ {p} : nap'[q] = nap[q]
      BY <2>1, QuietActions DEF Quietly
    <3>2. \A q \in Procs \ {p} : Keeps(q) /\ PassInv(q)'
      BY <1>1, <3>1, OthersStay
    <3> QED BY <1>0, <3>1, <3>2, QuietStep
  <2>2. CASE Store(p)
    BY <2>2, StoreKeepsLine
  <2>3. CASE ClaimAtOnce(p)
    BY <2>3, ClaimAtOnceKeepsLine
  <2>4. CASE ClaimInTurn(p)
    BY <2>4, ClaimInTurnKeepsLine
  <2>5. CASE InLine(p)
    BY <2>5, InLineKeepsLine
  <2>6. CASE Continue(p)
    BY <2>6, ContinueKeepsLine
  <2>7. CASE Lurk(p)
    BY <2>7, LurkKeepsLine, LurkGivesUpKeepsLine
  <2>8. CASE NapOver(p)
    BY <2>8, NapOverKeepsLine
  <2>9. ~ Quit(p)
    <3>1. quits \in 0 .. 0
      BY <1>0 DEF TypeOK, OneQueue
    <3> QED BY <3>1 DEF Quit, OneQueue
  <2> QED BY <1>1, <2>1, <2>2, <2>3, <2>4, <2>5, <2>6, <2>7, <2>8, <2>9 DEF Run
<1>2. ASSUME NEW p \in Procs, Crash(p) PROVE LineInv'
  <2>1. /\ pc'[p] = "gone" /\ nap'[p] = 0 /\ my'[p] = Fresh
        /\ \A q \in Procs \ {p} : pc'[q] = pc[q] /\ my'[q] = my[q] /\ nap'[q] = nap[q]
        /\ wait' = wait /\ count' = count /\ OpenSlots' = OpenSlots
    BY <1>0, <1>2 DEF Crash, Exits, TypeOK, seats, tickets, OpenSlots, FreeSlots
  <2>2. Keeps(p) /\ PassInv(p)'
    BY <2>1 DEF Keeps, Queued, Waiting, PassInv, Fresh, Asleep
  <2>3. \A q \in Procs \ {p} : Keeps(q) /\ PassInv(q)'
    BY <2>1, OthersKeep DEF LineInv, PassInv
  <2> QED BY <1>0, <2>1, <2>2, <2>3, QuietStep
<1>3. ASSUME NEW i \in Slots, GhostBust(i) PROVE LineInv'
  <2>1. /\ UNCHANGED <<wait, count, pc, nap, my>>
        /\ pstatus' = [pstatus EXCEPT ![i] = "PFREE"]
    BY <1>3 DEF GhostBust, tickets
  <2>2. OpenSlots # {} => OpenSlots' # {}
    BY <1>0, <2>1 DEF OpenSlots, FreeSlots, TypeOK
  <2>3. \A q \in Procs : Keeps(q) /\ PassInv(q)'
    BY <2>1, OthersKeep DEF LineInv, PassInv
  <2> QED BY <1>0, <2>1, <2>2, <2>3, QuietStep
<1>4. CASE Tick
  BY <1>4, TickKeepsLine
<1>5. CASE AllGone \/ UNCHANGED vars
  <2>1. UNCHANGED <<wait, count, pc, nap, my>> /\ OpenSlots' = OpenSlots
    BY <1>5 DEF AllGone, vars, seats, tickets, OpenSlots, FreeSlots
  <2>2. \A q \in Procs : Keeps(q) /\ PassInv(q)'
    BY <2>1, OthersKeep DEF LineInv, PassInv
  <2> QED BY <1>0, <2>1, <2>2, QuietStep
<1>6. ~ DaemonDies
  BY DEF DaemonDies, OneQueue
<1> QED BY <1>1, <1>2, <1>3, <1>4, <1>5, <1>6 DEF Next

(* There is no queue at first.                                             *)
LEMMA LineInit ==
  ASSUME Init
  PROVE  LineInv
<1>1. /\ wait = 0 /\ count = 0
      /\ \A p \in Procs : /\ my[p] = Fresh /\ nap[p] = 0 /\ pc[p] \in {"out", "in"}
  BY DEF Init
<1>2. \A p \in Procs : ~ Queued(p) /\ PassInv(p)
  BY <1>1 DEF Queued, Waiting, PassInv, Fresh, Asleep
<1> QED BY <1>1, <1>2 DEF LineInv, PassedBy, Objection, Looks, Patience, Watches, Looked

(* Nothing stops the daemon when DaemonMayDie does not hold. *)
LEMMA DaemonStaysUp ==
  ASSUME OneQueue, daemonUp, [Next]_vars
  PROVE  daemonUp'
<1>1. ASSUME NEW p \in Procs, Run(p) \/ Arrive(p) \/ Quit(p) \/ Leave(p) \/ Crash(p)
      PROVE  daemonUp'
  BY <1>1, DaemonUntouched
<1>2. CASE Tick \/ AllGone \/ UNCHANGED vars
  BY <1>2 DEF Tick, AllGone, vars, outside
<1>3. ASSUME NEW i \in Slots, GhostBust(i) PROVE daemonUp'
  BY <1>3 DEF GhostBust, outside
<1>4. ~ DaemonDies
  BY DEF DaemonDies, OneQueue
<1> QED BY <1>1, <1>2, <1>3, <1>4 DEF Next

(* The invariant behind the order of service holds from the start for good. *)
THEOREM LineKept ==
  ASSUME OneQueue
  PROVE  Spec => [](SeatInv /\ NumberInv /\ LineInv)
<1>0. ~ Preempt
  BY DEF OneQueue
<1>1. Init => LineInv /\ daemonUp
  BY LineInit DEF Init
<1>2. SeatInv /\ NumberInv /\ LineInv /\ [Next]_vars => LineInv'
  BY LineStep
<1>3. daemonUp /\ [Next]_vars => daemonUp'
  BY DaemonStaysUp
<1>4. Spec => [](SeatInv /\ NoSharedSlot)
  BY <1>0, SeatsHeld
<1>5. Spec => [](daemonUp => NumberInv /\ NumbersDistinct)
  BY <1>0, NumbersKept
<1> QED BY <1>1, <1>2, <1>3, <1>4, <1>5, PTL DEF Spec

(* Nobody takes a slot while a process that could take it waits with a     *)
(* lower number, for every number of processes, slots and crashes.         *)
THEOREM ServedInOrder ==
  ASSUME OneQueue
  PROVE  Spec => LowestServed
<1>1. ASSUME SeatInv, NumberInv, LineInv, NEW p \in Procs, ClaimInTurn(p),
             NEW q \in Procs \ {p}, Entitled(q)
      PROVE  my[p].count < my[q].count
  <2>1. pc[p] = "claim" /\ my[p].count # NoNumber /\ Queued(q)
    BY <1>1 DEF ClaimInTurn, Step, Entitled, Queued
  <2> QED BY <1>1, <2>1, NobodyBefore
<1>2. SeatInv /\ NumberInv /\ LineInv =>
        \A p \in Procs : ClaimInTurn(p) =>
          \A q \in Procs \ {p} : Entitled(q) => my[p].count < my[q].count
  BY <1>1
<1> QED BY <1>2, LineKept, PTL DEF LowestServed

(* No newcomer takes a slot past a process that waits for it. *)
THEOREM NobodyJumps ==
  ASSUME OneQueue
  PROVE  Spec => NoJumping
<1>1. ASSUME SeatInv, NumberInv, LineInv, NEW p \in Procs, ClaimAtOnce(p),
             NEW q \in Procs, Entitled(q)
      PROVE  FALSE
  <2>1. wait = count /\ Queued(q)
    BY <1>1 DEF ClaimAtOnce, Step, LineInv, PassInv, Entitled, Queued
  <2> QED BY <1>1, <2>1, NobodyThere
<1>2. SeatInv /\ NumberInv /\ LineInv =>
        \A p \in Procs : ClaimAtOnce(p) /\ p \notin Overload =>
          \A q \in Procs : ~Entitled(q)
  BY <1>1
<1> QED BY <1>2, LineKept, PTL DEF NoJumping

-----------------------------------------------------------------------------
(* The positions that clients are shown, while nobody leaves the queue but *)
(* into the game.                                                          *)

(* What is known of the place and the number of anybody.                   *)
LEMMA HereFacts ==
  ASSUME SeatInv, NumberInv, LineInv, NEW p \in Procs
  PROVE  /\ my[p] \in Locals /\ nap[p] \in 0..2 /\ pc[p] \in Resting \cup Passing
         /\ p \in DOMAIN my /\ p \in DOMAIN pc
         /\ pc[p] = "sleep" => nap[p] <= 1
         /\ pc[p] \notin Asleep => nap[p] = 0
         /\ Queued(p) => Here(p)
         /\ Here(p) <=> pc[p] \in InLoop \/ (pc[p] = "claim" /\ my[p].count # NoNumber)
         /\ Here(p) => 0 <= my[p].count /\ my[p].count < count
         /\ \A q \in Procs : Here(p) /\ Here(q) /\ my[p].count = my[q].count => p = q
<1>1. /\ my[p] \in Locals /\ nap[p] \in 0..2 /\ pc[p] \in Resting \cup Passing
      /\ p \in DOMAIN my /\ p \in DOMAIN pc
  BY DEF SeatInv, TypeOK
<1>2. PassInv(p) /\ (pc[p] \in InLoop => my[p].count # NoNumber) /\ my[p].count >= NoNumber
  BY DEF LineInv, NumberInv
<1>3. Queued(p) => Here(p)
  BY <1>2 DEF Queued, Here, PassInv, Waiting
<1>4. Here(p) <=> pc[p] \in InLoop \/ (pc[p] = "claim" /\ my[p].count # NoNumber)
  BY <1>1, <1>2 DEF Here, Waiting, PassInv, InLoop, Resting, Passing, Asleep
<1>5. Here(p) => 0 <= my[p].count /\ my[p].count < count
  BY <1>1, <1>2 DEF Here, Waiting, NumberInv, NumbersDistinct, NoNumber, Locals
<1>6. \A q \in Procs : Here(p) /\ Here(q) /\ my[p].count = my[q].count => p = q
  BY DEF Here, NumberInv, NumbersDistinct
<1> QED BY <1>1, <1>2, <1>3, <1>4, <1>5, <1>6 DEF PassInv

(* GapFree is kept by a step after which everybody who was in the queue is *)
(* still there with its number, and the number being served is the same.   *)
OnTrack(p) ==
  /\ ~Napping(p)
  /\ Waiting(p) /\ my[p].idie => my[p].count < wait
  /\ pc[p] \in {"out", "alloc", "load", "store"} => ~my[p].idie
Remains(q) ==
  /\ Queued(q)' <=> Queued(q)
  /\ Queued(q) => my'[q].count = my[q].count
  /\ OnTrack(q)'

(* If everybody remains, GapFree is kept.                                  *)
LEMMA RemainingKeepGapFree ==
  ASSUME GapFree, wait' = wait, count' = count, \A q \in Procs : Remains(q)
  PROVE  GapFree'
<1>1. \A q \in Procs : Queued(q)' => wait' <= my'[q].count
  BY DEF GapFree, Remains
<1>2. \A n \in wait' .. count' - 1 : \E q \in Procs : Queued(q)' /\ my'[q].count = n
  BY DEF GapFree, Remains
<1> QED BY <1>1, <1>2 DEF GapFree, Remains, OnTrack

(* Whoever does not move remains.                                          *)
LEMMA OthersRemain ==
  ASSUME NEW q \in Procs, pc'[q] = pc[q], my'[q] = my[q], OnTrack(q),
         wait \in Int, wait' \in Int, my[q] \in Locals, wait <= wait'
  PROVE  Remains(q)
  BY DEF Remains, OnTrack, Queued, Waiting, Napping, Locals

(* Nobody gives up or is passed by: the number being served is always that *)
(* of somebody who comes before anybody loses patience.                    *)
LEMMA NobodyLosesPatience ==
  ASSUME SeatInv, NumberInv, LineInv, GapFree, NEW p \in Procs, Lurk(p)
  PROVE  Waits(p) # 5
<1> SUFFICES ASSUME Waits(p) = 5 PROVE FALSE
  OBVIOUS
<1>0. /\ my[p] \in Locals /\ pc[p] = "serve" /\ ~my[p].idie /\ my[p].count # wait
      /\ wait \in Int /\ count \in Int
  BY HereFacts, LineTypes DEF Lurk, Step, SeatInv
<1>1. my[p].waits = 4 /\ my[p].oldwait = wait
  BY <1>0 DEF Waits, Locals
<1>2. Here(p) /\ Queued(p) /\ Watches(p) /\ Due(p) = 0
  BY <1>0, <1>1, HereFacts DEF InLoop, Here, Queued, Watches, Looked, Due, Asleep
<1>3. wait < my[p].count /\ my[p].count < count /\ my[p].count \in Int
  BY <1>0, <1>2, HereFacts DEF GapFree, Locals
<1>4. wait \in wait .. count - 1
  BY <1>0, <1>3
<1>5. PICK q \in Procs : Queued(q) /\ my[q].count = wait
  BY <1>4 DEF GapFree
<1>6. my[p].waits + ToServe(q) <= 3 + Due(p)
  BY <1>2, <1>5 DEF LineInv, Patience
<1>7. ToServe(q) \in 0..3
  BY LineTypes DEF SeatInv
<1> QED BY <1>1, <1>2, <1>6, <1>7

(* The steps of p that leave the queue as it is.                           *)
LEMMA RemainingActions ==
  ASSUME OneQueue, SeatInv, NumberInv, LineInv, GapFree, NEW p \in Procs,
         \/ Arrive(p) \/ Alloc(p) \/ Load(p) \/ ClaimAtOnce(p) \/ Enter(p)
         \/ StayAlive(p) \/ Wake(p) \/ Goodbye(p) \/ CountDown(p)
         \/ ReadAnswer(p) /\ answer <= MaxAhead
         \/ TestRequest(p) \/ Post(p) \/ SeeNothing(p) \/ SeeAgain(p)
         \/ SeeNew(p) \/ InLine(p) \/ Continue(p) \/ Served(p) \/ Lurk(p)
         \/ Leave(p)
  PROVE  Remains(p) /\ wait' = wait /\ count' = count
<1>0. /\ my[p] \in Locals /\ p \in DOMAIN pc /\ p \in DOMAIN my
      /\ PassInv(p) /\ (pc[p] \in InLoop => my[p].count # NoNumber)
      /\ OnTrack(p) /\ wait \in Int
      /\ Queued(p) => wait <= my[p].count
  BY HereFacts, LineTypes DEF LineInv, NumberInv, GapFree, OnTrack, SeatInv
<1> USE DEF Remains, OnTrack, Queued, Waiting, Napping, Step, tickets, PassInv
<1>1. CASE Arrive(p)
  BY <1>1, <1>0 DEF Arrive
<1>2. CASE Alloc(p)
  BY <1>2, <1>0 DEF Alloc, Locals
<1>3. CASE Load(p)
  BY <1>3, <1>0 DEF Load, Locals
<1>4. CASE ClaimAtOnce(p)
  BY <1>4, <1>0 DEF ClaimAtOnce, Take
<1>5. CASE Enter(p)
  BY <1>5, <1>0 DEF Enter, Fresh
<1>6. CASE StayAlive(p)
  BY <1>6, <1>0 DEF StayAlive
<1>7. CASE Wake(p)
  <2>1. pc[p] = "sleep" /\ p \in Procs
    BY <1>7 DEF Wake
  <2>2. Here(p) /\ count # 0
    BY <2>1, HereFacts DEF InLoop, Locals
  <2> QED BY <1>7, <1>0, <2>2 DEF Wake
<1>8. CASE Goodbye(p)
  <2>1. CASE slot[p] # NoSlot
    <3>1. /\ tickets' = tickets /\ my' = [my EXCEPT ![p].myRequest = 0]
          /\ pc[p] = "done" /\ pc'[p] = "enter" /\ my[p].idie
      BY <1>8, <2>1, <1>0 DEF Goodbye, SaidBye
    <3> QED BY <3>1, <1>0 DEF Locals
  <2>2. CASE slot[p] = NoSlot
    <3>1. /\ tickets' = tickets /\ my' = [my EXCEPT ![p] = Fresh]
          /\ pc[p] = "done" /\ pc'[p] = "gone" /\ my[p].idie
      BY <1>8, <2>2, <1>0 DEF Goodbye, SaidBye, Exits
    <3> QED BY <3>1, <1>0 DEF Fresh
  <2> QED BY <2>1, <2>2
<1>9. CASE CountDown(p)
  BY <1>9, <1>0 DEF CountDown, Locals
<1>10. CASE ReadAnswer(p) /\ answer <= MaxAhead
  <2>1. ~ (answer > MaxAhead)
    BY <1>10, WaitQueueAssumption DEF SeatInv, TypeOK
  <2>2. /\ tickets' = tickets /\ pc[p] = "done" /\ pc'[p] = "bye"
        /\ my'[p].count = my[p].count /\ my'[p].idie = my[p].idie
    BY <1>10, <1>0, <2>1 DEF ReadAnswer, Locals
  <2> QED BY <2>2, <1>0
<1>11. CASE TestRequest(p)
  BY <1>11, <1>0 DEF TestRequest
<1>12. CASE Post(p)
  BY <1>12, <1>0 DEF Post, Locals
<1>13. CASE SeeNothing(p)
  BY <1>13, <1>0 DEF SeeNothing
<1>14. CASE SeeAgain(p)
  BY <1>14, <1>0 DEF SeeAgain, Locals
<1>15. CASE SeeNew(p)
  BY <1>15, <1>0 DEF SeeNew, Locals
<1>16. CASE InLine(p)
  <2>1. pc[p] \in InLoop /\ pc[p] = "inline"
    BY <1>16 DEF InLine, InLoop
  <2>2. wait <= my[p].count \/ my[p].idie
    BY <2>1, <1>0
  <2> QED BY <1>16, <1>0, <2>1, <2>2 DEF InLine, Locals
<1>17. CASE Continue(p)
  BY <1>17, <1>0 DEF Continue
<1>18. CASE Served(p)
  BY <1>18, <1>0 DEF Served, Locals
<1>19. CASE Lurk(p)
  <2>1. /\ wait' = wait /\ count' = count
        /\ pc[p] = "serve" /\ pc'[p] = "loop"
        /\ my' = [my EXCEPT ![p].oldwait = wait, ![p].waits = Waits(p)]
    BY <1>19, <1>0, NobodyLosesPatience DEF Lurk
  <2>2. my'[p].count = my[p].count /\ my'[p].idie = my[p].idie
    BY <2>1, <1>0 DEF Locals
  <2> QED BY <2>1, <2>2, <1>0
<1>20. CASE Leave(p)
  BY <1>20, <1>0 DEF Leave, Exits, Fresh
<1> QED BY <1>1, <1>2, <1>3, <1>4, <1>5, <1>6, <1>7, <1>8, <1>9, <1>10, <1>11,
           <1>12, <1>13, <1>14, <1>15, <1>16, <1>17, <1>18, <1>19, <1>20

(* A new number closes the queue up at the end, a claim at the beginning.  *)
LEMMA StoreKeepsGapFree ==
  ASSUME OneQueue, SeatInv, NumberInv, LineInv, GapFree, NEW p \in Procs, Store(p)
  PROVE  GapFree' /\ wait' = wait
<1>1. /\ my'[p].count = count /\ my'[p].idie = my[p].idie
      /\ count' = count + 1 /\ wait' = wait
      /\ pc[p] = "store" /\ pc'[p] = "loop"
  BY HereFacts DEF Store, Step, NumberInv, Locals
<1>2. /\ wait \in Int /\ count \in Int /\ wait <= count /\ count # NoNumber
  BY LineTypes DEF SeatInv, LineInv, PassedBy, NumberInv, NoNumber
<1>3. \A q \in Procs \ {p} : pc'[q] = pc[q] /\ my'[q] = my[q]
  BY Alone DEF OneQueue, Run
<1>4. \A q \in Procs : my[q] \in Locals
  BY HereFacts
<1>5. \A q \in Procs \ {p} : Remains(q)
  BY <1>1, <1>2, <1>3, <1>4, OthersRemain DEF GapFree, OnTrack
<1>6. Queued(p)' /\ OnTrack(p)' /\ ~Queued(p)
  BY <1>1, <1>2 DEF Queued, Waiting, OnTrack, Napping, GapFree
<1>7. \A q \in Procs : Queued(q)' => wait' <= my'[q].count
  BY <1>1, <1>2, <1>5 DEF Remains, GapFree
<1>8. ASSUME NEW n \in wait' .. count' - 1
      PROVE  \E q \in Procs : Queued(q)' /\ my'[q].count = n
  <2>1. n = count \/ n \in wait .. count - 1
    BY <1>1, <1>2
  <2>2. CASE n = count
    BY <2>2, <1>1, <1>6
  <2>3. CASE n \in wait .. count - 1
    BY <2>3, <1>5, <1>6 DEF GapFree, Remains
  <2> QED BY <2>1, <2>2, <2>3
<1> QED BY <1>1, <1>5, <1>6, <1>7, <1>8 DEF GapFree, Remains, OnTrack

(* The number being served leaves the queue and the next one is served.    *)
LEMMA ClaimInTurnKeepsGapFree ==
  ASSUME OneQueue, SeatInv, NumberInv, LineInv, GapFree, NEW p \in Procs,
         ClaimInTurn(p)
  PROVE  GapFree' /\ wait' = wait + 1
<1>1. /\ my'[p].count = wait /\ my[p].count = wait /\ my'[p].idie
      /\ count' = count /\ wait' = wait + 1
      /\ pc[p] = "claim" /\ pc'[p] = "loop"
  BY HereFacts DEF ClaimInTurn, Take, Step, LineInv, PassInv, Locals
<1>2. /\ wait \in Int /\ count \in Int /\ wait # NoNumber
  BY <1>1, LineTypes DEF SeatInv, ClaimInTurn
<1>3. \A q \in Procs \ {p} : pc'[q] = pc[q] /\ my'[q] = my[q]
  BY Alone DEF OneQueue, Run
<1>4. \A q \in Procs : my[q] \in Locals
  BY HereFacts
<1>5. \A q \in Procs \ {p} : Remains(q)
  BY <1>1, <1>2, <1>3, <1>4, OthersRemain DEF GapFree, OnTrack
<1>6. ~ Queued(p)' /\ OnTrack(p)' /\ Queued(p)
  BY <1>1, <1>2 DEF Queued, Waiting, OnTrack, Napping, LineInv, PassInv
<1>7. \A q \in Procs \ {p} : Queued(q) => my[q].count # wait
  BY <1>1, <1>6, InQueue
<1>8. ASSUME NEW q \in Procs, Queued(q)' PROVE wait' <= my'[q].count
  <2>1. q # p /\ Queued(q) /\ my'[q].count = my[q].count /\ my[q].count \in Int
    BY <1>4, <1>5, <1>6, <1>8 DEF Remains, Locals
  <2> QED BY <2>1, <1>1, <1>2, <1>7 DEF GapFree
<1>9. ASSUME NEW n \in wait' .. count' - 1
      PROVE  \E q \in Procs : Queued(q)' /\ my'[q].count = n
  <2>1. n \in wait .. count - 1 /\ n # wait
    BY <1>1, <1>2
  <2>2. PICK q \in Procs : Queued(q) /\ my[q].count = n
    BY <2>1 DEF GapFree
  <2>3. q # p
    BY <2>1, <2>2, <1>1
  <2> QED BY <2>2, <2>3, <1>5 DEF Remains
<1> QED BY <1>1, <1>5, <1>6, <1>8, <1>9 DEF GapFree, Remains, OnTrack

(* The steps that NobodyVanishes allows.                                   *)
StaysIn ==
  \A p \in Procs : /\ Crash(p) => ~Waiting(p)
                   /\ ReadAnswer(p) => answer <= MaxAhead

(* Nobody naps, and wait only grows. *)
LEMMA GapFreeStep ==
  ASSUME OneQueue, SeatInv, NumberInv, LineInv, GapFree, daemonUp,
         [Next]_vars, [StaysIn]_vars
  PROVE  GapFree' /\ wait <= wait'
<1>0. wait \in Int /\ \A q \in Procs : OnTrack(q) /\ my[q] \in Locals
  BY LineTypes, HereFacts DEF SeatInv, GapFree, OnTrack
<1>1. ASSUME wait' = wait, count' = count, pc' = pc, my' = my
      PROVE  GapFree' /\ wait <= wait'
  BY <1>0, <1>1, OthersRemain, RemainingKeepGapFree
<1>2. ASSUME NEW p \in Procs, Remains(p), wait' = wait, count' = count,
             \A q \in Procs \ {p} : pc'[q] = pc[q] /\ my'[q] = my[q]
      PROVE  GapFree' /\ wait <= wait'
  <2>1. \A q \in Procs : Remains(q)
    BY <1>0, <1>2, OthersRemain
  <2> QED BY <1>0, <1>2, <2>1, RemainingKeepGapFree
<1>3. ASSUME NEW p \in Procs, Run(p) \/ Arrive(p) \/ Quit(p) \/ Leave(p)
      PROVE  GapFree' /\ wait <= wait'
  <2>1. \A q \in Procs \ {p} : pc'[q] = pc[q] /\ my'[q] = my[q]
    BY <1>3, Alone DEF OneQueue
  <2>2. ~ Quit(p) /\ ~ NapOver(p)
    BY DEF OneQueue, Quit, NapOver, GapFree, Napping, SeatInv, TypeOK, Step
  <2>3. ReadAnswer(p) => answer <= MaxAhead
    <3>1. CASE UNCHANGED vars
      BY <3>1 DEF vars, ReadAnswer, Step, SeatInv, TypeOK
    <3> QED BY <3>1 DEF StaysIn
  <2>4. CASE Store(p)
    BY <2>4, <1>0, StoreKeepsGapFree
  <2>5. CASE ClaimInTurn(p)
    BY <2>5, <1>0, ClaimInTurnKeepsGapFree
  <2>6. CASE ~ Store(p) /\ ~ ClaimInTurn(p)
    <3>1. Remains(p) /\ wait' = wait /\ count' = count
      BY <1>3, <2>2, <2>3, <2>6, RemainingActions DEF Run
    <3> QED BY <1>2, <2>1, <3>1
  <2> QED BY <2>4, <2>5, <2>6
<1>4. ASSUME NEW p \in Procs, Crash(p) PROVE GapFree' /\ wait <= wait'
  <2>1. /\ tickets' = tickets /\ pc' = [pc EXCEPT ![p] = "gone"]
        /\ my' = [my EXCEPT ![p] = Fresh]
        /\ pc[p] # "gone"
    BY <1>4 DEF Crash, Exits
  <2>2. pc' # pc
    BY <2>1, HereFacts
  <2>3. ~ Waiting(p)
    BY <1>4, <2>2 DEF StaysIn, vars
  <2>4. Remains(p)
    BY <2>1, <2>3, HereFacts DEF Remains, OnTrack, Queued, Waiting, Napping, Fresh
  <2>5. \A q \in Procs \ {p} : pc'[q] = pc[q] /\ my'[q] = my[q]
    BY <2>1, HereFacts
  <2> QED BY <1>2, <2>1, <2>4, <2>5 DEF tickets
<1>5. ASSUME NEW i \in Slots, GhostBust(i) PROVE GapFree' /\ wait <= wait'
  BY <1>1, <1>5 DEF GhostBust, tickets
<1>6. CASE Tick \/ AllGone \/ UNCHANGED vars
  BY <1>1, <1>6 DEF Tick, AllGone, vars, tickets
<1>7. ~ DaemonDies
  BY DEF DaemonDies, OneQueue
<1> QED BY <1>3, <1>4, <1>5, <1>6, <1>7 DEF Next

(* The quantities of MailInv are small numbers, before and after a step.   *)
LEMMA MailTypes ==
  ASSUME TypeOK, NEW q \in Procs
  PROVE  /\ my[q].count \in Int /\ my[q].pseudocount \in Int
         /\ my[q].lastNumber \in Int /\ my[q].reqCount \in 0..9
         /\ my[q].myRequest \in 0..4 /\ my[q].lastRequest \in Requests
         /\ nap[q] \in 0..2 /\ NextDone(q) \in 0..2 /\ NextLook(q) \in 0..2
         /\ Left(q) \in 0..6
         /\ wait \in Int /\ count \in Int /\ number \in Int /\ answer \in Int
  BY DEF TypeOK, Locals, NextDone, NextLook, Left

(* The same after a step.                                                  *)
LEMMA MailTypesAfter ==
  ASSUME TypeOK', NEW q \in Procs
  PROVE  /\ my'[q].count \in Int /\ my'[q].pseudocount \in Int
         /\ my'[q].lastNumber \in Int /\ my'[q].reqCount \in 0..9
         /\ my'[q].myRequest \in 0..4 /\ my'[q].lastRequest \in Requests
         /\ nap'[q] \in 0..2 /\ NextDone(q)' \in 0..2 /\ NextLook(q)' \in 0..2
         /\ Left(q)' \in 0..6
         /\ wait' \in Int /\ count' \in Int /\ number' \in Int /\ answer' \in Int
  BY DEF TypeOK, Locals, NextDone, NextLook, Left

(* Only one request is up at a time. *)
LEMMA PosterAlone ==
  ASSUME SeatInv, NumberInv, LineInv, MailInv, NEW p \in Procs, Posts(p)
  PROVE  /\ Here(p) /\ request # "REQFREE" /\ number = my[p].count
         /\ request = "REQDEAD" => my[p].idie
         /\ request = "REQWHO" => my[p].pseudocount = -1
         /\ \A q \in Procs : Posts(q) => q = p
<1>1. \A q \in Procs : Posts(q) => Here(q) /\ number = my[q].count
  BY DEF MailInv, Letter
<1> QED BY <1>1, HereFacts DEF MailInv, Letter

(* What MailInv and CountInv say of q stays true when the following does.  *)
Calm(q) ==
  /\ Here(q)' <=> Here(q)
  /\ Posts(q)' <=> Posts(q)
  /\ Letter(q)'
  /\ Here(q) =>
       /\ my'[q].count = my[q].count /\ my'[q].pseudocount = my[q].pseudocount
       /\ my'[q].lastRequest = my[q].lastRequest
       /\ my'[q].lastNumber = my[q].lastNumber
       /\ Posts(q) => Left(q)' = Left(q)
       /\ ~Posts(q) /\ request # "REQFREE" =>
            IF Saw(q, request, number)
              THEN my'[q].reqCount + NextLook(q) <= my[q].reqCount + NextLook(q)'
              ELSE NextLook(q)' <= NextLook(q)

Same(q) == pc'[q] = pc[q] /\ my'[q] = my[q] /\ nap'[q] = nap[q]

(* Whoever does not move keeps its part in the mailbox.                    *)
LEMMA SameMail ==
  ASSUME NEW q \in Procs, Same(q)
  PROVE  /\ Here(q)' <=> Here(q)
         /\ Posts(q)' <=> Posts(q)
         /\ Left(q)' = Left(q) /\ NextLook(q)' = NextLook(q)
         /\ my'[q] = my[q]
  BY DEF Same, Here, Waiting, Posts, Left, NextDone, NextLook

(* It keeps what it knows, if its own request stays up.                    *)
LEMMA SameLetter ==
  ASSUME TypeOK, TypeOK', NEW q \in Procs, Same(q), pc[q] \notin Passing, Letter(q),
         count <= count',
         Posts(q) => request' = request /\ number' = number
  PROVE  Letter(q)'
<1>1. pc'[q] \notin {"postdead", "postwho", "alloc", "load", "store"}
  BY DEF Same, Passing
<1>2. pc'[q] = "out" => my'[q].lastRequest = "REQFREE" /\ my'[q].pseudocount = -1
  BY DEF Same, Letter
<1>3. Posts(q)' => /\ Here(q)' /\ request' # "REQFREE" /\ number' = my'[q].count
                   /\ request' = "REQDEAD" => my'[q].idie
                   /\ request' = "REQWHO" => my'[q].pseudocount = -1
  BY SameMail DEF Letter
<1>4. Here(q)' /\ my'[q].lastRequest # "REQFREE" => my'[q].lastNumber < count'
  BY SameMail, MailTypes, MailTypesAfter DEF Letter
<1>5. my'[q].pseudocount >= -1
  BY DEF Same, Letter
<1> QED BY <1>1, <1>2, <1>3, <1>4, <1>5 DEF Letter

(* So it is calm when the mailbox stays as it is.                          *)
LEMMA SameCalm ==
  ASSUME TypeOK, TypeOK', NEW q \in Procs, Same(q), pc[q] \notin Passing, Letter(q),
         count <= count', UNCHANGED mailbox
  PROVE  Calm(q)
<1>1. Letter(q)'
  BY SameLetter DEF mailbox
<1> QED BY <1>1, SameMail, MailTypes DEF Calm

(* Whoever counts on at least as many as come before it still does if no   *)
(* others do.                                                              *)
LEMMA ToldStays ==
  ASSUME IsFiniteSet(Procs), NEW p \in Procs, Told(p), Before(p)' \subseteq Before(p),
         my'[p].pseudocount = my[p].pseudocount, my[p].pseudocount \in Int
  PROVE  Told(p)'
<1>1. Before(p) \subseteq Procs
  BY DEF Before
<1>2. IsFiniteSet(Before(p))
  BY <1>1, FS_Subset
<1>3. /\ Cardinality(Before(p)) \in Nat
      /\ IsFiniteSet(Before(p)')
      /\ Cardinality(Before(p)') <= Cardinality(Before(p))
  BY <1>2, FS_Subset, FS_CardinalityType
<1>4. Cardinality(Before(p)') \in Nat
  BY <1>3, FS_CardinalityType
<1>5. Cardinality(Before(p)') <= my'[p].pseudocount
  BY <1>3, <1>4 DEF Told
<1> QED BY <1>5 DEF Told

(* MailInv and CountInv are kept if everybody is calm.                     *)
LEMMA CalmStep ==
  ASSUME SeatInv, NumberInv, LineInv, MailInv, CountInv, TypeOK',
         IsFiniteSet(Procs), UNCHANGED mailbox, wait <= wait',
         \A q \in Procs : Calm(q)
  PROVE  MailInv' /\ CountInv'
<1> USE DEF mailbox
<1>0. TypeOK
  BY DEF SeatInv
<1>1. request' # "REQFREE" => \E p \in Procs : Posts(p)'
  BY DEF MailInv, Calm
<1>2. \A p \in Procs : Letter(p)'
  BY DEF Calm
<1>3. ASSUME NEW p \in Procs, NEW q \in Procs, Posts(p)', Here(q)', q # p
      PROVE  Punctual(p, q)'
  <2>1. Posts(p) /\ Here(q) /\ Here(p) /\ request # "REQFREE" /\ ~Posts(q)
    BY <1>3, PosterAlone DEF Calm
  <2>2. Punctual(p, q)
    BY <1>3, <2>1 DEF MailInv
  <2>3. /\ my'[q].count = my[q].count /\ Left(p)' = Left(p)
        /\ Saw(q, request, number)' <=> Saw(q, request, number)
    BY <2>1 DEF Calm, Saw
  <2>4. IF Saw(q, request, number)
          THEN my'[q].reqCount + NextLook(q) <= my[q].reqCount + NextLook(q)'
          ELSE NextLook(q)' <= NextLook(q)
    BY <2>1 DEF Calm
  <2>5. /\ my[q].reqCount \in 0..9 /\ my'[q].reqCount \in 0..9 /\ Left(p) \in 0..6
        /\ NextLook(q) \in 0..2 /\ NextLook(q)' \in 0..2
    BY <1>0, MailTypes, MailTypesAfter
  <2>6. CASE Saw(q, request, number)
    <3>1. my[q].reqCount + Left(p) <= 5 + NextLook(q)
      BY <2>2, <2>6 DEF Punctual
    <3>2. my'[q].reqCount + Left(p)' <= 5 + NextLook(q)'
      BY <3>1, <2>3, <2>4, <2>5, <2>6
    <3> QED BY <3>2, <2>3, <2>6 DEF Punctual
  <2>7. CASE ~Saw(q, request, number)
    <3>1. my[q].count < number => NextLook(q) + 4 <= Left(p)
      BY <2>2, <2>7 DEF Punctual
    <3>2. my'[q].count < number' => NextLook(q)' + 4 <= Left(p)'
      BY <3>1, <2>3, <2>4, <2>5, <2>7
    <3> QED BY <3>2, <2>3, <2>7 DEF Punctual
  <2> QED BY <2>6, <2>7
<1>4. ASSUME NEW p \in Procs, NEW q \in Procs, Here(p)', Here(q)',
             Saw(q, "REQDEAD", my[p].count)'
      PROVE  request' = "REQDEAD" /\ number' = my'[p].count
  BY <1>4 DEF Calm, Saw, MailInv
<1>5. MailInv'
  BY <1>1, <1>2, <1>3, <1>4 DEF MailInv
<1>6. ASSUME NEW p \in Procs, Here(p)' PROVE Unasked(p)' \/ Asking(p)' \/ Told(p)'
  <2>1. /\ Here(p) /\ my'[p].count = my[p].count
        /\ my'[p].pseudocount = my[p].pseudocount
        /\ Posts(p)' <=> Posts(p)
    BY <1>6 DEF Calm
  <2>2. Before(p)' = Before(p) /\ Answered(p)' = Answered(p)
    <3>1. \A q \in Procs : q \in Before(p)' <=> q \in Before(p)
      BY <2>1 DEF Before, Saw, Calm
    <3>2. Before(p)' \subseteq Procs /\ Before(p) \subseteq Procs
      BY DEF Before
    <3>3. Before(p)' = Before(p)
      BY <3>1, <3>2
    <3>4. \A q \in Before(p) : Saw(q, "REQWHO", my[p].count)' <=>
                                 Saw(q, "REQWHO", my[p].count)
      BY <2>1 DEF Before, Saw, Calm
    <3> QED BY <3>3, <3>4 DEF Answered
  <2>3. CASE Unasked(p)
    <3>1. \A q \in Procs : Here(q)' => ~ Saw(q, "REQWHO", my[p].count)'
      BY <2>1, <2>3 DEF Unasked, Calm, Saw
    <3>2. my'[p].pseudocount # -1 => my'[p].count <= wait'
      BY <1>0, <2>1, <2>3, MailTypes, MailTypesAfter DEF Unasked
    <3> QED BY <2>1, <2>3, <3>1, <3>2 DEF Unasked
  <2>4. CASE Asking(p)
    BY <2>1, <2>2, <2>4 DEF Asking
  <2>5. CASE Told(p)
    BY <2>1, <2>2, <2>5 DEF Told
  <2> QED BY <2>1, <2>3, <2>4, <2>5 DEF CountInv
<1> QED BY <1>5, <1>6 DEF CountInv

(* Nobody sees a request so often as to take its poster for dead.          *)
LEMMA NeverTakenForDead ==
  ASSUME SeatInv, NumberInv, LineInv, MailInv, NEW q \in Procs, SeeAgain(q)
  PROVE  request' = request /\ my[q].reqCount + 1 <= 8
<1>1. /\ Foreign(q) /\ SeenBefore(q) /\ pc[q] = "observe" /\ TypeOK
  BY DEF SeeAgain, Step, SeatInv
<1>2. PICK p \in Procs : Posts(p)
  BY <1>1 DEF Foreign, MailInv
<1>3. p # q /\ Here(q) /\ Saw(q, request, number)
  BY <1>1, <1>2, HereFacts DEF Foreign, Posts, SeenBefore, Saw, InLoop
<1>4. my[q].reqCount + Left(p) <= 5 + NextLook(q)
  BY <1>2, <1>3 DEF MailInv, Punctual
<1>5. NextLook(q) = 0 /\ Left(p) \in 0..6 /\ my[q].reqCount \in 0..9
  BY <1>1, MailTypes DEF NextLook
<1>6. my[q].reqCount + 1 <= 8
  BY <1>4, <1>5
<1> QED BY <1>5, <1>6 DEF SeeAgain

(* The steps of p that leave the mailbox, and what p knows of it, alone.   *)
LEMMA CalmActions ==
  ASSUME OneQueue, SeatInv, NumberInv, LineInv, GapFree, MailInv, NEW p \in Procs,
         \/ Arrive(p) \/ Alloc(p) \/ Load(p) \/ ClaimAtOnce(p) \/ Enter(p)
         \/ StayAlive(p) \/ Wake(p) \/ CountDown(p) \/ TestRequest(p)
         \/ SeeNothing(p) \/ SeeAgain(p) \/ InLine(p) \/ Continue(p)
         \/ Served(p) \/ ClaimInTurn(p) \/ Lurk(p) \/ Leave(p)
  PROVE  Calm(p) /\ UNCHANGED mailbox
<1>0. /\ my[p] \in Locals /\ p \in DOMAIN pc /\ p \in DOMAIN my /\ p \in DOMAIN nap
      /\ PassInv(p) /\ (pc[p] \in InLoop => my[p].count # NoNumber)
      /\ Letter(p) /\ nap[p] \in 0..2
  BY HereFacts DEF LineInv, NumberInv, MailInv, SeatInv, TypeOK
<1> USE DEF Calm, Letter, Here, Waiting, Posts, Left, NextDone, NextLook, Saw, Step,
            mailbox, tickets
<1>1. CASE Arrive(p)
  BY <1>1, <1>0 DEF Arrive, PassInv
<1>2. CASE Alloc(p)
  BY <1>2, <1>0 DEF Alloc, Locals, PassInv
<1>3. CASE Load(p)
  BY <1>3, <1>0 DEF Load, Locals, PassInv
<1>4. CASE ClaimAtOnce(p)
  BY <1>4, <1>0 DEF ClaimAtOnce, Take
<1>5. CASE Enter(p)
  BY <1>5, <1>0 DEF Enter, Fresh
<1>6. CASE StayAlive(p)
  BY <1>6, <1>0 DEF StayAlive, Locals
<1>7. CASE Wake(p)
  <2>1. pc[p] = "sleep" /\ p \in Procs
    BY <1>7 DEF Wake
  <2>2. count # 0
    BY <2>1, HereFacts DEF InLoop, Locals
  <2> QED BY <1>7, <1>0, <2>2 DEF Wake, Locals
<1>8. CASE CountDown(p)
  <2>1. /\ my[p].myRequest # 1 /\ pc[p] = "done" /\ pc'[p] = "bye"
        /\ my' = [my EXCEPT ![p].myRequest = IF @ = 0 THEN 0 ELSE @ - 1]
        /\ UNCHANGED <<mailbox, tickets, nap>>
    BY <1>8, <1>0 DEF CountDown
  <2> QED BY <2>1, <1>0 DEF Locals, Asleep
<1>9. CASE TestRequest(p)
  BY <1>9, <1>0 DEF TestRequest, Locals
<1>10. CASE SeeNothing(p)
  BY <1>10, <1>0 DEF SeeNothing, Locals, Foreign
<1>11. CASE SeeAgain(p)
  <2>1. /\ pc[p] = "observe" /\ pc'[p] = "inline"
        /\ request' = request /\ UNCHANGED <<tickets, number, answer, nap>>
        /\ my' = [my EXCEPT ![p].reqCount = IF @ < 9 THEN @ + 1 ELSE 9]
        /\ my[p].reqCount + 1 <= 8 /\ SeenBefore(p)
    BY <1>11, <1>0, NeverTakenForDead DEF SeeAgain
  <2>2. /\ my'[p].reqCount = my[p].reqCount + 1
        /\ my'[p].count = my[p].count /\ my'[p].pseudocount = my[p].pseudocount
        /\ my'[p].lastRequest = my[p].lastRequest
        /\ my'[p].lastNumber = my[p].lastNumber
        /\ my'[p].myRequest = my[p].myRequest /\ my'[p].idie = my[p].idie
        /\ my[p].reqCount \in 0..9
    BY <2>1, <1>0 DEF Locals
  <2> QED BY <2>1, <2>2, <1>0 DEF SeenBefore
<1>12. CASE InLine(p)
  <2>1. pc[p] \in InLoop /\ pc[p] = "inline"
    BY <1>12 DEF InLine, InLoop
  <2>2. wait <= my[p].count \/ my[p].idie
    BY <2>1, <1>0 DEF GapFree, Queued
  <2>3. ~ (wait > my[p].count /\ ~my[p].idie)
    BY <2>2, <1>0, LineTypes DEF SeatInv
  <2> QED BY <1>12, <1>0, <2>3 DEF InLine, Locals
<1>13. CASE Continue(p)
  BY <1>13, <1>0 DEF Continue, Locals
<1>14. CASE Served(p)
  BY <1>14, <1>0 DEF Served, Locals, InLoop
<1>15. CASE ClaimInTurn(p)
  BY <1>15, <1>0 DEF ClaimInTurn, Take, Locals
<1>16. CASE Lurk(p)
  <2>1. /\ UNCHANGED <<mailbox, count, nap>>
        /\ pc[p] = "serve" /\ pc'[p] = "loop"
        /\ my' = [my EXCEPT ![p].oldwait = wait, ![p].waits = Waits(p)]
    BY <1>16, <1>0, NobodyLosesPatience DEF Lurk
  <2>2. /\ my'[p].reqCount = my[p].reqCount
        /\ my'[p].count = my[p].count /\ my'[p].pseudocount = my[p].pseudocount
        /\ my'[p].lastRequest = my[p].lastRequest
        /\ my'[p].lastNumber = my[p].lastNumber
        /\ my'[p].myRequest = my[p].myRequest /\ my'[p].idie = my[p].idie
    BY <2>1, <1>0 DEF Locals
  <2> QED BY <2>1, <2>2, <1>0 DEF Locals
<1>17. CASE Leave(p)
  BY <1>17, <1>0 DEF Leave, Exits, Fresh, PassInv
<1> QED BY <1>1, <1>2, <1>3, <1>4, <1>5, <1>6, <1>7, <1>8, <1>9, <1>10, <1>11,
           <1>12, <1>13, <1>14, <1>15, <1>16, <1>17

(* A newcomer has the highest number: it has seen and asked nothing, and   *)
(* nobody with a number below has to be told of it.                        *)
LEMMA StoreKeepsMail ==
  ASSUME OneQueue, SeatInv, NumberInv, LineInv, MailInv, CountInv, TypeOK',
         IsFiniteSet(Procs), NEW p \in Procs, Store(p)
  PROVE  MailInv' /\ CountInv'
<1>0. /\ my[p] \in Locals /\ TypeOK /\ pc[p] = "store" /\ my[p].count = count
      /\ Letter(p) /\ count \in Int /\ wait \in Int
      /\ p \in DOMAIN my /\ p \in DOMAIN pc
  BY HereFacts, LineTypes DEF SeatInv, NumberInv, MailInv, Store, Step
<1>1. /\ my'[p].count = count /\ count' = count + 1 /\ wait' = wait
      /\ my'[p].lastRequest = "REQFREE" /\ my'[p].myRequest = 0
      /\ my'[p].pseudocount # -1 => count <= wait
      /\ my'[p].pseudocount \in {-1, 0}
      /\ UNCHANGED <<mailbox, nap>>
      /\ pc'[p] = "loop"
  <2>1. ~Posts(p)
    BY <1>0 DEF Letter, Here, Waiting
  <2>2. my[p].myRequest = 0
    BY <2>1, <1>0 DEF Posts, Locals
  <2>3. my[p].lastRequest = "REQFREE" /\ my[p].pseudocount = -1
    BY <1>0 DEF Letter
  <2> QED BY <1>0, <2>2, <2>3 DEF Store, Step, Locals
<1>2. \A q \in Procs \ {p} : Same(q) /\ pc[q] \notin Passing
  <2>1. \A q \in Procs \ {p} : pc[q] \notin Passing /\ pc'[q] = pc[q] /\ my'[q] = my[q]
    BY Alone DEF OneQueue, Run
  <2> QED BY <1>1, <2>1 DEF Same
<1>3. \A q \in Procs \ {p} : Calm(q)
  BY <1>0, <1>1, <1>2, SameCalm DEF MailInv
<1>4. Here(p)' /\ ~Posts(p)' /\ ~Here(p) /\ ~Posts(p)
  <2>1. my'[p].count # NoNumber
    BY <1>0, <1>1 DEF NumberInv, NoNumber
  <2> QED BY <1>0, <1>1, <2>1 DEF Here, Waiting, Posts, Letter
<1>5. Letter(p)'
  BY <1>1, <1>4 DEF Letter
<1>6. \A q \in Procs : Here(q) => /\ q # p /\ my'[q] = my[q] /\ Here(q)'
                                  /\ my[q].count < count
                                  /\ my[q].lastRequest # "REQFREE" =>
                                       my[q].lastNumber < count
  BY <1>2, <1>3, <1>4, HereFacts DEF Calm, MailInv, Letter, Same
<1>7. \A q \in Procs : Here(q)' => q = p \/ Here(q)
  BY <1>3 DEF Calm
<1>9. MailInv'
  <2>1. request' # "REQFREE" => \E s \in Procs : Posts(s)'
    BY <1>1, <1>3, <1>4 DEF MailInv, Calm, mailbox
  <2>2. \A q \in Procs : Letter(q)'
    BY <1>3, <1>5 DEF Calm
  <2>3. answer' >= 0
    BY <1>1 DEF mailbox, MailInv
  <2>4. ASSUME NEW s \in Procs, NEW q \in Procs, Posts(s)', Here(q)', q # s
        PROVE  Punctual(s, q)'
    <3>1. s # p /\ Posts(s) /\ Here(s) /\ request # "REQFREE" /\ number = my[s].count
      BY <1>3, <1>4, <2>4, PosterAlone DEF Calm
    <3>2. CASE q = p
      <4>1. ~Saw(q, request, number)'
        BY <1>1, <3>1, <3>2 DEF Saw, mailbox
      <4>2. ~ (my'[q].count < number')
        BY <1>0, <1>1, <1>6, <3>1, <3>2, MailTypes DEF mailbox
      <4> QED BY <4>1, <4>2 DEF Punctual
    <3>3. CASE q # p
      <4>1. Same(s) /\ Same(q) /\ Here(q) /\ Punctual(s, q)
        BY <1>2, <1>7, <2>4, <3>1, <3>3 DEF MailInv
      <4> QED BY <1>1, <4>1, SameMail DEF Punctual, Saw, mailbox
    <3> QED BY <3>2, <3>3
  <2>5. ASSUME NEW s \in Procs, NEW q \in Procs, Here(s)', Here(q)',
               Saw(q, "REQDEAD", my[s].count)'
        PROVE  request' = "REQDEAD" /\ number' = my'[s].count
    <3>1. s # p
      <4> SUFFICES ASSUME s = p PROVE FALSE
        OBVIOUS
      <4>1. my'[q].lastRequest = "REQDEAD" /\ my'[q].lastNumber = count
        BY <1>1, <2>5 DEF Saw
      <4>2. q # p /\ Here(q) /\ my'[q] = my[q]
        BY <1>1, <1>6, <1>7, <2>5, <4>1
      <4>3. my[q].lastNumber < count /\ my[q].lastNumber = count
        BY <1>6, <4>1, <4>2
      <4> QED BY <1>0, <4>3
    <3>2. q # p
      BY <1>1, <2>5 DEF Saw
    <3>3. Here(s) /\ Here(q) /\ my'[s] = my[s] /\ my'[q] = my[q]
      BY <1>6, <1>7, <2>5, <3>1, <3>2
    <3> QED BY <1>1, <2>5, <3>3 DEF Saw, MailInv, mailbox
  <2> QED BY <2>1, <2>2, <2>3, <2>4, <2>5 DEF MailInv
<1>10. ASSUME NEW s \in Procs, Here(s)' PROVE Unasked(s)' \/ Asking(s)' \/ Told(s)'
  <2>1. CASE s = p
    <3>1. \A q \in Procs : Here(q)' => ~Saw(q, "REQWHO", my[s].count)'
      <4> SUFFICES ASSUME NEW q \in Procs, Here(q)', Saw(q, "REQWHO", my[s].count)'
                   PROVE  FALSE
        OBVIOUS
      <4>1. my'[q].lastRequest = "REQWHO" /\ my'[q].lastNumber = count
        BY <1>1, <2>1 DEF Saw
      <4>2. q # p /\ Here(q) /\ my'[q] = my[q]
        BY <1>1, <1>6, <1>7, <4>1
      <4>3. my[q].lastNumber < count /\ my[q].lastNumber = count
        BY <1>6, <4>1, <4>2
      <4> QED BY <1>0, <4>3
    <3> QED BY <1>1, <1>4, <2>1, <3>1 DEF Unasked
  <2>2. CASE s # p
    <3>1. Here(s) /\ my'[s] = my[s] /\ Same(s) /\ (Posts(s)' <=> Posts(s))
      BY <1>2, <1>3, <1>6, <1>7, <1>10, <2>2 DEF Calm
    <3>2. \A q \in Procs : q \in Before(s)' <=> q \in Before(s)
      <4> SUFFICES ASSUME NEW q \in Procs
                   PROVE  q \in Before(s)' <=> q \in Before(s)
        OBVIOUS
      <4>1. CASE q = p
        <5>1. ~ (my'[q].count < my'[s].count)
          BY <1>0, <1>1, <1>6, <3>1, <4>1, MailTypes
        <5> QED BY <1>4, <4>1, <5>1 DEF Before
      <4>2. CASE q # p
        BY <1>6, <1>7, <1>2, <3>1, <4>2 DEF Before, Saw, Same
      <4> QED BY <4>1, <4>2
    <3>3. Before(s)' = Before(s)
      BY <3>2 DEF Before
    <3>4. Answered(s)' = Answered(s)
      <4>1. \A q \in Before(s) : Here(q) /\ q # p /\ my'[q] = my[q]
        BY <1>6 DEF Before
      <4> QED BY <3>1, <3>3, <4>1 DEF Answered, Saw
    <3>5. CASE Unasked(s)
      <4>1. \A q \in Procs : Here(q)' => ~Saw(q, "REQWHO", my[s].count)'
        <5> SUFFICES ASSUME NEW q \in Procs, Here(q)'
                     PROVE  ~Saw(q, "REQWHO", my[s].count)'
          OBVIOUS
        <5>1. CASE q = p
          BY <1>1, <5>1 DEF Saw
        <5>2. CASE q # p
          BY <1>6, <1>7, <3>1, <3>5, <5>2 DEF Saw, Unasked
        <5> QED BY <5>1, <5>2
      <4> QED BY <1>1, <3>1, <3>5, <4>1 DEF Unasked, mailbox
    <3>6. CASE Asking(s)
      BY <1>1, <3>1, <3>4, <3>6 DEF Asking, mailbox
    <3>7. CASE Told(s)
      BY <3>1, <3>3, <3>7 DEF Told
    <3> QED BY <3>1, <3>5, <3>6, <3>7 DEF CountInv
  <2> QED BY <2>1, <2>2
<1> QED BY <1>9, <1>10 DEF CountInv

(* What a step of p leaves of the others, if nobody else's locals change.  *)
LEMMA OthersSame ==
  ASSUME OneQueue, SeatInv, NEW p \in Procs, Run(p) \/ Leave(p),
         nap' = nap
  PROVE  \A q \in Procs \ {p} : Same(q) /\ pc[q] \notin Passing
  BY Alone DEF OneQueue, Same

(* p takes its goodbye down and goes: nobody else has anything posted, and *)
(* those behind it have one fewer to count.                                *)
LEMMA GoodbyeKeepsMail ==
  ASSUME OneQueue, SeatInv, NumberInv, LineInv, MailInv, CountInv, TypeOK',
         IsFiniteSet(Procs), NEW p \in Procs, Goodbye(p)
  PROVE  MailInv' /\ CountInv'
<1>0. /\ my[p] \in Locals /\ TypeOK /\ pc[p] = "done" /\ Letter(p)
      /\ p \in DOMAIN my /\ p \in DOMAIN pc
  BY HereFacts DEF SeatInv, MailInv, Goodbye, Step
<1>1. /\ Posts(p) /\ request = "REQDEAD" /\ request' = "REQFREE"
      /\ UNCHANGED <<tickets, number, answer, nap>>
      /\ pc'[p] \in {"enter", "gone"}
      /\ my'[p].myRequest = 0 /\ my'[p].pseudocount >= -1
  <2>1. /\ my[p].myRequest = 1 /\ request = "REQDEAD" /\ request' = "REQFREE"
        /\ UNCHANGED <<tickets, number, answer, nap>>
        /\ pc'[p] \in {"enter", "gone"}
    BY <1>0 DEF Goodbye, SaidBye, Step
  <2>2. my' = [my EXCEPT ![p].myRequest = 0] \/ my' = [my EXCEPT ![p] = Fresh]
    BY DEF Goodbye, Exits
  <2>3. my'[p].myRequest = 0 /\ my'[p].pseudocount >= -1
    BY <1>0, <2>2 DEF Locals, Fresh, Letter
  <2> QED BY <2>1, <2>3 DEF Posts
<1>2. \A q \in Procs \ {p} : Same(q) /\ pc[q] \notin Passing
  BY <1>1, OthersSame DEF Run
<1>3. number = my[p].count /\ \A q \in Procs \ {p} : ~Posts(q)
  BY <1>1, PosterAlone
<1>4. ~Here(p)' /\ ~Posts(p)' /\ Letter(p)'
  <2>1. ~Here(p)'
    <3>1. CASE pc'[p] = "enter"
      BY <3>1 DEF Here
    <3>2. CASE pc'[p] = "gone"
      <4>1. my' = [my EXCEPT ![p] = Fresh]
        BY <1>0, <3>2 DEF Goodbye, Step, Exits
      <4> QED BY <1>0, <4>1 DEF Here, Waiting, Fresh
    <3> QED BY <1>1, <3>1, <3>2
  <2> QED BY <1>1, <2>1 DEF Posts, Letter
<1>5. \A q \in Procs \ {p} : Letter(q)'
  BY <1>0, <1>1, <1>2, <1>3, SameLetter, MailTypes DEF MailInv, tickets
<1>6. \A q \in Procs : ~Posts(q)' /\ (Here(q)' => q # p /\ Here(q) /\ my'[q] = my[q])
  BY <1>2, <1>3, <1>4, SameMail
<1>7. MailInv'
  <2>1. \A s, q \in Procs : ~ (Here(s)' /\ Here(q)' /\ Saw(q, "REQDEAD", my[s].count)')
    <3> SUFFICES ASSUME NEW s \in Procs, NEW q \in Procs, Here(s)', Here(q)',
                        Saw(q, "REQDEAD", my[s].count)'
                 PROVE  FALSE
      OBVIOUS
    <3>1. s # p /\ Here(s) /\ Here(q) /\ Saw(q, "REQDEAD", my[s].count)
      BY <1>6 DEF Saw
    <3>2. number = my[s].count /\ Here(p)
      BY <1>1, <3>1, PosterAlone DEF MailInv
    <3> QED BY <1>3, <3>1, <3>2, HereFacts
  <2> QED BY <1>1, <1>4, <1>5, <1>6, <2>1 DEF MailInv
<1>8. ASSUME NEW s \in Procs, Here(s)' PROVE Unasked(s)' \/ Asking(s)' \/ Told(s)'
  <2>1. Here(s) /\ s # p /\ my'[s] = my[s] /\ ~Asking(s) /\ my[s].pseudocount \in Int
    BY <1>0, <1>1, <1>6, <1>8, MailTypes DEF Asking
  <2>2. Before(s)' \subseteq Before(s)
    BY <1>6, <2>1 DEF Before, Saw
  <2>3. CASE Unasked(s)
    <3>1. \A q \in Procs : Here(q)' => ~Saw(q, "REQWHO", my[s].count)'
      BY <1>6, <2>1, <2>3 DEF Unasked, Saw
    <3> QED BY <1>1, <1>6, <2>1, <2>3, <3>1 DEF Unasked, tickets
  <2>4. CASE Told(s)
    BY <2>1, <2>2, <2>4, ToldStays
  <2> QED BY <2>1, <2>3, <2>4 DEF CountInv
<1> QED BY <1>7, <1>8 DEF CountInv

(* Whoever has been told, by an answer or a count of its own, knows a      *)
(* number.                                                                 *)
LEMMA ToldIsKnown ==
  ASSUME IsFiniteSet(Procs), NEW p \in Procs, Told(p), my[p].pseudocount \in Int
  PROVE  my[p].pseudocount >= 0 /\ IsFiniteSet(Before(p))
<1>1. Before(p) \subseteq Procs
  BY DEF Before
<1>2. IsFiniteSet(Before(p))
  BY <1>1, FS_Subset
<1>3. Cardinality(Before(p)) \in Nat
  BY <1>2, FS_CardinalityType
<1> QED BY <1>2, <1>3 DEF Told

(* When p reads the answer, everybody before it has given one.             *)
LEMMA AllHaveAnswered ==
  ASSUME SeatInv, NumberInv, LineInv, MailInv, CountInv,
         IsFiniteSet(Procs), NEW p \in Procs, ReadAnswer(p)
  PROVE  /\ Posts(p) /\ request = "REQWHO"
         /\ Cardinality(Before(p)) <= answer
<1>0. /\ my[p] \in Locals /\ TypeOK /\ pc[p] = "done" /\ nap[p] = 0
      /\ my[p].myRequest = 1 /\ ~SaidBye(p)
  BY HereFacts DEF SeatInv, ReadAnswer, Step, Asleep
<1>1. Posts(p) /\ Left(p) = 1
  BY <1>0 DEF Posts, Left, NextDone
<1>2. /\ Here(p) /\ request # "REQFREE" /\ number = my[p].count
      /\ request = "REQDEAD" => my[p].idie
  BY <1>1, PosterAlone
<1>3. request = "REQWHO"
  BY <1>0, <1>2 DEF SaidBye, TypeOK, Requests
<1>4. my[p].pseudocount = -1
  BY <1>1, <1>3, PosterAlone
<1>5. ~Unasked(p)
  BY <1>1, <1>3 DEF Unasked
<1>6. ~Told(p)
  BY <1>4, ToldIsKnown
<1>7. Cardinality(Answered(p)) <= answer
  BY <1>2, <1>5, <1>6 DEF CountInv, Asking
<1>8. Answered(p) = Before(p)
  <2> SUFFICES ASSUME NEW q \in Before(p) PROVE Saw(q, "REQWHO", my[p].count)
    BY DEF Answered
  <2>1. q \in Procs /\ Here(q) /\ my[q].count < my[p].count
    BY DEF Before
  <2>2. q # p /\ NextLook(q) \in 0..2
    BY <1>0, <2>1, MailTypes
  <2>3. Punctual(p, q)
    BY <1>1, <2>1, <2>2 DEF MailInv
  <2> QED BY <1>1, <1>2, <1>3, <2>1, <2>2, <2>3 DEF Punctual
<1> QED BY <1>1, <1>3, <1>7, <1>8

(* p takes its question down and has been told.                            *)
LEMMA ReadAnswerKeepsMail ==
  ASSUME OneQueue, SeatInv, NumberInv, LineInv, MailInv, CountInv, TypeOK',
         IsFiniteSet(Procs), NEW p \in Procs, ReadAnswer(p)
  PROVE  MailInv' /\ CountInv'
<1>0. /\ my[p] \in Locals /\ TypeOK /\ pc[p] = "done" /\ Letter(p)
      /\ p \in DOMAIN my /\ p \in DOMAIN pc
  BY HereFacts DEF SeatInv, MailInv, ReadAnswer, Step
<1>1. /\ Posts(p) /\ request = "REQWHO" /\ Here(p)
      /\ number = my[p].count /\ Cardinality(Before(p)) <= answer
      /\ \A q \in Procs \ {p} : ~Posts(q)
  BY AllHaveAnswered, PosterAlone
<1>2. /\ request' = "REQFREE" /\ UNCHANGED <<tickets, number, answer, nap>>
      /\ pc'[p] = "bye"
      /\ my'[p].count = my[p].count /\ my'[p].lastRequest = my[p].lastRequest
      /\ my'[p].lastNumber = my[p].lastNumber
      /\ my'[p].myRequest = 0 /\ my'[p].pseudocount = answer /\ answer >= 0
  BY <1>0 DEF ReadAnswer, Step, Locals, MailInv
<1>3. \A q \in Procs \ {p} : Same(q) /\ pc[q] \notin Passing
  BY <1>2, OthersSame DEF Run
<1>4. Here(p)' /\ ~Posts(p)' /\ Letter(p)'
  <2>1. Here(p)' /\ ~Posts(p)'
    BY <1>1, <1>2 DEF Here, Waiting, Posts
  <2>2. my'[p].pseudocount >= -1
    BY <1>0, <1>2, MailTypes
  <2> QED BY <1>1, <1>0, <1>2, <2>1, <2>2 DEF Letter, tickets
<1>5. \A q \in Procs \ {p} : Letter(q)'
  BY <1>0, <1>1, <1>2, <1>3, SameLetter, MailTypes DEF MailInv, tickets
<1>6. \A q \in Procs : /\ ~Posts(q)'
                       /\ Here(q)' <=> Here(q)
                       /\ my'[q].count = my[q].count
                       /\ my'[q].lastRequest = my[q].lastRequest
                       /\ my'[q].lastNumber = my[q].lastNumber
  BY <1>1, <1>2, <1>3, <1>4, SameMail
<1>7. MailInv'
  <2>1. \A s, q \in Procs : ~ (Here(s)' /\ Here(q)' /\ Saw(q, "REQDEAD", my[s].count)')
    BY <1>1, <1>6 DEF Saw, MailInv
  <2> QED BY <1>2, <1>4, <1>5, <1>6, <2>1 DEF MailInv
<1>8. \A s \in Procs : Here(s) => Before(s)' \subseteq Before(s)
  BY <1>6 DEF Before, Saw
<1>9. ASSUME NEW s \in Procs, Here(s)' PROVE Unasked(s)' \/ Asking(s)' \/ Told(s)'
  <2>1. CASE s = p
    <3>1. Before(p) \subseteq Procs
      BY DEF Before
    <3>2. IsFiniteSet(Before(p)) /\ Before(p)' \subseteq Before(p)
      BY <1>1, <1>8, <3>1, FS_Subset
    <3>3. /\ Cardinality(Before(p)) \in Nat
          /\ IsFiniteSet(Before(p)')
          /\ Cardinality(Before(p)') <= Cardinality(Before(p))
      BY <3>2, FS_Subset, FS_CardinalityType
    <3>4. Cardinality(Before(p)') \in Nat /\ answer \in Int
      BY <1>0, <3>3, FS_CardinalityType, MailTypes
    <3>5. Cardinality(Before(p)') <= my'[p].pseudocount
      BY <1>1, <1>2, <3>3, <3>4
    <3> QED BY <2>1, <3>5 DEF Told
  <2>2. CASE s # p
    <3>1. Here(s) /\ my'[s] = my[s] /\ ~Asking(s) /\ my[s].pseudocount \in Int
      BY <1>0, <1>1, <1>3, <1>6, <1>9, <2>2, MailTypes DEF Asking, Same
    <3>2. CASE Unasked(s)
      <4>1. \A q \in Procs : Here(q)' => ~Saw(q, "REQWHO", my[s].count)'
        BY <1>6, <3>1, <3>2 DEF Unasked, Saw
      <4> QED BY <1>2, <1>6, <3>1, <3>2, <4>1 DEF Unasked, tickets
    <3>3. CASE Told(s)
      BY <1>8, <3>1, <3>3, ToldStays
    <3> QED BY <3>1, <3>2, <3>3 DEF CountInv
  <2> QED BY <2>1, <2>2
<1> QED BY <1>7, <1>9 DEF CountInv

(* p posts: the mailbox was free, so that nobody has seen the request yet, *)
(* and nobody can have seen the same one before.                           *)
LEMMA PostIsNews ==
  ASSUME SeatInv, NumberInv, LineInv, MailInv, CountInv, IsFiniteSet(Procs),
         NEW p \in Procs, request = "REQFREE", Here(p)
  PROVE  /\ \A q \in Procs : ~Posts(q)
         /\ \A s, q \in Procs : Here(s) /\ Here(q) => ~Saw(q, "REQDEAD", my[s].count)
         /\ my[p].pseudocount = -1 => Unasked(p)
<1>1. \A q \in Procs : ~Posts(q)
  BY PosterAlone
<1>2. \A s, q \in Procs : Here(s) /\ Here(q) => ~Saw(q, "REQDEAD", my[s].count)
  BY DEF MailInv
<1>3. my[p].pseudocount = -1 => Unasked(p)
  BY <1>1, ToldIsKnown DEF CountInv, Asking
<1> QED BY <1>1, <1>2, <1>3

(* A request goes up: everybody looks within a second, and it stays for    *)
(* four passes of its poster.                                              *)
LEMMA PostKeepsMail ==
  ASSUME OneQueue, SeatInv, NumberInv, LineInv, MailInv, CountInv, TypeOK',
         IsFiniteSet(Procs), NEW p \in Procs, Post(p)
  PROVE  MailInv' /\ CountInv'
<1>0. /\ my[p] \in Locals /\ TypeOK /\ Letter(p)
      /\ pc[p] \in {"postdead", "postwho"}
      /\ p \in DOMAIN my /\ p \in DOMAIN pc
      /\ answer \in Int /\ answer >= 0
  BY HereFacts, MailTypes DEF SeatInv, MailInv, Post, Step
<1>1. Here(p) /\ request = "REQFREE"
  BY <1>0, HereFacts DEF InLoop, Letter
<1>2. /\ number' = my[p].count /\ UNCHANGED <<tickets, nap>>
      /\ my'[p].count = my[p].count /\ my'[p].lastRequest = my[p].lastRequest
      /\ my'[p].lastNumber = my[p].lastNumber /\ my'[p].idie = my[p].idie
      /\ my'[p].myRequest = 4 /\ my'[p].pseudocount = my[p].pseudocount
      /\ pc'[p] \in {"ask", "observe"}
      /\ \/ request' = "REQDEAD" /\ my[p].idie /\ answer' = answer
         \/ request' = "REQWHO" /\ my[p].pseudocount = -1 /\ answer' = 0
  BY <1>0 DEF Post, Step, Locals, Letter
<1>3. \A q \in Procs \ {p} : Same(q) /\ pc[q] \notin Passing
  BY <1>2, OthersSame DEF Run
<1>4. /\ \A q \in Procs : ~Posts(q)
      /\ \A s, q \in Procs : Here(s) /\ Here(q) => ~Saw(q, "REQDEAD", my[s].count)
      /\ my[p].pseudocount = -1 => Unasked(p)
  BY <1>1, PostIsNews
<1>5. Here(p)' /\ Posts(p)' /\ Letter(p)' /\ Left(p)' = 5
  <2>1. Here(p)' /\ Posts(p)'
    BY <1>1, <1>2 DEF Here, Waiting, Posts
  <2>2. Left(p)' = 5
    BY <1>2 DEF Left, NextDone
  <2> QED BY <1>1, <1>0, <1>2, <2>1, <2>2 DEF Letter, tickets
<1>6. \A q \in Procs \ {p} : Letter(q)'
  BY <1>0, <1>2, <1>3, <1>4, SameLetter, MailTypes DEF MailInv, tickets
<1>7. \A q \in Procs : /\ Posts(q)' => q = p
                       /\ Here(q)' <=> Here(q)
                       /\ my'[q].count = my[q].count
                       /\ my'[q].lastRequest = my[q].lastRequest
                       /\ my'[q].lastNumber = my[q].lastNumber
                       /\ my'[q].pseudocount = my[q].pseudocount
  BY <1>1, <1>2, <1>3, <1>4, <1>5, SameMail
<1>8. \A q \in Procs : Here(q) => ~Saw(q, request, number)'
  <2> SUFFICES ASSUME NEW q \in Procs, Here(q), Saw(q, request, number)'
               PROVE  FALSE
    OBVIOUS
  <2>1. my[q].lastRequest = request' /\ my[q].lastNumber = my[p].count
    BY <1>2, <1>7 DEF Saw
  <2>2. ~Saw(q, "REQDEAD", my[p].count)
    BY <1>1, <1>4
  <2>3. request' = "REQWHO" /\ Unasked(p)
    BY <1>2, <1>4, <2>1, <2>2 DEF Saw
  <2> QED BY <2>1, <2>3 DEF Unasked, Saw
<1>9. MailInv'
  <2>1. \A s, q \in Procs : ~ (Here(s)' /\ Here(q)' /\ Saw(q, "REQDEAD", my[s].count)')
    BY <1>4, <1>7 DEF Saw
  <2>2. ASSUME NEW s \in Procs, NEW q \in Procs, Posts(s)', Here(q)', q # s
        PROVE  Punctual(s, q)'
    <3>1. s = p /\ Here(q)
      BY <1>7, <2>2
    <3>2. NextLook(q)' <= 1
      <4>1. Same(q) /\ (pc[q] = "sleep" => nap[q] <= 1)
        BY <1>3, <2>2, <3>1, HereFacts
      <4>2. NextLook(q)' = NextLook(q)
        BY <4>1, SameMail
      <4>3. pc[q] \notin Passing /\ pc[q] # "sleep" => NextLook(q) = 1
        BY DEF NextLook, Passing
      <4>4. NextLook(q) <= 1
        BY <1>3, <2>2, <3>1, <4>1, <4>3 DEF NextLook
      <4> QED BY <4>2, <4>4
    <3>3. NextLook(q)' \in 0..2
      BY MailTypesAfter
    <3>4. NextLook(q)' + 4 <= Left(s)'
      BY <1>5, <3>1, <3>2, <3>3
    <3> QED BY <1>8, <3>1, <3>4 DEF Punctual
  <2>3. answer' >= 0
    BY <1>0, <1>2
  <2> QED BY <1>5, <1>6, <2>1, <2>2, <2>3 DEF MailInv
<1>10. \A s \in Procs : Here(s) => Before(s)' \subseteq Before(s)
  BY <1>7 DEF Before, Saw
<1>11. ASSUME NEW s \in Procs, Here(s)', s # p \/ request' = "REQDEAD"
       PROVE  Unasked(s)' \/ Told(s)'
  <2>1. Here(s) /\ ~Asking(s) /\ my[s].pseudocount \in Int
    BY <1>0, <1>4, <1>7, <1>11, MailTypes DEF Asking
  <2>2. CASE Unasked(s)
    <3>1. \A q \in Procs : Here(q)' => ~Saw(q, "REQWHO", my[s].count)'
      BY <1>7, <2>2 DEF Unasked, Saw
    <3>2. ~(Posts(s)' /\ request' = "REQWHO")
      BY <1>7, <1>11
    <3> QED BY <1>2, <1>7, <2>2, <3>1, <3>2 DEF Unasked, tickets
  <2>3. CASE Told(s)
    BY <1>7, <1>10, <2>1, <2>3, ToldStays
  <2> QED BY <2>1, <2>2, <2>3 DEF CountInv
<1>12. ASSUME request' = "REQWHO" PROVE Asking(p)'
  <2>1. my[p].pseudocount = -1 /\ answer' = 0
    BY <1>2, <1>12
  <2>2. Answered(p)' = {}
    <3> SUFFICES ASSUME NEW q \in Answered(p)' PROVE FALSE
      OBVIOUS
    <3>1. q \in Procs /\ Here(q)' /\ Saw(q, "REQWHO", my[p].count)'
      BY DEF Answered, Before
    <3>2. Here(q) /\ Saw(q, request, number)'
      BY <1>2, <1>7, <1>12, <3>1 DEF Saw
    <3> QED BY <1>8, <3>1, <3>2
  <2>3. Cardinality(Answered(p)') = 0
    BY <2>2, FS_EmptySet
  <2> QED BY <1>2, <1>5, <1>12, <2>1, <2>3 DEF Asking
<1>13. ASSUME NEW s \in Procs, Here(s)' PROVE Unasked(s)' \/ Asking(s)' \/ Told(s)'
  <2>1. CASE s = p /\ request' = "REQWHO"
    BY <1>12, <2>1
  <2>2. CASE s # p \/ request' = "REQDEAD"
    BY <1>11, <1>13, <2>2
  <2> QED BY <1>2, <2>1, <2>2
<1> QED BY <1>9, <1>13 DEF CountInv

(* q sees a request that it has not seen: what it did not know of is that  *)
(* of somebody else, whom it has yet to count off if it is a goodbye.      *)
LEMMA NewsFacts ==
  ASSUME OneQueue, SeatInv, NumberInv, LineInv, MailInv, NEW q \in Procs, SeeNew(q)
  PROVE  /\ \A s \in Procs \ {q} : Same(s) /\ pc[s] \notin Passing
         /\ Here(q) /\ request \in {"REQWHO", "REQDEAD"} /\ ~Posts(q)
         /\ ~Saw(q, request, number) /\ NextLook(q) = 0
         /\ UNCHANGED <<wait, count, request, number, nap>>
         /\ answer' = IF request = "REQWHO" /\ my[q].count < number
                        THEN answer + 1 ELSE answer
         /\ my'[q].count = my[q].count /\ my'[q].idie = my[q].idie
         /\ my'[q].myRequest = my[q].myRequest
         /\ my'[q].lastRequest = request /\ my'[q].lastNumber = number
         /\ my'[q].reqCount = 1
         /\ my'[q].pseudocount =
              IF request = "REQDEAD" /\ my[q].count > number /\ my[q].pseudocount # -1
                THEN my[q].pseudocount - 1 ELSE my[q].pseudocount
         /\ Here(q)' /\ ~Posts(q)' /\ NextLook(q)' = 1 /\ pc'[q] = "inline"
         /\ \E s \in Procs \ {q} : Posts(s) /\ Here(s) /\ number = my[s].count
<1>0. /\ my[q] \in Locals /\ TypeOK /\ q \in DOMAIN my /\ q \in DOMAIN pc
      /\ pc[q] = "observe" /\ pc'[q] = "inline" /\ Foreign(q) /\ ~SeenBefore(q)
      /\ nap' = nap /\ nap[q] = 0
  BY HereFacts DEF SeatInv, SeeNew, Step, Asleep
<1>1. \A s \in Procs \ {q} : Same(s) /\ pc[s] \notin Passing
  BY <1>0, OthersSame DEF Run
<1>2. Here(q) /\ request \in {"REQWHO", "REQDEAD"} /\ ~Posts(q)
  BY <1>0, HereFacts DEF Foreign, Posts, InLoop, TypeOK, Requests
<1>3. ~Saw(q, request, number) /\ NextLook(q) = 0
  BY <1>0 DEF Saw, SeenBefore, NextLook
<1>4. UNCHANGED <<wait, count, request, number, nap>>
  BY DEF SeeNew, tickets
<1>5. answer' = IF request = "REQWHO" /\ my[q].count < number
                  THEN answer + 1 ELSE answer
  BY DEF SeeNew
<1>6. /\ my'[q].count = my[q].count /\ my'[q].idie = my[q].idie
      /\ my'[q].myRequest = my[q].myRequest
      /\ my'[q].lastRequest = request /\ my'[q].lastNumber = number
      /\ my'[q].reqCount = 1
      /\ my'[q].pseudocount =
           IF request = "REQDEAD" /\ my[q].count > number /\ my[q].pseudocount # -1
             THEN my[q].pseudocount - 1 ELSE my[q].pseudocount
  BY <1>0 DEF SeeNew, Locals
<1>7. Here(q)' /\ ~Posts(q)' /\ NextLook(q)' = 1
  BY <1>0, <1>2, <1>6 DEF Here, Waiting, Posts, NextLook
<1>8. \E s \in Procs \ {q} : Posts(s) /\ Here(s) /\ number = my[s].count
  BY <1>2, PosterAlone DEF MailInv
<1> QED BY <1>0, <1>1, <1>2, <1>3, <1>4, <1>5, <1>6, <1>7, <1>8

(* Having seen the request, q has seen it once.                            *)
LEMMA SeeNewKeepsMailInv ==
  ASSUME OneQueue, SeatInv, NumberInv, LineInv, MailInv, TypeOK',
         NEW q \in Procs, SeeNew(q)
  PROVE  MailInv'
<1>0. TypeOK /\ Letter(q) /\ my[q] \in Locals /\ my[q].pseudocount \in Int
  BY HereFacts, MailTypes DEF SeatInv, MailInv
<1>1. \A s \in Procs \ {q} : Same(s) /\ pc[s] \notin Passing
  BY NewsFacts
<1>2. /\ Here(q) /\ ~Posts(q) /\ Here(q)' /\ ~Posts(q)'
      /\ UNCHANGED <<wait, count, request, number, nap>>
      /\ my'[q].count = my[q].count
      /\ Saw(q, request, number)'
  BY NewsFacts DEF Saw
<1>3. PICK s0 \in Procs \ {q} : Posts(s0) /\ Here(s0) /\ number = my[s0].count
  BY NewsFacts
<1>4. number < count
  BY <1>3, HereFacts
<1>5. Letter(q)'
  <2>1. my'[q].pseudocount >= -1
    BY <1>0, NewsFacts DEF Letter
  <2> QED BY <1>2, <1>4, <2>1, NewsFacts DEF Letter
<1>6. \A s \in Procs \ {q} : Letter(s)'
  BY <1>0, <1>1, <1>2, SameLetter, MailTypes DEF MailInv
<1>7. \A s \in Procs : /\ Posts(s)' <=> Posts(s)
                       /\ Here(s)' <=> Here(s)
                       /\ my'[s].count = my[s].count
  BY <1>1, <1>2, SameMail
<1>8. answer' >= 0
  BY <1>0, NewsFacts, MailTypes DEF MailInv
<1>9. ASSUME NEW s \in Procs, NEW t \in Procs, Posts(s)', Here(t)', t # s
      PROVE  Punctual(s, t)'
  <2>1. s # q /\ Posts(s) /\ Here(t) /\ Same(s) /\ Left(s)' = Left(s)
    BY <1>1, <1>2, <1>7, <1>9, SameMail
  <2>2. CASE t = q
    <3>1. Left(s) <= 5
      <4>1. my[s].myRequest \in 0..4 /\ NextDone(s) <= 1
        <5>1. pc[s] = "sleep" => nap[s] <= 1
          BY HereFacts
        <5> QED BY <1>0, <5>1, MailTypes DEF NextDone
      <4>2. NextDone(s) \in 0..2
        BY <1>0, MailTypes
      <4> QED BY <4>1, <4>2 DEF Left
    <3>2. Left(s) \in 0..6
      BY <1>0, MailTypes
    <3>3. my'[t].reqCount = 1 /\ NextLook(t)' = 1
      BY <2>2, NewsFacts
    <3>4. my'[t].reqCount + Left(s)' <= 5 + NextLook(t)'
      BY <2>1, <3>1, <3>2, <3>3
    <3> QED BY <1>2, <2>2, <3>4 DEF Punctual
  <2>3. CASE t # q
    <3>1. Same(t) /\ Punctual(s, t)
      BY <1>1, <1>9, <2>1, <2>3 DEF MailInv
    <3> QED BY <1>2, <2>1, <3>1, SameMail DEF Punctual, Saw
  <2> QED BY <2>2, <2>3
<1>10. ASSUME NEW s \in Procs, NEW t \in Procs, Here(s)', Here(t)',
              Saw(t, "REQDEAD", my[s].count)'
       PROVE  request' = "REQDEAD" /\ number' = my'[s].count
  <2>1. CASE t = q
    BY <1>2, <1>10, <2>1 DEF Saw
  <2>2. CASE t # q
    <3>1. my'[t] = my[t] /\ Here(t) /\ Here(s)
      BY <1>1, <1>7, <1>10, <2>2 DEF Same
    <3> QED BY <1>2, <1>7, <1>10, <3>1 DEF Saw, MailInv
  <2> QED BY <2>1, <2>2
<1>11. request' # "REQFREE" => \E s \in Procs : Posts(s)'
  BY <1>3, <1>7
<1> QED BY <1>5, <1>6, <1>8, <1>9, <1>10, <1>11 DEF MailInv

(* It answers a question from behind once, and counts a goodbye from ahead *)
(* off once.                                                               *)
LEMMA SeeNewKeepsCount ==
  ASSUME OneQueue, SeatInv, NumberInv, LineInv, MailInv, CountInv, TypeOK',
         IsFiniteSet(Procs), NEW q \in Procs, SeeNew(q)
  PROVE  CountInv'
<1>0. TypeOK /\ my[q].count \in Int /\ my[q].pseudocount \in Int /\ answer \in Int
  BY MailTypes DEF SeatInv
<1>1. \A s \in Procs \ {q} : Same(s)
  BY NewsFacts
<1>2. /\ Here(q) /\ ~Posts(q) /\ Here(q)' /\ ~Posts(q)'
      /\ request \in {"REQWHO", "REQDEAD"} /\ ~Saw(q, request, number)
      /\ UNCHANGED <<wait, count, request, number, nap>>
      /\ my'[q].count = my[q].count
      /\ my'[q].lastRequest = request /\ my'[q].lastNumber = number
  BY NewsFacts
<1>3. PICK p \in Procs \ {q} : Posts(p) /\ Here(p) /\ number = my[p].count
  BY NewsFacts
<1>4. \A s \in Procs : /\ Posts(s)' <=> Posts(s)
                       /\ Posts(s) => s = p
                       /\ Here(s)' <=> Here(s)
                       /\ my'[s].count = my[s].count /\ my[s].count \in Int
                       /\ Here(s) /\ my[s].count = number => s = p
  BY <1>0, <1>1, <1>2, <1>3, SameMail, PosterAlone, HereFacts, MailTypes
<1>5. \A s \in Procs \ {q} : my'[s] = my[s] /\ my[s].pseudocount \in Int
  BY <1>0, <1>1, MailTypes DEF Same
<1>6. ASSUME NEW s \in Procs, Here(s), Unasked(s) PROVE Unasked(s)'
  <2>1. \A t \in Procs : Here(t)' => ~Saw(t, "REQWHO", my[s].count)'
    <3> SUFFICES ASSUME NEW t \in Procs, Here(t)', Saw(t, "REQWHO", my[s].count)'
                 PROVE  FALSE
      OBVIOUS
    <3>1. CASE t = q
      <4>1. request = "REQWHO" /\ number = my[s].count
        BY <1>2, <1>4, <3>1 DEF Saw
      <4>2. s = p
        BY <1>4, <1>6, <4>1
      <4> QED BY <1>3, <1>6, <4>1, <4>2 DEF Unasked
    <3>2. CASE t # q
      BY <1>4, <1>5, <1>6, <3>2 DEF Saw, Unasked
    <3> QED BY <3>1, <3>2
  <2>2. my'[s].pseudocount # -1 => my'[s].count <= wait'
    <3>1. my'[s].pseudocount # -1 => my[s].pseudocount # -1
      <4>1. CASE s = q
        BY <4>1, <1>0, NewsFacts
      <4>2. CASE s # q
        BY <4>2, <1>5
      <4> QED BY <4>1, <4>2
    <3> QED BY <1>2, <1>4, <1>6, <3>1 DEF Unasked
  <2> QED BY <1>2, <1>4, <1>6, <2>1, <2>2 DEF Unasked
<1>7. ASSUME NEW s \in Procs \ {q} PROVE Before(s)' \subseteq Before(s)
  BY <1>4, <1>5 DEF Before, Saw
<1>8. ASSUME NEW s \in Procs, Asking(s) PROVE Asking(s)'
  <2>1. s = p /\ s # q /\ request = "REQWHO" /\ Cardinality(Answered(s)) <= answer
    BY <1>3, <1>4, <1>8 DEF Asking
  <2>2. Answered(s) \subseteq Procs
    BY DEF Answered, Before
  <2>3. IsFiniteSet(Answered(s)) /\ Cardinality(Answered(s)) \in Nat
    <3>1. IsFiniteSet(Answered(s))
      BY <2>2, FS_Subset
    <3> QED BY <3>1, FS_CardinalityType
  <2>4. Answered(s)' \subseteq Answered(s) \cup {q}
    <3> SUFFICES ASSUME NEW t \in Answered(s)', t # q PROVE t \in Answered(s)
      OBVIOUS
    <3>1. t \in Before(s)' /\ Saw(t, "REQWHO", my[s].count)'
      BY DEF Answered
    <3>2. t \in Before(s) /\ t \in Procs
      BY <1>7, <2>1, <3>1 DEF Before
    <3>3. Saw(t, "REQWHO", my[s].count)
      BY <1>4, <1>5, <3>1, <3>2 DEF Saw
    <3> QED BY <3>2, <3>3 DEF Answered
  <2>5. Cardinality(Answered(s)') <= answer'
    <3>1. CASE my[q].count < number
      <4>1. /\ IsFiniteSet(Answered(s) \cup {q})
            /\ Cardinality(Answered(s) \cup {q}) <= Cardinality(Answered(s)) + 1
        <5>1. /\ IsFiniteSet(Answered(s) \cup {q})
              /\ Cardinality(Answered(s) \cup {q}) =
                   IF q \in Answered(s) THEN Cardinality(Answered(s))
                                        ELSE Cardinality(Answered(s)) + 1
          BY <2>3, FS_AddElement, Zenon
        <5> QED BY <2>3, <5>1
      <4>2. /\ Cardinality(Answered(s)') <= Cardinality(Answered(s) \cup {q})
            /\ Cardinality(Answered(s)') \in Nat
            /\ Cardinality(Answered(s) \cup {q}) \in Nat
        BY <2>4, <4>1, FS_Subset, FS_CardinalityType
      <4>3. answer' = answer + 1
        BY <2>1, <3>1, NewsFacts
      <4> QED BY <1>0, <2>1, <2>3, <4>1, <4>2, <4>3
    <3>2. CASE ~ (my[q].count < number)
      <4>1. q \notin Before(s)'
        BY <1>3, <1>4, <2>1, <3>2 DEF Before
      <4>2. Answered(s)' \subseteq Answered(s)
        BY <2>4, <4>1 DEF Answered
      <4>3. /\ Cardinality(Answered(s)') <= Cardinality(Answered(s))
            /\ Cardinality(Answered(s)') \in Nat
        BY <2>3, <4>2, FS_Subset, FS_CardinalityType
      <4>4. answer' = answer
        BY <3>2, NewsFacts
      <4> QED BY <1>0, <2>1, <2>3, <4>3, <4>4
    <3> QED BY <3>1, <3>2
  <2> QED BY <1>2, <1>4, <1>5, <1>8, <2>1, <2>5 DEF Asking
<1>9. ASSUME NEW s \in Procs, Here(s), Told(s) PROVE Told(s)'
  <2>1. CASE s # q
    BY <1>5, <1>7, <1>9, <2>1, ToldStays
  <2>2. CASE s = q
    <3>1. my[q].pseudocount >= 0 /\ IsFiniteSet(Before(q))
      BY <1>0, <1>9, <2>2, ToldIsKnown
    <3>2. Cardinality(Before(q)) \in Nat /\ Cardinality(Before(q)) <= my[q].pseudocount
      BY <1>9, <2>2, <3>1, FS_CardinalityType DEF Told
    <3>3. Before(q)' \subseteq Before(q)
      \* whoever q had seen off has gone, since this request is another
      <4>1. \A t \in Procs : Here(t) => ~Saw(q, "REQDEAD", my[t].count)
        BY <1>2 DEF MailInv, Saw
      <4> QED BY <1>4, <4>1 DEF Before
    <3>4. CASE request = "REQDEAD" /\ my[q].count > number
      <4>1. p \in Before(q)
        <5>1. ~Saw(q, "REQDEAD", my[p].count)
          BY <1>2, <1>3, <3>4
        <5> QED BY <1>3, <1>4, <3>4, <5>1 DEF Before
      <4>2. p \notin Before(q)'
        <5>1. Saw(q, "REQDEAD", my[p].count)'
          BY <1>2, <1>3, <1>4, <3>4 DEF Saw
        <5> QED BY <5>1 DEF Before
      <4>3. Before(q)' \subseteq Before(q) \ {p}
        BY <3>3, <4>2
      <4>4. /\ IsFiniteSet(Before(q) \ {p})
            /\ Cardinality(Before(q) \ {p}) = Cardinality(Before(q)) - 1
        BY <3>1, <4>1, FS_RemoveElement
      <4>5. /\ Cardinality(Before(q)') <= Cardinality(Before(q) \ {p})
            /\ Cardinality(Before(q)') \in Nat
        BY <4>3, <4>4, FS_Subset, FS_CardinalityType
      <4>6. my'[q].pseudocount = my[q].pseudocount - 1
        BY <1>0, <3>1, <3>4, NewsFacts
      <4>7. Cardinality(Before(q)') <= my'[q].pseudocount
        BY <1>0, <3>2, <4>4, <4>5, <4>6
      <4> QED BY <2>2, <4>7 DEF Told
    <3>5. CASE ~ (request = "REQDEAD" /\ my[q].count > number)
      <4>1. my'[q].pseudocount = my[q].pseudocount
        BY <3>5, NewsFacts
      <4> QED BY <1>0, <1>9, <2>2, <3>3, <4>1, ToldStays
    <3> QED BY <3>4, <3>5
  <2> QED BY <2>1, <2>2
<1> QED BY <1>4, <1>6, <1>8, <1>9 DEF CountInv

(* A second is over: everybody who takes part in the mailbox has one less  *)
(* to go, until it counts down and until it looks.                         *)
LEMMA TickKeepsMail ==
  ASSUME SeatInv, NumberInv, LineInv, GapFree, MailInv, CountInv, TypeOK', Tick
  PROVE  MailInv' /\ CountInv'
<1>0. TypeOK /\ UNCHANGED <<tickets, mailbox, pc, my>>
  BY DEF Tick, SeatInv
<1>1. \A q \in Procs : /\ Here(q)' <=> Here(q)
                       /\ Posts(q)' <=> Posts(q)
                       /\ Letter(q)' <=> Letter(q)
  BY <1>0 DEF Here, Waiting, Posts, Letter, mailbox, tickets
<1>2. ASSUME NEW q \in Procs, Here(q)
      PROVE  Left(q)' = Left(q) - 1 /\ NextLook(q)' = NextLook(q) - 1
  <2>1. pc[q] \in Resting
    BY DEF Tick
  <2>2. pc[q] = "sleep"
    BY <1>2, <2>1, HereFacts DEF GapFree, Napping, Resting, Asleep, InLoop
  <2>3. nap'[q] = nap[q] - 1 /\ pc'[q] = "sleep"
    BY <1>0, <2>2 DEF Tick, Asleep
  <2>4. nap[q] \in 0..2 /\ my[q].myRequest \in 0..4 /\ my' = my
    BY <1>0, MailTypes
  <2> QED BY <2>2, <2>3, <2>4 DEF Left, NextDone, NextLook
<1>3. ASSUME NEW p \in Procs, NEW q \in Procs, Posts(p)', Here(q)', q # p
      PROVE  Punctual(p, q)'
  <2>1. Here(p) /\ Here(q) /\ Punctual(p, q)
    BY <1>1, <1>3 DEF MailInv, Letter
  <2>2. Left(p)' = Left(p) - 1 /\ NextLook(q)' = NextLook(q) - 1
    BY <1>2, <2>1
  <2>3. Left(p) \in 0..6 /\ NextLook(q) \in 0..2 /\ my[q].reqCount \in 0..9
    BY <1>0, MailTypes
  <2> QED BY <1>0, <2>1, <2>2, <2>3 DEF Punctual, Saw, mailbox
<1>4. MailInv'
  BY <1>0, <1>1, <1>3 DEF MailInv, Saw, mailbox
<1>5. \A p \in Procs : Before(p)' = Before(p)
  BY <1>0, <1>1 DEF Before, Saw
<1>6. \A p \in Procs : Answered(p)' = Answered(p)
  BY <1>0, <1>5 DEF Answered, Saw
<1>7. CountInv'
  BY <1>0, <1>1, <1>5, <1>6 DEF CountInv, Unasked, Asking, Told, Saw, mailbox, tickets
<1> QED BY <1>4, <1>7

(* A step by which nobody leaves the queue but into the game keeps what is *)
(* known of the mailbox and of the positions.                              *)
LEMMA MailStep ==
  ASSUME OneQueue, SeatInv, NumberInv, LineInv, GapFree, MailInv, CountInv,
         daemonUp, IsFiniteSet(Procs), [Next]_vars, [StaysIn]_vars,
         TypeOK', wait <= wait'
  PROVE  MailInv' /\ CountInv'
<1>0. TypeOK /\ \A q \in Procs : Letter(q)
  BY DEF SeatInv, MailInv
<1>1. ASSUME NEW p \in Procs, Calm(p), UNCHANGED mailbox, count <= count',
             \A q \in Procs \ {p} : Same(q) /\ pc[q] \notin Passing
      PROVE  MailInv' /\ CountInv'
  <2>1. \A q \in Procs \ {p} : Calm(q)
    BY <1>0, <1>1, SameCalm
  <2> QED BY <1>1, <2>1, CalmStep
<1>2. ASSUME UNCHANGED <<count, mailbox, pc, nap, my>>
      PROVE  MailInv' /\ CountInv'
  <2>1. \A q \in Procs : Letter(q)'
    BY <1>0, <1>2 DEF Letter, Posts, Here, Waiting, mailbox
  <2>2. \A q \in Procs : Calm(q)
    BY <1>0, <1>2, <2>1, SameMail, MailTypes DEF Calm, Same
  <2> QED BY <1>2, <2>2, CalmStep
<1>3. ASSUME NEW p \in Procs, Run(p) \/ Arrive(p) \/ Quit(p) \/ Leave(p)
      PROVE  MailInv' /\ CountInv'
  <2>1. ~ Quit(p) /\ ~ NapOver(p)
    BY <1>0 DEF OneQueue, Quit, NapOver, GapFree, Napping, TypeOK, Step
  <2>2. CASE Store(p)
    BY <2>2, StoreKeepsMail
  <2>3. CASE Goodbye(p)
    BY <2>3, GoodbyeKeepsMail
  <2>4. CASE ReadAnswer(p)
    BY <2>4, ReadAnswerKeepsMail
  <2>5. CASE Post(p)
    BY <2>5, PostKeepsMail
  <2>6. CASE SeeNew(p)
    BY <2>6, SeeNewKeepsMailInv, SeeNewKeepsCount
  <2>7. CASE \/ Arrive(p) \/ Alloc(p) \/ Load(p) \/ ClaimAtOnce(p) \/ Enter(p)
             \/ StayAlive(p) \/ Wake(p) \/ CountDown(p) \/ TestRequest(p)
             \/ SeeNothing(p) \/ SeeAgain(p) \/ InLine(p) \/ Continue(p)
             \/ Served(p) \/ ClaimInTurn(p) \/ Lurk(p) \/ Leave(p)
    <3>1. Calm(p) /\ UNCHANGED mailbox
      BY <2>7, CalmActions
    <3>2. count <= count'
      <4>1. count' = count
        BY <2>7 DEF Arrive, Alloc, Load, ClaimAtOnce, Enter, StayAlive, Wake, CountDown,
             TestRequest, SeeNothing, SeeAgain, InLine, Continue, Served, ClaimInTurn,
             Lurk, Leave, Take, tickets
      <4> QED BY <1>0, <4>1 DEF TypeOK
    <3>3. \A q \in Procs \ {p} : nap'[q] = nap[q]
      BY <1>0, <2>7 DEF TypeOK, Arrive, Alloc, Load, ClaimAtOnce, Enter, StayAlive, Wake,
             CountDown, TestRequest, SeeNothing, SeeAgain, InLine, Continue, Served,
             ClaimInTurn, Lurk, Leave, Take
    <3>4. \A q \in Procs \ {p} : Same(q) /\ pc[q] \notin Passing
      BY <1>3, <3>3, Alone DEF OneQueue, Same
    <3> QED BY <1>1, <3>1, <3>2, <3>4
  <2> QED BY <1>3, <2>1, <2>2, <2>3, <2>4, <2>5, <2>6, <2>7 DEF Run
<1>4. ASSUME NEW p \in Procs, Crash(p) PROVE MailInv' /\ CountInv'
  <2>1. /\ pc'[p] = "gone" /\ my'[p] = Fresh /\ pc[p] # "gone"
        /\ \A q \in Procs \ {p} : Same(q)
        /\ UNCHANGED <<tickets, mailbox>>
    BY <1>0, <1>4 DEF Crash, Exits, TypeOK, Same
  <2>2. ~ Waiting(p)
    BY <1>4, <2>1 DEF StaysIn, vars
  <2>3. /\ ~Here(p) /\ ~Posts(p) /\ ~Here(p)' /\ ~Posts(p)' /\ Letter(p)'
    BY <1>0, <2>1, <2>2 DEF Here, Posts, Waiting, Letter, Fresh
  <2>4. Calm(p)
    BY <2>3 DEF Calm
  <2>5. \A q \in Procs \ {p} : Calm(q)
    <3> SUFFICES ASSUME NEW q \in Procs, q # p PROVE Calm(q)
      OBVIOUS
    <3>1. Letter(q)'
      BY <1>0, <2>1 DEF Same, Letter, Posts, Here, Waiting, tickets, mailbox
    <3> QED BY <1>0, <2>1, <3>1, SameMail, MailTypes DEF Calm
  <2> QED BY <2>1, <2>4, <2>5, CalmStep
<1>5. ASSUME NEW i \in Slots, GhostBust(i) PROVE MailInv' /\ CountInv'
  BY <1>2, <1>5 DEF GhostBust, tickets
<1>6. CASE Tick
  BY <1>6, TickKeepsMail
<1>7. CASE AllGone \/ UNCHANGED vars
  BY <1>2, <1>7 DEF AllGone, vars, tickets
<1>8. ~ DaemonDies
  BY DEF DaemonDies, OneQueue
<1> QED BY <1>3, <1>4, <1>5, <1>6, <1>7, <1>8 DEF Next

(* There is nobody to ask at first.                                        *)
LEMMA MailInit ==
  ASSUME Init
  PROVE  GapFree /\ MailInv /\ CountInv
<1>1. /\ wait = 0 /\ count = 0 /\ request = "REQFREE" /\ answer = 0
      /\ \A p \in Procs : /\ my[p] = Fresh /\ pc[p] \in {"out", "in"}
  BY DEF Init
<1>2. \A p \in Procs : /\ ~Queued(p) /\ ~Waiting(p) /\ ~Here(p) /\ ~Posts(p)
                       /\ ~Napping(p) /\ ~my[p].idie /\ Letter(p)
  BY <1>1 DEF Queued, Waiting, Here, Posts, Napping, Letter, Fresh
<1> QED BY <1>1, <1>2 DEF GapFree, MailInv, CountInv

(* Whoever is counted on to be ahead is among those p has counted.         *)
LEMMA Honest ==
  ASSUME SeatInv, NumberInv, LineInv, GapFree, MailInv, CountInv,
         IsFiniteSet(Procs)
  PROVE  PositionHonest
<1> SUFFICES ASSUME NEW p \in Procs, Waiting(p), my[p].pseudocount # -1
             PROVE  my[p].pseudocount >= Cardinality(Ahead(p))
  BY DEF PositionHonest
<1>0. /\ my[p].pseudocount \in Int /\ my[p].pseudocount >= 0 /\ TypeOK
      /\ my[p].count \in Int /\ wait \in Int
  BY MailTypes DEF SeatInv, MailInv, Letter
<1>1. \A q \in Ahead(p) : q \in Procs /\ Queued(q) /\ Here(q) /\ my[q].count < my[p].count
  BY HereFacts DEF Ahead, Queued
<1>2. my[p].count <= wait => Ahead(p) = {}
  <2> SUFFICES ASSUME my[p].count <= wait, NEW q \in Ahead(p) PROVE FALSE
    OBVIOUS
  <2>1. wait <= my[q].count /\ my[q].count < my[p].count /\ my[q].count \in Int
    BY <1>0, <1>1, MailTypes DEF GapFree
  <2> QED BY <1>0, <2>1
<1>3. my[p].count <= wait => my[p].pseudocount >= Cardinality(Ahead(p))
  BY <1>0, <1>2, FS_EmptySet
<1>4. CASE ~Here(p)
  <2>1. my[p].idie /\ my[p].count < wait
    BY <1>4, HereFacts DEF Queued, GapFree
  <2> QED BY <1>0, <1>3, <2>1
<1>5. CASE Here(p)
  <2>1. ~Asking(p)
    BY DEF Asking
  <2>2. CASE Unasked(p)
    BY <1>3, <2>2 DEF Unasked
  <2>3. CASE Told(p)
    <3>1. Ahead(p) \subseteq Before(p)
      <4> SUFFICES ASSUME NEW q \in Ahead(p), Saw(p, "REQDEAD", my[q].count)
                   PROVE  FALSE
        BY <1>1 DEF Before
      <4>1. request = "REQDEAD" /\ number = my[q].count
        BY <1>1, <1>5 DEF MailInv
      <4>2. PICK s \in Procs : Posts(s)
        BY <4>1 DEF MailInv
      <4>3. Here(s) /\ number = my[s].count /\ my[s].idie
        BY <4>1, <4>2, PosterAlone
      <4>4. s = q
        BY <1>1, <4>1, <4>3, HereFacts
      <4> QED BY <1>1, <4>3, <4>4 DEF Queued
    <3>2. IsFiniteSet(Before(p))
      BY <1>0, <2>3, ToldIsKnown
    <3>3. /\ Cardinality(Ahead(p)) <= Cardinality(Before(p))
          /\ IsFiniteSet(Ahead(p))
      BY <3>1, <3>2, FS_Subset
    <3>4. Cardinality(Ahead(p)) \in Nat /\ Cardinality(Before(p)) \in Nat
      BY <3>2, <3>3, FS_CardinalityType
    <3>5. Cardinality(Before(p)) <= my[p].pseudocount
      BY <2>3 DEF Told
    <3> QED BY <1>0, <3>3, <3>4, <3>5
  <2> QED BY <1>5, <2>1, <2>2, <2>3 DEF CountInv
<1> QED BY <1>4, <1>5

(* As long as nobody leaves the queue but into the game, nobody is ever    *)
(* taken for dead, only one request is up at a time and its poster takes   *)
(* it down, and everybody who asks is answered by all who come before it.  *)
THEOREM MailKept ==
  ASSUME OneQueue, IsFiniteSet(Procs)
  PROVE  Spec /\ NobodyVanishes => [](GapFree /\ MailInv /\ CountInv)
<1>1. Init => daemonUp /\ GapFree /\ MailInv /\ CountInv
  BY MailInit DEF Init
<1>2. daemonUp /\ [Next]_vars => daemonUp'
  BY DaemonStaysUp
<1>3. /\ SeatInv /\ NumberInv /\ LineInv /\ daemonUp /\ GapFree
      /\ [Next]_vars /\ [StaysIn]_vars
      => GapFree' /\ wait <= wait'
  BY GapFreeStep
<1>4. /\ SeatInv /\ NumberInv /\ LineInv /\ daemonUp
      /\ GapFree /\ MailInv /\ CountInv
      /\ [Next]_vars /\ [StaysIn]_vars /\ SeatInv'
      => MailInv' /\ CountInv'
  BY <1>3, MailStep DEF SeatInv
<1>5. Spec => [](SeatInv /\ NumberInv /\ LineInv)
  BY LineKept
<1>6. NobodyVanishes => [][StaysIn]_vars
  BY PTL DEF NobodyVanishes, StaysIn
<1> QED BY <1>1, <1>2, <1>3, <1>4, <1>5, <1>6, PTL DEF Spec

(* As long as nobody leaves the queue but into the game, the position that *)
(* a client is shown is never better than its own, for every number of     *)
(* processes and slots.                                                    *)
THEOREM ShownHonestly ==
  ASSUME OneQueue, IsFiniteSet(Procs)
  PROVE  Spec /\ NobodyVanishes => []PositionHonest
<1>1. SeatInv /\ NumberInv /\ LineInv /\ GapFree /\ MailInv /\ CountInv
      => PositionHonest
  BY Honest
<1> QED BY <1>1, LineKept, MailKept, PTL

=============================================================================
