------------------------------ MODULE WaitQueue ------------------------------
(***************************************************************************)
(* How an ntserv process gets a player slot: allocate_slot(), grabslot()   *)
(* and findslot() of ntserv/findslot.c, on the unlocked shared memory that *)
(* all the processes of the server map.                                    *)
(*                                                                         *)
(* A process that finds the game full takes a number, and then makes one   *)
(* pass of grabslot's loop per second.  The numbers are `count' (the next  *)
(* one to take) and `wait' (the one being served); waiting processes talk  *)
(* through one mailbox `request', `number', `answer'.  Nobody locks        *)
(* anything.  A pass is split where another process can tell the parts     *)
(* apart: the search of allocate_slot from its store, the load of          *)
(* status->count from its store, the test of status->request from the post.*)
(*                                                                         *)
(* Preempt decides the scheduling.  TRUE: passes of different processes    *)
(* interleave freely within a second.  FALSE: a pass runs from one sleep   *)
(* to the next undisturbed, which is what the one second sleep, "to aid    *)
(* synchronization", hopes for.  Either way a pass ends within its second. *)
(***************************************************************************)
EXTENDS Integers, FiniteSets

CONSTANTS
  Procs,        \* the ntserv processes of the run
  NumSlots,     \* MAXPLAYER
  NTesters,     \* configvals->ntesters, slots at the end kept for testers
  Overload,     \* the processes started with -R, which may use those slots
  Side,         \* Side[p]: HOME, AWAY or NEITHER, from the command line
  Seat,         \* Seat[p]: the slot p plays in from the start, or NoSlot
  League,       \* status2->league # 0
  Preempt,      \* may a pass be interrupted by another process?
  MaxAhead,     \* 18 in the code: further back than this, a process gives up
  OutfitTime,   \* seconds until udplayers() frees a slot without a process
  MaxQuits,     \* bound: clients that disconnect while they wait
  MaxCrashes,   \* bound: processes that vanish without running an exit path
  DaemonMayDie, \* does freemem() run?
  NoProc        \* no process

NoSlot   == -1
NoNumber == -1
Slots == 0 .. NumSlots - 1
Sides == {"HOME", "AWAY", "NEITHER"}

ASSUME WaitQueueAssumption ==
  /\ NumSlots \in Nat \ {0}
  /\ NTesters \in Nat
  /\ Overload \subseteq Procs
  /\ Side \in [Procs -> Sides]
  /\ Seat \in [Procs -> Slots \cup {NoSlot}]
  /\ \A p, q \in Procs : p # q /\ Seat[p] = Seat[q] => Seat[p] = NoSlot
  /\ League \in BOOLEAN /\ Preempt \in BOOLEAN /\ DaemonMayDie \in BOOLEAN
  /\ MaxAhead \in Nat /\ OutfitTime \in Nat
  /\ MaxQuits \in Nat /\ MaxCrashes \in Nat
  /\ NoProc \notin Procs

VARIABLES
  pstatus,      \* players[i].p_status: PFREE, or POUTFIT for any taken slot
  homeaway,     \* players[i].p_homeaway
  wait, count,  \* status->wait, status->count
  request, number, answer,  \* status->request and its two companions
  pc, nap,      \* where each process is, and what is left of its sleep
  slot,         \* wearein, and then the slot the process plays in
  my,           \* the other locals of its grabslot()
  turn,         \* the process in the middle of a pass, when ~Preempt
  ghost,        \* players[i].p_ghostbuster, in seconds
  daemonUp, quits, crashes

seats   == <<pstatus, homeaway>>
tickets == <<wait, count>>
mailbox == <<request, number, answer>>
outside == <<daemonUp, quits, crashes>>
vars == <<seats, tickets, mailbox, pc, nap, slot, my, turn, ghost, outside>>

Requests == {"REQFREE", "REQWHO", "REQDEAD"}
Asleep  == {"sleep", "nap", "nap2"}          \* in sleep(1), sleep(2), sleep(2)
Resting == Asleep \cup {"out", "in", "gone"} \* where a pass cannot be
Passing == {"alloc", "claim", "load", "store", "loop", "done", "bye",
            "postdead", "ask", "postwho", "observe", "inline", "serve", "enter"}

Locals == [i : Slots \cup {NoSlot}, count : Int, pseudocount : Int,
           myRequest : 0..4, lastRequest : Requests, lastNumber : Int,
           reqCount : 0..9, idie : BOOLEAN, oldwait : Int, waits : 0..4]
Fresh == [i |-> NoSlot, count |-> NoNumber, pseudocount |-> -1,
          myRequest |-> 0, lastRequest |-> "REQFREE", lastNumber |-> 0,
          reqCount |-> 0, idie |-> FALSE, oldwait |-> -1, waits |-> 0]

(* What allocate_slot(homeaway, overload, .) finds for p. *)
FreeSlots == {i \in Slots : pstatus[i] = "PFREE"}
AnySlots == {i \in Slots : i < NumSlots - NTesters}  \* mutant of OpenSlots
OpenSlots == {i \in FreeSlots : i < NumSlots - NTesters}
TeamFull(p) ==
  /\ League
  /\ 2 * Cardinality({i \in Slots : pstatus[i] # "PFREE" /\ homeaway[i] = Side[p]})
       >= NumSlots - NTesters
SlotFor(p) ==
  IF p \in Overload
    THEN IF FreeSlots = {} THEN NoSlot
         ELSE CHOOSE i \in FreeSlots : \A j \in FreeSlots : j <= i
    ELSE IF TeamFull(p) \/ OpenSlots = {} THEN NoSlot
         ELSE CHOOSE i \in OpenSlots : \A j \in OpenSlots : i <= j

TypeOK ==
  /\ pstatus \in [Slots -> {"PFREE", "POUTFIT"}]
  /\ homeaway \in [Slots -> Sides]
  /\ wait \in Int /\ count \in Int
  /\ request \in Requests /\ number \in Int /\ answer \in Int
  /\ pc \in [Procs -> Resting \cup Passing]
  /\ nap \in [Procs -> 0..2]
  /\ slot \in [Procs -> Slots \cup {NoSlot}]
  /\ my \in [Procs -> Locals]
  /\ turn \in Procs \cup {NoProc}
  /\ ghost \in [Slots -> 0..OutfitTime]
  /\ daemonUp \in BOOLEAN /\ quits \in 0..MaxQuits /\ crashes \in 0..MaxCrashes

(* main() of daemonII.c empties the queue; the seated players are there. *)
Init ==
  /\ pstatus = [i \in Slots |-> IF \E p \in Procs : Seat[p] = i
                                  THEN "POUTFIT" ELSE "PFREE"]
  /\ homeaway = [i \in Slots |->
                   IF \E p \in Procs : Seat[p] = i
                     THEN Side[CHOOSE p \in Procs : Seat[p] = i]
                     ELSE "NEITHER"]
  /\ wait = 0 /\ count = 0
  /\ request = "REQFREE" /\ number = 0 /\ answer = 0
  /\ pc = [p \in Procs |-> IF Seat[p] = NoSlot THEN "out" ELSE "in"]
  /\ nap = [p \in Procs |-> 0]
  /\ slot = Seat
  /\ my = [p \in Procs |-> Fresh]
  /\ turn = NoProc
  /\ ghost = [i \in Slots |-> 0]
  /\ daemonUp = TRUE /\ quits = 0 /\ crashes = 0

(* p, at l0, may run, and is at l1 afterwards. *)
Step(p, l0, l1) ==
  /\ pc[p] = l0
  /\ turn \in {NoProc, p}
  /\ pc' = [pc EXCEPT ![p] = l1]
  /\ turn' = IF Preempt \/ l1 \in Resting THEN NoProc ELSE p

(* p's process is over: its locals are, but not what it wrote. *)
Exits(p) ==
  /\ slot' = [slot EXCEPT ![p] = NoSlot]
  /\ my' = [my EXCEPT ![p] = Fresh]

-----------------------------------------------------------------------------
(* Before the queue. *)

(* Mutant of Arrive: does not look at the queue. *)
ArriveRudely(p) ==
  /\ Step(p, "out", "alloc")
  /\ UNCHANGED <<seats, tickets, mailbox, nap, slot, my, ghost, outside>>

(* Whoever waits already is served first; a tester need not care. *)
Arrive(p) ==
  /\ IF p \notin Overload /\ wait # count
       THEN Step(p, "out", "load")
       ELSE Step(p, "out", "alloc")
  /\ UNCHANGED <<seats, tickets, mailbox, nap, slot, my, ghost, outside>>

Alloc(p) ==
  /\ IF SlotFor(p) # NoSlot THEN Step(p, "alloc", "claim")
                            ELSE Step(p, "alloc", "load")
  /\ my' = [my EXCEPT ![p].i = SlotFor(p)]
  /\ UNCHANGED <<seats, tickets, mailbox, nap, slot, ghost, outside>>

(* count = status->count++, and then count - status->wait < 1: status->wait *)
(* is unsigned, so a number that wait has passed is not less than 1 ahead. *)
Load(p) ==
  /\ Step(p, "load", "store")
  /\ my' = [my EXCEPT ![p].count = count]
  /\ UNCHANGED <<seats, tickets, mailbox, nap, slot, ghost, outside>>

Store(p) ==
  /\ Step(p, "store", "loop")
  /\ count' = my[p].count + 1
  /\ my' = IF my[p].count = wait THEN [my EXCEPT ![p].pseudocount = 0] ELSE my
  /\ UNCHANGED <<seats, wait, mailbox, nap, slot, ghost, outside>>

(* The store of allocate_slot into the slot that its search returned. *)
Take(p) ==
  /\ pstatus' = [pstatus EXCEPT ![my[p].i] = "POUTFIT"]
  /\ slot' = [slot EXCEPT ![p] = my[p].i]
  /\ UNCHANGED <<homeaway, count, mailbox, nap, ghost, outside>>

ClaimAtOnce(p) ==
  /\ my[p].count = NoNumber
  /\ Step(p, "claim", "enter")
  /\ Take(p)
  /\ UNCHANGED <<wait, my>>

(* findslot returns to main(), which only now records the side. *)
Enter(p) ==
  /\ Step(p, "enter", "in")
  /\ homeaway' = [homeaway EXCEPT ![slot[p]] = Side[p]]
  /\ my' = [my EXCEPT ![p] = Fresh]
  /\ UNCHANGED <<pstatus, tickets, mailbox, nap, slot, ghost, outside>>

-----------------------------------------------------------------------------
(* One pass of the loop. *)

StayAlive(p) ==
  /\ Step(p, "loop", "sleep")
  /\ nap' = [nap EXCEPT ![p] = 1]
  /\ UNCHANGED <<seats, tickets, mailbox, slot, my, ghost, outside>>

(* A mutant of Quit: the number is given back wherever in the queue p is.   *)
QuitAnywhere(p) ==
  /\ quits < MaxQuits /\ quits' = quits + 1
  /\ Step(p, "loop", "gone") /\ Exits(p)
  /\ count' = count - 1
  /\ UNCHANGED <<seats, wait, mailbox, nap, ghost, daemonUp, crashes>>

(* isClientDead(): out of the queue, and of any slot it has taken. *)
Quit(p) ==
  /\ quits < MaxQuits
  /\ quits' = quits + 1
  /\ Step(p, "loop", "gone")
  /\ Exits(p)
  /\ IF my[p].count = count - 1
       THEN count' = count - 1 /\ UNCHANGED wait
       ELSE /\ wait' = IF my[p].count = wait THEN wait + 1 ELSE wait
            /\ UNCHANGED count
  /\ UNCHANGED <<seats, mailbox, nap, ghost, daemonUp, crashes>>

(* After sleep(1): no number out means that the daemon died. *)
Wake(p) ==
  /\ nap[p] = 0
  /\ \/ /\ count = 0
        /\ Step(p, "sleep", "gone")
        /\ Exits(p)
     \/ /\ count # 0
        /\ Step(p, "sleep", "done")
        /\ UNCHANGED <<slot, my>>
  /\ UNCHANGED <<seats, tickets, mailbox, nap, ghost, outside>>

(* A request of p's own stays up for four passes.  Then it comes down: a   *)
(* goodbye lets p go, into the game or away, ...                           *)
SaidBye(p) == my[p].myRequest = 1 /\ my[p].idie /\ request = "REQDEAD"

Goodbye(p) ==
  /\ SaidBye(p)
  /\ request' = "REQFREE"
  /\ \/ /\ slot[p] # NoSlot
        /\ Step(p, "done", "enter")
        /\ my' = [my EXCEPT ![p].myRequest = 0]
        /\ UNCHANGED slot
     \/ /\ slot[p] = NoSlot
        /\ Step(p, "done", "gone")
        /\ Exits(p)
  /\ UNCHANGED <<seats, tickets, number, answer, nap, ghost, outside>>

(* ... and anything else is taken for a question, answered by now. *)
ReadAnswer(p) ==
  /\ my[p].myRequest = 1 /\ ~SaidBye(p)
  /\ Step(p, "done", "bye")
  /\ request' = "REQFREE"
  /\ my' = [my EXCEPT ![p].myRequest = 0, ![p].pseudocount = answer,
                      ![p].idie = @ \/ answer > MaxAhead]
  /\ UNCHANGED <<seats, tickets, number, answer, nap, slot, ghost, outside>>

(* Mutant of CountDown: myRequest is not tested against 0 first. *)
CountBelow(p) ==
  /\ my[p].myRequest # 1
  /\ Step(p, "done", "bye")
  /\ my' = [my EXCEPT ![p].myRequest = @ - 1]
  /\ UNCHANGED <<seats, tickets, mailbox, nap, slot, ghost, outside>>

CountDown(p) ==
  /\ my[p].myRequest # 1
  /\ Step(p, "done", "bye")
  /\ my' = [my EXCEPT ![p].myRequest = IF @ = 0 THEN 0 ELSE @ - 1]
  /\ UNCHANGED <<seats, tickets, mailbox, nap, slot, ghost, outside>>

(* The two tests of status->request, and the posts they lead to. *)
TestRequest(p) ==
  /\ \/ IF my[p].idie /\ request = "REQFREE"
          THEN Step(p, "bye", "postdead") ELSE Step(p, "bye", "ask")
     \/ IF my[p].pseudocount = -1 /\ request = "REQFREE"
          THEN Step(p, "ask", "postwho") ELSE Step(p, "ask", "observe")
  /\ UNCHANGED <<seats, tickets, mailbox, nap, slot, my, ghost, outside>>

Post(p) ==
  /\ \/ /\ Step(p, "postdead", "ask")
        /\ request' = "REQDEAD"
        /\ UNCHANGED answer
     \/ /\ Step(p, "postwho", "observe")
        /\ request' = "REQWHO"
        /\ answer' = 0
  /\ number' = my[p].count
  /\ my' = [my EXCEPT ![p].myRequest = 4]
  /\ UNCHANGED <<seats, tickets, nap, slot, ghost, outside>>

(* Somebody else's request: p answers it once, then counts how often it    *)
(* has seen it, and the ninth time takes its poster for dead.              *)
Foreign(p)    == request # "REQFREE" /\ my[p].myRequest = 0
SeenBefore(p) == request = my[p].lastRequest /\ number = my[p].lastNumber

SeeNothing(p) ==
  /\ ~Foreign(p)
  /\ Step(p, "observe", "inline")
  /\ UNCHANGED <<seats, tickets, mailbox, nap, slot, my, ghost, outside>>

(* Mutant of SeeAgain: never takes the poster for dead. *)
SeeForever(p) ==
  /\ Foreign(p) /\ SeenBefore(p)
  /\ Step(p, "observe", "inline")
  /\ UNCHANGED <<seats, tickets, mailbox, my, nap, slot, ghost, outside>>

SeeAgain(p) ==
  /\ Foreign(p) /\ SeenBefore(p)
  /\ Step(p, "observe", "inline")
  /\ my' = [my EXCEPT ![p].reqCount = IF @ < 9 THEN @ + 1 ELSE 9]
  /\ request' = IF my[p].reqCount + 1 > 8 THEN "REQFREE" ELSE request
  /\ UNCHANGED <<seats, tickets, number, answer, nap, slot, ghost, outside>>

(* Mutant of SeeNew: any goodbye counts, not only that of a lower number. *)
SeeAnyBye(p) ==
  /\ Foreign(p) /\ ~SeenBefore(p)
  /\ Step(p, "observe", "inline")
  /\ answer' = IF request = "REQWHO" /\ my[p].count < number
                 THEN answer + 1 ELSE answer
  /\ my' = [my EXCEPT ![p].lastRequest = request, ![p].lastNumber = number,
                      ![p].reqCount = 1,
                      ![p].pseudocount =
                         IF request = "REQDEAD" /\ @ # -1 THEN @ - 1 ELSE @]
  /\ UNCHANGED <<seats, tickets, request, number, nap, slot, ghost, outside>>

SeeNew(p) ==
  /\ Foreign(p) /\ ~SeenBefore(p)
  /\ Step(p, "observe", "inline")
  /\ answer' = IF request = "REQWHO" /\ my[p].count < number
                 THEN answer + 1 ELSE answer
  /\ my' = [my EXCEPT ![p].lastRequest = request, ![p].lastNumber = number,
                      ![p].reqCount = 1,
                      ![p].pseudocount =
                         IF request = "REQDEAD" /\ my[p].count > number /\ @ # -1
                           THEN @ - 1 ELSE @]
  /\ UNCHANGED <<seats, tickets, request, number, nap, slot, ghost, outside>>

(* Somebody raised wait too high: p claims to be next; others may object. *)
InLine(p) ==
  /\ \/ /\ wait > my[p].count /\ ~my[p].idie
        /\ Step(p, "inline", "nap")
        /\ wait' = my[p].count
        /\ nap' = [nap EXCEPT ![p] = 2]
     \/ /\ wait <= my[p].count \/ my[p].idie
        /\ Step(p, "inline", "serve")
        /\ UNCHANGED <<wait, nap>>
  /\ UNCHANGED <<seats, count, mailbox, slot, my, ghost, outside>>

(* Not yet, or no more: p is leaving, or allocate_slot finds nothing. *)
Continue(p) ==
  /\ my[p].idie \/ SlotFor(p) = NoSlot
  /\ Step(p, "serve", "loop")
  /\ UNCHANGED <<seats, tickets, mailbox, nap, slot, my, ghost, outside>>

(* Mutant of Served: does not wait for p's number. *)
ServedEarly(p) ==
  /\ ~my[p].idie /\ SlotFor(p) # NoSlot
  /\ Step(p, "serve", "claim")
  /\ my' = [my EXCEPT ![p].i = SlotFor(p)]
  /\ UNCHANGED <<seats, tickets, mailbox, nap, slot, ghost, outside>>

(* The number being served is p's and there is a slot. *)
Served(p) ==
  /\ ~my[p].idie /\ SlotFor(p) # NoSlot /\ my[p].count = wait
  /\ Step(p, "serve", "claim")
  /\ my' = [my EXCEPT ![p].i = SlotFor(p)]
  /\ UNCHANGED <<seats, tickets, mailbox, nap, slot, ghost, outside>>

ClaimInTurn(p) ==
  /\ my[p].count # NoNumber
  /\ Step(p, "claim", "loop")
  /\ Take(p)
  /\ wait' = wait + 1
  /\ my' = [my EXCEPT ![p].idie = TRUE]

(* There is a slot, and the number being served does not come for it.  The *)
(* fifth time p takes its owner for dead and says that p is next.          *)
Waits(p) == IF my[p].oldwait = wait THEN my[p].waits + 1 ELSE 1

(* Mutant of Lurk: waits for ever. *)
LurkForever(p) ==
  /\ ~my[p].idie /\ SlotFor(p) # NoSlot /\ my[p].count # wait
  /\ Step(p, "serve", "loop")
  /\ UNCHANGED <<seats, tickets, mailbox, my, nap, slot, ghost, outside>>

Lurk(p) ==
  /\ ~my[p].idie /\ SlotFor(p) # NoSlot /\ my[p].count # wait
  /\ \/ /\ Waits(p) # 5
        /\ Step(p, "serve", "loop")
        /\ my' = [my EXCEPT ![p].oldwait = wait, ![p].waits = Waits(p)]
        /\ UNCHANGED <<wait, nap>>
     \/ /\ Waits(p) = 5
        /\ Step(p, "serve", "nap2")
        /\ my' = [my EXCEPT ![p].oldwait = wait, ![p].waits = 0]
        /\ wait' = my[p].count
        /\ nap' = [nap EXCEPT ![p] = 2]
  /\ UNCHANGED <<seats, count, mailbox, slot, ghost, outside>>

(* After a sleep(2): on to the service, or to the top of the loop. *)
NapOver(p) ==
  /\ nap[p] = 0
  /\ Step(p, "nap", "serve") \/ Step(p, "nap2", "loop")
  /\ UNCHANGED <<seats, tickets, mailbox, nap, slot, my, ghost, outside>>

-----------------------------------------------------------------------------
(* The surroundings. *)

(* atexitfunc() of a process that plays. *)
Leave(p) ==
  /\ Step(p, "in", "gone")
  /\ pstatus' = [pstatus EXCEPT ![slot[p]] = "PFREE"]
  /\ Exits(p)
  /\ UNCHANGED <<homeaway, tickets, mailbox, nap, ghost, outside>>

(* "processes may die, and not report it (for whatever reason)" *)
Crash(p) ==
  /\ crashes < MaxCrashes
  /\ pc[p] \notin {"out", "gone"}
  /\ crashes' = crashes + 1
  /\ pc' = [pc EXCEPT ![p] = "gone"]
  /\ nap' = [nap EXCEPT ![p] = 0]
  /\ turn' = IF turn = p THEN NoProc ELSE turn
  /\ Exits(p)
  /\ UNCHANGED <<seats, tickets, mailbox, ghost, daemonUp, quits>>

(* udplayers(): nobody resets the ghostbuster of a slot without a process. *)
AnyGhost(i) == pstatus[i] = "POUTFIT"  \* mutant of Ghost
Ghost(i) == pstatus[i] = "POUTFIT" /\ \A p \in Procs : slot[p] # i

GhostBust(i) ==
  /\ daemonUp /\ turn = NoProc
  /\ Ghost(i) /\ ghost[i] = OutfitTime
  /\ pstatus' = [pstatus EXCEPT ![i] = "PFREE"]
  /\ ghost' = [ghost EXCEPT ![i] = 0]
  /\ UNCHANGED <<homeaway, tickets, mailbox, pc, nap, slot, my, turn, outside>>

(* freemem(): every slot to POUTFIT, and the waiting players are killed. *)
DaemonDies ==
  /\ DaemonMayDie /\ daemonUp /\ turn = NoProc
  /\ daemonUp' = FALSE
  /\ pstatus' = [i \in Slots |-> "POUTFIT"]
  /\ count' = 0
  /\ UNCHANGED <<homeaway, wait, mailbox, pc, nap, slot, my, turn, ghost, quits,
                 crashes>>

(* A second passes once every pass that was due in it has been made. *)
Tick ==
  /\ turn = NoProc
  /\ \A p \in Procs : pc[p] \in Resting /\ (pc[p] \in Asleep => nap[p] > 0)
  /\ \/ \E p \in Procs : pc[p] \in Asleep
     \/ \E i \in Slots : Ghost(i) /\ ghost[i] < OutfitTime
  /\ nap' = [p \in Procs |-> IF pc[p] \in Asleep THEN nap[p] - 1 ELSE nap[p]]
  /\ ghost' = [i \in Slots |-> IF Ghost(i) /\ ghost[i] < OutfitTime
                                 THEN ghost[i] + 1 ELSE ghost[i]]
  /\ UNCHANGED <<seats, tickets, mailbox, pc, slot, my, turn, outside>>

(* Every process has come and gone. *)
AllGone == (\A p \in Procs : pc[p] = "gone") /\ UNCHANGED vars

Run(p) ==
  \/ Alloc(p) \/ Load(p) \/ Store(p) \/ ClaimAtOnce(p) \/ Enter(p)
  \/ StayAlive(p) \/ Wake(p) \/ Goodbye(p) \/ ReadAnswer(p) \/ CountDown(p)
  \/ TestRequest(p) \/ Post(p) \/ SeeNothing(p) \/ SeeAgain(p) \/ SeeNew(p)
  \/ InLine(p) \/ Continue(p) \/ Served(p) \/ ClaimInTurn(p) \/ Lurk(p)
  \/ NapOver(p)

Next ==
  \/ \E p \in Procs : Run(p) \/ Arrive(p) \/ Quit(p) \/ Leave(p) \/ Crash(p)
  \/ \E i \in Slots : GhostBust(i)
  \/ DaemonDies
  \/ Tick
  \/ AllGone

Spec == Init /\ [][Next]_vars

(* The processes run, the clock ticks, and the daemon clears ghosts. *)
FairSpec ==
  /\ Spec
  /\ \A p \in Procs : WF_vars(Run(p))
  /\ \A i \in Slots : WF_vars(GhostBust(i))
  /\ WF_vars(Tick)

-----------------------------------------------------------------------------
(* What the queue promises. *)

Waiting(p) == my[p].count # NoNumber /\ pc[p] # "store"

(* grabslot implements the pool of slots. *)
Pool == INSTANCE SlotPool WITH seat <- slot
(* No slot is given to two processes, although allocate_slot tests         *)
(* p_status and sets it without a lock, and although processes die with    *)
(* a slot in hand and their slots are handed out again.                    *)
SeatsArePooled == Pool!Spec

(* The slot of a process is never up for grabs, and nobody else holds it:  *)
(* what a leaver, the ghostbuster or a dropped client does to p_status     *)
(* does not reach the slot of another process.                             *)
NoSharedSlot ==
  \A p \in Procs : slot[p] # NoSlot =>
    /\ pstatus[slot[p]] = "POUTFIT"
    /\ \A q \in Procs \ {p} : slot[q] # slot[p]

(* The numbers of the processes in the queue are distinct, and the next    *)
(* number to take is none of them, although those who drop out of the end  *)
(* give their number back (status->count--).                               *)
NumbersDistinct ==
  \A p \in Procs : Waiting(p) =>
    /\ my[p].count < count
    /\ \A q \in Procs \ {p} : Waiting(q) => my[q].count # my[p].count

(* Why slots are not shared when passes do not interleave: a process in a  *)
(* pass has the turn, so the slot that its search found is still free when *)
(* it stores into it, and a process that goes for a slot has none yet.     *)
Unseated == {"out", "alloc", "claim", "load", "store", "gone"}
SeatInv ==
  /\ TypeOK
  /\ NoSharedSlot
  /\ \A p \in Procs :
       /\ pc[p] \in Passing => turn = p
       /\ pc[p] = "claim" => my[p].i \in Slots /\ pstatus[my[p].i] = "PFREE"
       /\ pc[p] \in Unseated => slot[p] = NoSlot
       /\ slot[p] # NoSlot => my[p].idie \/ pc[p] \in {"enter", "in"}

(* Why numbers stay distinct: the number that a process has loaded is still*)
(* the next one when it stores, and whoever is in the loop has a number.   *)
InLoop == {"loop", "sleep", "done", "bye", "postdead", "ask", "postwho",
           "observe", "inline", "nap", "serve", "nap2"}
NumberInv ==
  /\ count >= 0
  /\ NumbersDistinct
  /\ \A p \in Procs :
       /\ my[p].count >= NoNumber
       /\ pc[p] = "store" => my[p].count = count
       /\ pc[p] \in InLoop => my[p].count # NoNumber

(* "Number of people in front of me (-1 means I don't know)": the position *)
(* that a client is shown is never better than its own.                    *)
Ahead(p) == {q \in Procs : Waiting(q) /\ ~my[q].idie /\ my[q].count < my[p].count}
PositionHonest ==
  \A p \in Procs : Waiting(p) /\ my[p].pseudocount # -1 =>
                    my[p].pseudocount >= Cardinality(Ahead(p))

(* "the process with the lowest count will be served": nobody takes a slot *)
(* while a process that could take it waits with a lower number.           *)
Entitled(q) == Waiting(q) /\ ~my[q].idie /\ SlotFor(q) # NoSlot
LowestServed ==
  [][\A p \in Procs : ClaimInTurn(p) =>
       \A q \in Procs \ {p} : Entitled(q) => my[p].count < my[q].count]_vars
(* "If other players waiting, we get in line behind them": no newcomer     *)
(* takes a slot that somebody in the queue could take.                     *)
NoJumping ==
  [][\A p \in Procs : ClaimAtOnce(p) /\ p \notin Overload =>
       \A q \in Procs : ~Entitled(q)]_vars

(* Why the lowest number is served: who is in the queue and means to play, *)
(* the seconds until its next pass, and until that pass reaches the test   *)
(* for a slot, and who has seen that the number being served does not come.*)
Queued(p)  == Waiting(p) /\ ~my[p].idie
Napping(p) == pc[p] \in {"nap", "nap2"}
Due(p)     == IF pc[p] = "loop" THEN 1 ELSE nap[p]
ToServe(p) == IF pc[p] = "nap2" THEN nap[p] + 1 ELSE Due(p)
Looked(p)  == Queued(p) /\ my[p].waits > 0
Watches(p) == Looked(p) /\ my[p].oldwait = wait

(* One queue for everybody: no league, no testers, nobody disconnects.     *)
OneQueue == ~Preempt /\ ~League /\ Overload = {} /\ MaxQuits = 0 /\ ~DaemonMayDie

(* Where the locals of p and the clock stand at the labels of a pass. *)
PassInv(p) ==
  /\ pc[p] \notin Asleep => nap[p] = 0
  /\ pc[p] = "sleep" => nap[p] <= 1
  /\ pc[p] \in {"out", "alloc", "load", "store"} => my[p].waits = 0
  /\ pc[p] \in {"out", "alloc", "load", "in", "gone"} => my[p].count = NoNumber
  /\ pc[p] = "alloc" => wait = count
  /\ pc[p] = "claim" => IF my[p].count = NoNumber
                          THEN wait = count
                          ELSE ~my[p].idie /\ wait = my[p].count
  /\ pc[p] = "enter" => my[p].count = NoNumber \/ my[p].idie
  /\ pc[p] = "serve" /\ ~my[p].idie => wait <= my[p].count

(* Whoever was passed by is not napping, and wait is a number given out. *)
PassedBy ==
  /\ wait <= count
  /\ \A q \in Procs : Queued(q) /\ my[q].count < wait =>
                        wait < count /\ ~Napping(q)

(* Who is being served while a lower number waits naps, and the lower      *)
(* number makes a pass, and has itself served, before the nap is over.     *)
Objection ==
  \A q, s \in Procs :
    Queued(q) /\ Queued(s) /\ my[s].count = wait /\ my[q].count < wait =>
      Napping(s) /\ nap[s] > Due(q)

(* The number p has looked at (oldwait) is still the one being served, or  *)
(* everybody up to it has left, or somebody with a lower number, just      *)
(* passed by, stepped in: then p looks again before that one's nap is over.*)
Current(p) == my[p].oldwait = wait /\ ~Napping(p) /\ OpenSlots # {}
Past(p) == my[p].oldwait < wait /\ \A q \in Procs : Queued(q) =>
                                      my[p].oldwait < my[q].count
Recalled(p) ==
  /\ wait < my[p].oldwait /\ ~Napping(p) /\ OpenSlots # {}
  /\ \A q \in Procs : Queued(q) /\ my[q].count = wait =>
                        pc[q] = "nap" /\ nap[q] > Due(p)
  /\ \A r \in Procs : Watches(r) => my[r].waits + Due(p) <= 1 + Due(r)
Looks == \A p \in Procs : Looked(p) =>
           /\ my[p].oldwait < my[p].count
           /\ Current(p) \/ Past(p) \/ Recalled(p)

(* How often r can have looked while q, passed by, being served or napping,*)
(* still comes: too rarely to take q for dead.                             *)
Patience ==
  \A r, q \in Procs : Watches(r) /\ Queued(q) =>
    /\ my[q].count < wait => my[r].waits + Due(q) <= 1 + Due(r)
    /\ my[q].count = wait => my[r].waits + ToServe(q) <= 3 + Due(r)
    /\ Napping(q) => my[r].waits + nap[q] <= 2 + Due(r)

LineInv ==
  /\ \A p \in Procs : PassInv(p)
  /\ PassedBy /\ Objection /\ Looks /\ Patience

(* Why the position is honest: nobody is passed by, and every number from  *)
(* the one being served to the last one given out is that of somebody who  *)
(* waits for it, so that nobody ever takes anybody for dead.               *)
GapFree ==
  /\ \A q \in Procs : Queued(q) => wait <= my[q].count
  /\ \A n \in wait .. count - 1 : \E q \in Procs : Queued(q) /\ my[q].count = n
  /\ \A p \in Procs :
       /\ ~Napping(p)
       /\ Waiting(p) /\ my[p].idie => my[p].count < wait
       /\ pc[p] \in {"out", "alloc", "load", "store"} => ~my[p].idie

(* Who takes part in the mailbox, and the seconds until it next counts its *)
(* own request down and until it next looks at somebody else's.            *)
Here(p) == Waiting(p) /\ pc[p] # "enter"
Posts(p) == my[p].myRequest > 0
NextDone(p) == IF pc[p] = "sleep" THEN nap[p] ELSE IF pc[p] = "done" THEN 0 ELSE 1
NextLook(p) ==
  IF pc[p] = "sleep" THEN nap[p]
  ELSE IF pc[p] \in {"done", "bye", "postdead", "ask", "postwho", "observe"}
         THEN 0 ELSE 1
Left(p) == my[p].myRequest + NextDone(p)
Saw(q, req, n) == my[q].lastRequest = req /\ my[q].lastNumber = n

(* What p knows of the mailbox: that its own request is the one that is up,*)
(* and that the mailbox is free when it posts.                             *)
Letter(p) ==
  /\ Posts(p) => /\ Here(p) /\ request # "REQFREE" /\ number = my[p].count
                 /\ request = "REQDEAD" => my[p].idie
                 /\ request = "REQWHO" => my[p].pseudocount = -1
  /\ pc[p] = "postdead" => request = "REQFREE" /\ my[p].idie
  /\ pc[p] = "postwho" => request = "REQFREE" /\ my[p].pseudocount = -1
  /\ pc[p] \in {"out", "alloc", "load", "store"} =>
       my[p].lastRequest = "REQFREE" /\ my[p].pseudocount = -1
  /\ Here(p) /\ my[p].lastRequest # "REQFREE" => my[p].lastNumber < count
  /\ my[p].pseudocount >= -1

(* A request is up for four or five seconds.  In that time everybody sees  *)
(* it, and nobody so often as to take its poster for dead.                 *)
Punctual(p, q) ==
  IF Saw(q, request, number)
    THEN my[q].reqCount + Left(p) <= 5 + NextLook(q)
    ELSE my[q].count < number => NextLook(q) + 4 <= Left(p)

MailInv ==
  /\ request # "REQFREE" => \E p \in Procs : Posts(p)
  /\ answer >= 0
  /\ \A p \in Procs : Letter(p)
  /\ \A p, q \in Procs : Posts(p) /\ Here(q) /\ q # p => Punctual(p, q)
  /\ \A p, q \in Procs : Here(p) /\ Here(q) /\ Saw(q, "REQDEAD", my[p].count) =>
                            request = "REQDEAD" /\ number = my[p].count

(* Those whom p has to count: everybody with a lower number whose goodbye  *)
(* it has not seen; and those of them who have answered it.                *)
Before(p) == {q \in Procs : Here(q) /\ my[q].count < my[p].count
                              /\ ~Saw(p, "REQDEAD", my[q].count)}
Answered(p) == {q \in Before(p) : Saw(q, "REQWHO", my[p].count)}
Unasked(p) ==
  /\ \A q \in Procs : Here(q) => ~Saw(q, "REQWHO", my[p].count)
  /\ ~(Posts(p) /\ request = "REQWHO")
  /\ my[p].pseudocount # -1 => my[p].count <= wait
Asking(p) ==
  /\ Posts(p) /\ request = "REQWHO" /\ my[p].pseudocount = -1
  /\ Cardinality(Answered(p)) <= answer
Told(p) == Cardinality(Before(p)) <= my[p].pseudocount
CountInv == \A p \in Procs : Here(p) => Unasked(p) \/ Asking(p) \/ Told(p)

(* Nobody leaves the queue but into the game: no process vanishes while it *)
(* waits, and nobody finds the queue too long.                             *)
NobodyVanishes ==
  [][\A p \in Procs : /\ Crash(p) => ~Waiting(p)
                      /\ ReadAnswer(p) => answer <= MaxAhead]_vars

(* A slot does not stay free while somebody waits for it, whoever died.    *)
FreeSlotTaken ==
  (\E p \in Procs : Entitled(p)) ~> (~daemonUp \/ \A p \in Procs : ~Entitled(p))

(* A request does not block the mailbox for ever, even if its poster died. *)
MailboxFreed ==
  (request # "REQFREE" /\ \E p \in Procs : Waiting(p))
    ~> (request = "REQFREE" \/ \A p \in Procs : ~Waiting(p))

(* freemem(), "Kill waiting players": with the daemon goes the queue.      *)
QueueKilled == ~daemonUp ~> (\A p \in Procs : ~Waiting(p))

(* "make sure one team doesn't crowd out the other" *)
Crowd(side) == {p \in Procs \ Overload : slot[p] # NoSlot /\ Side[p] = side}
NoCrowding ==
  League => \A side \in {"HOME", "AWAY"} :
              2 * Cardinality(Crowd(side)) <= NumSlots - NTesters

=============================================================================
