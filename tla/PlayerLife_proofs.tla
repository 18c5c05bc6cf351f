-------------------------- MODULE PlayerLife_proofs --------------------------
(***************************************************************************)
(* Proofs about PlayerLife, for any number of processes and any lengths of *)
(* the timers that are Timely: a slot has one process at a time (OneOwner),*)
(* and the ghostbuster busts only the dead (BustsOnlyTheDead).             *)
(*                                                                         *)
(* The argument is a budget: for each place a process can be at, how far   *)
(* p_ghostbuster has come at most (Budget).  Timely says that no budget    *)
(* reaches the limit of udplayers() there.                                 *)
(***************************************************************************)
EXTENDS PlayerLife, FiniteSetTheorems, TLAPS

(* The longest that a process does not run. *)
Rest == IF RetryTime > Slack THEN RetryTime ELSE Slack

(* The oldest that p_ghostbuster is when a client comes to the outfit screen. *)
Arrival == IF AutoQuit > Rest THEN AutoQuit ELSE Rest

(* What the code counts on: nobody comes before the daemon has seen the slot *)
(* free, an exit is short, clients answer pings, and the timers are long     *)
(* enough: a reconnection and two runs before GHOSTTIME, a stay in the login *)
(* screen, one in the outfit screen and two runs before OUTFITTIME.          *)
Timely ==
  /\ ~Hasty /\ ~SlowExit /\ ~PingBust
  /\ Rest + 2 * Slack <= GhostTime
  /\ Arrival + AutoQuit + 2 * Slack <= OutfitTime

Retrying == {"retry_outfit", "retry_play"}
Limit(l) == IF l \in Retrying THEN RetryTime ELSE Slack

Typed ==
  /\ pstatus \in {"PFREE", "POUTFIT", "PALIVE", "PEXPLODE", "PDEAD", "POBSERVE", "PTQUEUE"}
  /\ ghostbuster \in Nat
  /\ pc \in [Procs -> Holding \cup Exiting \cup {"queue", "gone"}]
  /\ client \in [Procs -> {"here", "gone", "bye"}]
  /\ lag \in [Procs -> Nat] /\ waited \in [Procs -> Nat]

(* One process has the slot, or is on its way out of it. *)
Alone == \A q, r \in Procs :
  pc[q] \in Holding \cup Exiting /\ pc[r] \in Holding \cup Exiting => q = r

(* Nobody is late. *)
Clock(q) ==
  /\ lag[q] <= Limit(pc[q])
  /\ pc[q] \in AtScreen /\ client[q] = "here" => waited[q] <= AutoQuit

(* In the login and the outfit screen a player is neither dead nor flying. *)
Status(q) ==
  /\ pstatus # "PFREE"
  /\ pc[q] = "login" => pstatus = "POUTFIT"
  /\ pc[q] \in {"outfit", "pick", "retry_outfit"} => pstatus \in {"POUTFIT", "PTQUEUE"}

(* A client that is there is on its own clock; without one the process goes  *)
(* through the screen once more, and notices.                               *)
More(q) == IF pc[q] = "pick" THEN Slack ELSE 0
Patience(q) == IF client[q] = "here" THEN waited[q] ELSE AutoQuit + lag[q] + More(q)

(* How far p_ghostbuster has come, at most. *)
Budget(q) ==
  /\ pc[q] = "login" => ghostbuster <= Patience(q)
  /\ pc[q] \in {"outfit", "pick"} =>
       ghostbuster <= IF pstatus = "POUTFIT" THEN Arrival + Patience(q)
                      ELSE Rest + lag[q] + More(q)
  /\ pc[q] = "serve" => ghostbuster <= Rest + lag[q]
  /\ pc[q] \in {"play"} \cup Retrying => ghostbuster <= lag[q]

Fits(q) == pc[q] \in Holding => Clock(q) /\ Status(q) /\ Budget(q)

IInv == Typed /\ Alone /\ \A q \in Procs : Fits(q)

-----------------------------------------------------------------------------

USE DEF Holding, Exiting, AtScreen, Retrying, Limit, InGame

LEMMA Lengths ==
  /\ Slack \in Nat \ {0} /\ RetryTime \in Nat \ {0} /\ AutoQuit \in Nat \ {0}
  /\ GhostTime \in Nat \ {0} /\ OutfitTime \in Nat \ {0}
  /\ Rest \in Nat /\ Slack <= Rest /\ RetryTime <= Rest
  /\ Arrival \in Nat /\ Rest <= Arrival /\ AutoQuit <= Arrival
  /\ Huge \in Nat /\ Longest \in Nat
BY PlayerLifeAssumption DEF Rest, Arrival, Huge, Longest

(* No other process is in the slot, so a step of the one that is need only   *)
(* see to itself.                                                           *)
LEMMA OneProcess ==
  ASSUME IInv, NEW q \in Procs, pc[q] \in Holding \cup Exiting,
         NEW m \in Holding \cup Exiting \cup {"gone"}, pc' = [pc EXCEPT ![q] = m],
         Typed', m \in Holding => Fits(q)'
  PROVE  IInv'
<1>1. pc \in [Procs -> Holding \cup Exiting \cup {"queue", "gone"}]
  BY DEF IInv, Typed
<1>2. \A r \in Procs : r # q => pc'[r] \notin Holding \cup Exiting
  BY <1>1 DEF IInv, Alone
<1>3. Alone'
  BY <1>2 DEF Alone
<1>4. \A r \in Procs : Fits(r)'
  <2> SUFFICES ASSUME NEW r \in Procs, pc'[r] \in Holding PROVE Fits(r)'
    BY DEF Fits
  <2>1. r = q /\ m \in Holding
    BY <1>1, <1>2
  <2> QED BY <2>1
<1> QED BY <1>3, <1>4 DEF IInv

LEMMA InitIInv == Init => IInv
BY DEF Init, IInv, Typed, Alone, Fits

-----------------------------------------------------------------------------
(* Processes *)

LEMMA StepTake == \A q \in Procs : Timely /\ IInv /\ Take(q) => IInv'
<1> SUFFICES ASSUME NEW q \in Procs, Timely, IInv, Take(q) PROVE IInv'
  OBVIOUS
<1>1. /\ pc[q] = "queue" /\ pc' = [pc EXCEPT ![q] = "login"] /\ lag' = [lag EXCEPT ![q] = 0]
      /\ waited' = [waited EXCEPT ![q] = 0] /\ pstatus = "PFREE" /\ pstatus' = "POUTFIT"
      /\ ghostbuster = 0 /\ ghostbuster' = 0 /\ client' = client
      /\ \A r \in Procs \ {q} : pc[r] \notin Exiting
  BY DEF Take, Step, Turn, ComeToScreen, Timely
<1>2. \A r \in Procs : pc[r] \notin Holding \cup Exiting
  BY <1>1 DEF IInv, Fits, Status
<1>3. Typed'
  BY <1>1 DEF IInv, Typed
<1>4. \A r \in Procs : pc'[r] \in Holding \cup Exiting => r = q
  BY <1>1, <1>2 DEF IInv, Typed
<1>5. Alone'
  BY <1>4 DEF Alone
<1>6. pc'[q] = "login" /\ lag'[q] = 0 /\ waited'[q] = 0
  BY <1>1 DEF IInv, Typed
<1>7. Fits(q)'
  BY <1>1, <1>6, Lengths DEF Fits, Clock, Status, Budget, Patience, More
<1>8. \A r \in Procs : Fits(r)'
  BY <1>4, <1>7 DEF Fits
<1> QED BY <1>3, <1>5, <1>8 DEF IInv

(* What is known of a process that is somewhere and goes somewhere. *)
LEMMA AtStep ==
  ASSUME IInv, NEW q \in Procs, NEW l \in Holding, NEW m \in Holding \cup Exiting, Step(q, l, m)
  PROVE  /\ pc[q] = l /\ pc' = [pc EXCEPT ![q] = m] /\ lag' = [lag EXCEPT ![q] = 0]
         /\ pc'[q] = m /\ lag'[q] = 0 /\ lag[q] \in Nat /\ waited[q] \in Nat /\ ghostbuster \in Nat
         /\ pc' \in [Procs -> Holding \cup Exiting \cup {"queue", "gone"}]
         /\ lag' \in [Procs -> Nat]
         /\ Clock(q) /\ Status(q) /\ Budget(q)
BY DEF Step, IInv, Typed, Fits

LEMMA StepLogin == \A q \in Procs : IInv /\ Login(q) => IInv'
<1> SUFFICES ASSUME NEW q \in Procs, IInv, Login(q) PROVE IInv'
  OBVIOUS
<1>1. Step(q, "login", "outfit")
  BY DEF Login
<1>2. /\ client[q] = "here" /\ pstatus' = "POUTFIT" /\ waited' = [waited EXCEPT ![q] = 0]
      /\ UNCHANGED <<ghostbuster, client>>
  BY DEF Login, ComeToScreen
<1>3. Typed'
  BY <1>1, <1>2, AtStep DEF IInv, Typed
<1>4. Fits(q)'
  BY <1>1, <1>2, <1>3, AtStep, Lengths DEF Fits, Clock, Status, Budget, Patience, More
<1> QED BY <1>1, <1>3, <1>4, AtStep, OneProcess

LEMMA StepBusted == \A q \in Procs : IInv /\ Busted(q) => IInv'
<1> SUFFICES ASSUME NEW q \in Procs, IInv, Busted(q) PROVE IInv'
  OBVIOUS
<1>1. Step(q, "outfit", "pick")
  BY DEF Busted
<1>2. pstatus # "PFREE"
  BY <1>1, AtStep DEF Status
<1>3. UNCHANGED <<pstatus, ghostbuster, client, waited>>
  BY <1>2 DEF Busted
<1>4. Typed'
  BY <1>1, <1>3, AtStep DEF IInv, Typed
<1>5. Fits(q)'
  BY <1>1, <1>3, <1>4, AtStep, Lengths DEF Fits, Clock, Status, Budget, Patience, More
<1> QED BY <1>1, <1>4, <1>5, AtStep, OneProcess

LEMMA StepWait == \A q \in Procs : IInv /\ Wait(q) => IInv'
<1> SUFFICES ASSUME NEW q \in Procs, IInv, Wait(q) PROVE IInv'
  OBVIOUS
<1>1. Step(q, "pick", "outfit")
  BY DEF Wait
<1>2. /\ client[q] = "here" /\ UNCHANGED <<pstatus, client, waited>>
      /\ ghostbuster' = IF pstatus = "PTQUEUE" THEN 0 ELSE ghostbuster
  BY DEF Wait
<1>3. Typed'
  BY <1>1, <1>2, AtStep DEF IInv, Typed
<1>4. Fits(q)'
  <2>1. CASE pstatus = "PTQUEUE"
    BY <1>1, <1>2, <1>3, <2>1, AtStep, Lengths DEF Fits, Clock, Status, Budget, Patience, More
  <2>2. CASE pstatus = "POUTFIT"
    BY <1>1, <1>2, <1>3, <2>2, AtStep, Lengths DEF Fits, Clock, Status, Budget, Patience, More
  <2> QED BY <1>1, <2>1, <2>2, AtStep DEF Status
<1> QED BY <1>1, <1>3, <1>4, AtStep, OneProcess

LEMMA StepPick == \A q \in Procs : IInv /\ Pick(q) => IInv'
<1> SUFFICES ASSUME NEW q \in Procs, IInv, Pick(q) PROVE IInv'
  OBVIOUS
<1>1. Step(q, "pick", "play")
  BY DEF Pick
<1>2. pstatus' \in {"PALIVE", "POBSERVE"} /\ ghostbuster' = 0 /\ UNCHANGED <<client, waited>>
  BY DEF Pick
<1>3. Typed'
  BY <1>1, <1>2, AtStep DEF IInv, Typed
<1>4. Fits(q)'
  BY <1>1, <1>2, <1>3, AtStep, Lengths DEF Fits, Clock, Status, Budget, Patience, More
<1> QED BY <1>1, <1>3, <1>4, AtStep, OneProcess

LEMMA StepNoName == \A q \in Procs : IInv /\ NoName(q) => IInv'
<1> SUFFICES ASSUME NEW q \in Procs, IInv, NoName(q) PROVE IInv'
  OBVIOUS
<1>1. Step(q, "login", IF pstatus = "PFREE" \/ client[q] # "here" THEN "save" ELSE "login")
  BY DEF NoName
<1>2. UNCHANGED <<pstatus, ghostbuster, client, waited>>
  BY DEF NoName, shm
<1>3. CASE pstatus = "PFREE" \/ client[q] # "here"
  <2>1. Step(q, "login", "save")
    BY <1>1, <1>3
  <2>2. Typed'
    BY <1>2, <2>1, AtStep DEF IInv, Typed
  <2> QED BY <2>1, <2>2, AtStep, OneProcess
<1>4. CASE client[q] = "here" /\ pstatus # "PFREE"
  <2>1. Step(q, "login", "login")
    BY <1>1, <1>4
  <2>2. Typed'
    BY <1>2, <2>1, AtStep DEF IInv, Typed
  <2>3. Fits(q)'
    BY <1>2, <1>4, <2>1, <2>2, AtStep, Lengths DEF Fits, Clock, Status, Budget, Patience, More
  <2> QED BY <2>1, <2>2, <2>3, AtStep, OneProcess
<1> QED BY <1>3, <1>4

(* While the process sleeps and connects, the daemon starts to count again. *)
LEMMA Kept ==
  ASSUME IInv, NEW q \in Procs, pc[q] \in {"pick", "retry_outfit"}, KeepSlot
  PROVE  pstatus' = pstatus /\ pstatus \in {"POUTFIT", "PTQUEUE"} /\ ghostbuster' = 0
BY DEF IInv, Fits, Status, KeepSlot

LEMMA StepOutfitLost == \A q \in Procs : IInv /\ OutfitLost(q) => IInv'
<1> SUFFICES ASSUME NEW q \in Procs, IInv, OutfitLost(q) PROVE IInv'
  OBVIOUS
<1>1. client[q] # "here" /\ UNCHANGED <<client, waited>>
  BY DEF OutfitLost
<1>2. CASE client[q] = "bye"
  <2>1. Step(q, "pick", "save") /\ UNCHANGED <<pstatus, ghostbuster>>
    BY <1>2 DEF OutfitLost
  <2>2. Typed'
    BY <1>1, <2>1, AtStep DEF IInv, Typed
  <2> QED BY <2>1, <2>2, AtStep, OneProcess
<1>3. CASE client[q] # "bye"
  <2>1. Step(q, "pick", "retry_outfit") /\ KeepSlot
    BY <1>3 DEF OutfitLost
  <2>2. pstatus' = pstatus /\ pstatus \in {"POUTFIT", "PTQUEUE"} /\ ghostbuster' = 0
    BY <2>1, AtStep, Kept
  <2>3. Typed'
    BY <1>1, <2>1, <2>2, AtStep DEF IInv, Typed
  <2>4. Fits(q)'
    BY <2>1, <2>2, <2>3, AtStep, Lengths DEF Fits, Clock, Status, Budget, Patience, More
  <2> QED BY <2>1, <2>3, <2>4, AtStep, OneProcess
<1> QED BY <1>2, <1>3

LEMMA StepRetryOutfit == \A q \in Procs : IInv /\ RetryOutfit(q) => IInv'
<1> SUFFICES ASSUME NEW q \in Procs, IInv, RetryOutfit(q) PROVE IInv'
  OBVIOUS
<1>1. Step(q, "retry_outfit", "retry_outfit") /\ KeepSlot /\ UNCHANGED <<client, waited>>
  BY DEF RetryOutfit
<1>2. pstatus' = pstatus /\ pstatus \in {"POUTFIT", "PTQUEUE"} /\ ghostbuster' = 0
  BY <1>1, AtStep, Kept
<1>3. Typed'
  BY <1>1, <1>2, AtStep DEF IInv, Typed
<1>4. Fits(q)'
  BY <1>1, <1>2, <1>3, AtStep, Lengths DEF Fits, Clock, Status, Budget, Patience, More
<1> QED BY <1>1, <1>3, <1>4, AtStep, OneProcess

LEMMA StepOutfitResumed == \A q \in Procs : IInv /\ OutfitResumed(q) => IInv'
<1> SUFFICES ASSUME NEW q \in Procs, IInv, OutfitResumed(q) PROVE IInv'
  OBVIOUS
<1>1. Step(q, "retry_outfit", "outfit")
  BY DEF OutfitResumed
<1>2. /\ client' = [client EXCEPT ![q] = "here"] /\ waited' = [waited EXCEPT ![q] = 0]
      /\ UNCHANGED <<pstatus, ghostbuster>>
  BY DEF OutfitResumed, ComeToScreen, shm
<1>3. Typed'
  BY <1>1, <1>2, AtStep DEF IInv, Typed
<1>4. client'[q] = "here" /\ waited'[q] = 0
  BY <1>2 DEF IInv, Typed
<1>5. Fits(q)'
  BY <1>1, <1>2, <1>3, <1>4, AtStep, Lengths DEF Fits, Clock, Status, Budget, Patience, More
<1> QED BY <1>1, <1>3, <1>5, AtStep, OneProcess

LEMMA StepLoop == \A q \in Procs : IInv /\ Loop(q) => IInv'
<1> SUFFICES ASSUME NEW q \in Procs, IInv, Loop(q) PROVE IInv'
  OBVIOUS
<1>1. Step(q, "play", "serve")
  BY DEF Loop
<1>2. UNCHANGED <<pstatus, ghostbuster, client, waited>>
  BY DEF Loop, shm
<1>3. Typed'
  BY <1>1, <1>2, AtStep DEF IInv, Typed
<1>4. Fits(q)'
  BY <1>1, <1>2, <1>3, AtStep, Lengths DEF Fits, Clock, Status, Budget, Patience, More
<1> QED BY <1>1, <1>3, <1>4, AtStep, OneProcess

LEMMA StepPlayLost == \A q \in Procs : IInv /\ PlayLost(q) => IInv'
<1> SUFFICES ASSUME NEW q \in Procs, IInv, PlayLost(q) PROVE IInv'
  OBVIOUS
<1>1. UNCHANGED <<pstatus, client, waited>>
  BY DEF PlayLost
<1>2. CASE client[q] = "bye"
  <2>1. Step(q, "play", "save") /\ ghostbuster' = ghostbuster
    BY <1>2 DEF PlayLost
  <2>2. Typed'
    BY <1>1, <2>1, AtStep DEF IInv, Typed
  <2> QED BY <2>1, <2>2, AtStep, OneProcess
<1>3. CASE client[q] # "bye"
  <2>1. Step(q, "play", "retry_play") /\ ghostbuster' = 0
    BY <1>3 DEF PlayLost
  <2>2. Typed'
    BY <1>1, <2>1, AtStep DEF IInv, Typed
  <2>3. Fits(q)'
    BY <1>1, <2>1, <2>2, AtStep, Lengths DEF Fits, Clock, Status, Budget, Patience, More
  <2> QED BY <2>1, <2>2, <2>3, AtStep, OneProcess
<1> QED BY <1>2, <1>3

LEMMA StepLeaveGame == \A q \in Procs : IInv /\ LeaveGame(q) => IInv'
<1> SUFFICES ASSUME NEW q \in Procs, IInv, LeaveGame(q) PROVE IInv'
  OBVIOUS
<1>1. Step(q, "play", IF pstatus = "PFREE" THEN "save" ELSE "outfit")
  BY DEF LeaveGame
<1>2. /\ pstatus \notin InGame /\ waited' = [waited EXCEPT ![q] = 0]
      /\ UNCHANGED <<pstatus, ghostbuster, client>>
  BY DEF LeaveGame, ComeToScreen, shm
<1>3. pstatus # "PFREE"
  BY <1>1 DEF Step, IInv, Fits, Status
<1>4. Step(q, "play", "outfit") /\ pstatus \in {"POUTFIT", "PTQUEUE"}
  BY <1>1, <1>2, <1>3 DEF IInv, Typed
<1>5. Typed'
  BY <1>2, <1>4, AtStep DEF IInv, Typed
<1>6. waited'[q] = 0
  BY <1>2 DEF IInv, Typed
<1>7. Fits(q)'
  BY <1>2, <1>4, <1>5, <1>6, AtStep, Lengths DEF Fits, Clock, Status, Budget, Patience, More
<1> QED BY <1>4, <1>5, <1>7, AtStep, OneProcess

LEMMA StepServe == \A q \in Procs : Timely /\ IInv /\ Serve(q) => IInv'
<1> SUFFICES ASSUME NEW q \in Procs, Timely, IInv, Serve(q) PROVE IInv'
  OBVIOUS
<1>1. Step(q, "serve", "play") /\ ghostbuster' = 0 /\ UNCHANGED <<client, waited>>
  BY DEF Serve, Timely
<1>2. pstatus # "PFREE" /\ pstatus \in {"POUTFIT", "PALIVE", "PEXPLODE", "PDEAD", "POBSERVE", "PTQUEUE"}
  BY <1>1, AtStep DEF Status, IInv, Typed
<1>3. pstatus' \in {"POUTFIT", "PALIVE", "PEXPLODE", "PDEAD", "POBSERVE", "PTQUEUE"}
  BY <1>2 DEF Serve, Interrupted
<1>4. Typed'
  BY <1>1, <1>3, AtStep DEF IInv, Typed
<1>5. Fits(q)'
  BY <1>1, <1>3, <1>4, AtStep, Lengths DEF Fits, Clock, Status, Budget, Patience, More
<1> QED BY <1>1, <1>4, <1>5, AtStep, OneProcess

LEMMA StepRetryPlay == \A q \in Procs : IInv /\ RetryPlay(q) => IInv'
<1> SUFFICES ASSUME NEW q \in Procs, IInv, RetryPlay(q) PROVE IInv'
  OBVIOUS
<1>1. Step(q, "retry_play", "retry_play")
  BY DEF RetryPlay
<1>2. ghostbuster' = 0 /\ UNCHANGED <<pstatus, client, waited>>
  BY DEF RetryPlay
<1>3. Typed'
  BY <1>1, <1>2, AtStep DEF IInv, Typed
<1>4. Fits(q)'
  BY <1>1, <1>2, <1>3, AtStep, Lengths DEF Fits, Clock, Status, Budget, Patience, More
<1> QED BY <1>1, <1>3, <1>4, AtStep, OneProcess

LEMMA StepPlayResumed == \A q \in Procs : IInv /\ PlayResumed(q) => IInv'
<1> SUFFICES ASSUME NEW q \in Procs, IInv, PlayResumed(q) PROVE IInv'
  OBVIOUS
<1>1. Step(q, "retry_play", "serve")
  BY DEF PlayResumed
<1>2. /\ client' = [client EXCEPT ![q] = "here"]
      /\ UNCHANGED <<pstatus, ghostbuster, waited>>
  BY DEF PlayResumed, shm
<1>3. Typed'
  BY <1>1, <1>2, AtStep DEF IInv, Typed
<1>4. Fits(q)'
  BY <1>1, <1>2, <1>3, AtStep, Lengths DEF Fits, Clock, Status, Budget, Patience, More
<1> QED BY <1>1, <1>3, <1>4, AtStep, OneProcess

(* A process that leaves, in any of its ways, leaves the slot to nobody. *)
LEMMA StepLeaving ==
  \A q \in Procs :
    IInv /\ (OutfitGivesUp(q) \/ PlayGivesUp(q) \/ ExitGame(q) \/ AtExit(q) \/ Crash(q)) => IInv'
<1> SUFFICES ASSUME NEW q \in Procs, IInv,
                    OutfitGivesUp(q) \/ PlayGivesUp(q) \/ ExitGame(q) \/ AtExit(q) \/ Crash(q)
             PROVE  IInv'
  OBVIOUS
<1>1. /\ pc[q] \in Holding \cup Exiting /\ UNCHANGED <<client, waited>>
      /\ pstatus' \in {pstatus, "PFREE"} /\ ghostbuster' \in {ghostbuster, Huge}
      /\ lag' = lag \/ lag' = [lag EXCEPT ![q] = 0]
  BY DEF OutfitGivesUp, PlayGivesUp, ExitGame, AtExit, Crash, Step, shm
<1>2. PICK m \in Exiting \cup {"gone"} : pc' = [pc EXCEPT ![q] = m]
  BY DEF OutfitGivesUp, PlayGivesUp, ExitGame, AtExit, Crash, Step
<1>3. Typed'
  BY <1>1, <1>2, Lengths DEF IInv, Typed
<1> QED BY <1>1, <1>2, <1>3, OneProcess

-----------------------------------------------------------------------------
(* The client, the other players, and the daemon *)

LEMMA StepDepart == \A q \in Procs : IInv /\ Depart(q) => IInv'
<1> SUFFICES ASSUME NEW q \in Procs, IInv, Depart(q) PROVE IInv'
  OBVIOUS
<1>1. /\ pc[q] \in {"login", "outfit", "pick", "play", "serve"} /\ client[q] = "here"
      /\ UNCHANGED <<pstatus, ghostbuster, pc, lag, waited>>
  BY DEF Depart, shm
<1>2. PICK c \in {"gone", "bye"} : client' = [client EXCEPT ![q] = c]
  BY DEF Depart
<1>3. Typed' /\ Alone'
  BY <1>1, <1>2 DEF IInv, Typed, Alone
<1>4. ASSUME NEW r \in Procs, r # q PROVE Fits(r)'
  <2>1. client'[r] = client[r] /\ Fits(r)
    BY <1>2, <1>4 DEF IInv, Typed
  <2> QED BY <1>1, <2>1 DEF Fits, Clock, Status, Budget, Patience, More
<1>5. Fits(q)'
  <2>1. client'[q] # "here" /\ lag[q] \in Nat /\ waited[q] \in Nat /\ ghostbuster \in Nat
    BY <1>2 DEF IInv, Typed
  <2>2. Clock(q) /\ Status(q) /\ Budget(q)
    BY <1>1 DEF IInv, Fits
  <2> QED BY <1>1, <2>1, <2>2, Lengths DEF Fits, Clock, Status, Budget, Patience, More
<1> QED BY <1>3, <1>4, <1>5 DEF IInv

(* A step that changes the status of a ship in the game, at most. *)
LEMMA StepInGame ==
  ASSUME IInv, UNCHANGED <<ghostbuster, pc, client, lag, waited>>,
         \/ pstatus' = pstatus
         \/ pstatus = "PALIVE" /\ pstatus' = "PEXPLODE"
         \/ pstatus = "POBSERVE" /\ pstatus' = "PTQUEUE"
  PROVE  IInv'
<1>1. Typed' /\ Alone'
  BY DEF IInv, Typed, Alone
<1>2. ASSUME NEW q \in Procs PROVE Fits(q)'
  BY DEF Fits, Clock, Status, Budget, Patience, More, IInv
<1> QED BY <1>1, <1>2 DEF IInv

(* Under every limit: no process that has the slot is late, so udplayers()   *)
(* does not bust it.                                                        *)
LEMMA NotBusted ==
  ASSUME Timely, IInv, NEW q \in Procs, pc[q] \in Holding, InTime(q)
  PROVE  /\ pstatus = "POUTFIT" => ghostbuster + 1 <= OutfitTime
         /\ pstatus \in {"POBSERVE", "PTQUEUE", "PALIVE"} => ghostbuster + 1 <= GhostTime
<1>1. /\ lag[q] \in Nat /\ waited[q] \in Nat /\ ghostbuster \in Nat
      /\ Clock(q) /\ Status(q) /\ Budget(q)
  BY DEF IInv, Typed, Fits
<1>2. /\ lag[q] + 1 <= Limit(pc[q])
      /\ pc[q] \in AtScreen /\ client[q] = "here" => waited[q] + 1 <= AutoQuit
  BY <1>1, Lengths DEF InTime
<1>3. Rest + 2 * Slack <= GhostTime /\ Arrival + AutoQuit + 2 * Slack <= OutfitTime
  BY DEF Timely
<1>4. CASE pc[q] = "login"
  BY <1>1, <1>2, <1>3, <1>4, Lengths DEF Status, Budget, Patience, More
<1>5. CASE pc[q] \in {"outfit", "pick"}
  BY <1>1, <1>2, <1>3, <1>5, Lengths DEF Status, Budget, Patience, More
<1>6. CASE pc[q] \in {"play", "serve"} \cup Retrying
  BY <1>1, <1>2, <1>3, <1>6, Lengths DEF Status, Budget
<1> QED BY <1>4, <1>5, <1>6

(* A tick adds no more to p_ghostbuster than to every budget. *)
LEMMA Ticks ==
  ASSUME Timely, IInv, Tick
  PROVE  /\ Typed' /\ Alone' /\ UNCHANGED <<pc, client>>
         /\ \A q \in Procs : pc[q] \in Holding =>
              /\ lag'[q] = lag[q] + 1
              /\ waited'[q] = IF pc[q] \in AtScreen /\ client[q] = "here" THEN waited[q] + 1 ELSE waited[q]
         /\ ghostbuster' \in Nat /\ ghostbuster' <= ghostbuster + 1
<1>1. /\ lag' = [q \in Procs |-> IF pc[q] \in Holding THEN lag[q] + 1 ELSE lag[q]]
      /\ waited' = [q \in Procs |->
           IF pc[q] \in AtScreen /\ client[q] = "here" THEN waited[q] + 1 ELSE waited[q]]
      /\ UNCHANGED <<pc, client>>
  BY DEF Tick
<1>2. lag' \in [Procs -> Nat] /\ waited' \in [Procs -> Nat]
  BY <1>1 DEF IInv, Typed
<1>3. ghostbuster \in Nat /\ Older \in Nat /\ Older <= ghostbuster + 1
  BY Lengths DEF IInv, Typed, Older
<1>4. ghostbuster' \in {0, ghostbuster, Older}
  BY DEF Tick, udplayers, Outfitting, Free, Watching, Flying, Exploding, Dead, Bust
<1>5. pstatus' \in {"PFREE", "POUTFIT", "PALIVE", "PEXPLODE", "PDEAD", "POBSERVE", "PTQUEUE"}
  BY DEF IInv, Typed, Tick, udplayers, Outfitting, Free, Watching, Flying, Exploding, Dead, Bust
<1>6. Typed' /\ Alone'
  BY <1>1, <1>2, <1>3, <1>4, <1>5 DEF IInv, Typed, Alone
<1> QED BY <1>1, <1>3, <1>4, <1>6

(* What the daemon does to a slot that a process has. *)
LEMMA Occupied ==
  ASSUME Timely, IInv, Tick, NEW q \in Procs, pc[q] \in Holding
  PROVE  /\ pstatus # "PFREE" /\ pstatus' # "PFREE"
         /\ pstatus' # pstatus =>
              /\ ghostbuster' = ghostbuster
              /\ \/ pstatus = "PEXPLODE" /\ pstatus' = "PDEAD"
                 \/ pstatus = "PDEAD" /\ pstatus' = "POUTFIT"
<1>1. InTime(q) /\ pstatus # "PFREE" /\ udplayers
  BY DEF Tick, IInv, Fits, Status
<1>2. Older \in Nat /\ Older <= ghostbuster + 1 /\ ghostbuster \in Nat
  BY Lengths DEF IInv, Typed, Older
<1>3. CASE Outfitting
  BY <1>1, <1>2, <1>3, NotBusted, Lengths DEF Outfitting, Bust
<1>4. CASE Watching
  BY <1>1, <1>2, <1>4, NotBusted, Lengths DEF Watching, Bust
<1>5. CASE Flying
  BY <1>1, <1>2, <1>5, NotBusted, Lengths DEF Flying, Bust
<1>6. CASE Exploding \/ Dead
  BY <1>1, <1>6 DEF Exploding, Dead
<1>7. CASE Free
  BY <1>1, <1>7 DEF Free
<1> QED BY <1>1, <1>3, <1>4, <1>5, <1>6, <1>7 DEF udplayers

LEMMA StepTick == Timely /\ IInv /\ Tick => IInv'
<1> SUFFICES ASSUME Timely, IInv, Tick PROVE IInv'
  OBVIOUS
<1>1. ASSUME NEW q \in Procs, pc[q] \in Holding PROVE Fits(q)'
  <2>1. /\ lag[q] \in Nat /\ waited[q] \in Nat /\ ghostbuster \in Nat
        /\ Clock(q) /\ Status(q) /\ Budget(q)
    BY <1>1 DEF IInv, Typed, Fits
  <2>2. /\ lag'[q] = lag[q] + 1 /\ pc' = pc /\ client' = client
        /\ waited'[q] = IF pc[q] \in AtScreen /\ client[q] = "here" THEN waited[q] + 1 ELSE waited[q]
        /\ ghostbuster' \in Nat /\ ghostbuster' <= ghostbuster + 1
    BY <1>1, Ticks
  <2>3. Clock(q)'
    BY <1>1, <2>1, <2>2, Lengths DEF Clock, Tick, InTime
  <2>4. /\ pstatus' # "PFREE"
        /\ pc[q] \in {"login", "outfit", "pick", "retry_outfit"} => pstatus' = pstatus
    BY <1>1, <2>1, Occupied DEF Status
  <2>5. Status(q)'
    BY <2>1, <2>2, <2>4 DEF Status
  <2>6. Budget(q)'
    BY <1>1, <2>1, <2>2, <2>4, Lengths DEF Budget, Patience, More
  <2> QED BY <2>3, <2>5, <2>6 DEF Fits
<1>2. ASSUME NEW q \in Procs, pc[q] \notin Holding PROVE Fits(q)'
  BY <1>2, Ticks DEF Fits
<1> QED BY <1>1, <1>2, Ticks DEF IInv

-----------------------------------------------------------------------------

(* Every step preserves the invariant. *)
LEMMA StepIInv == Timely /\ IInv /\ [Next]_vars => IInv'
<1> SUFFICES ASSUME Timely, IInv, [Next]_vars PROVE IInv'
  OBVIOUS
<1>1. ASSUME NEW q \in Procs, Run(q) PROVE IInv'
  BY <1>1, StepLogin, StepNoName, StepBusted, StepWait, StepPick, StepOutfitLost, StepRetryOutfit,
     StepOutfitResumed, StepLoop, StepLeaveGame, StepServe, StepPlayLost, StepRetryPlay,
     StepPlayResumed, StepLeaving DEF Run
<1>2. ASSUME NEW q \in Procs, Take(q) \/ Crash(q) \/ Depart(q) PROVE IInv'
  BY <1>2, StepTake, StepLeaving, StepDepart
<1>3. ASSUME NEW q \in Procs, StopObserving(q) PROVE IInv'
  BY <1>3, StepInGame DEF StopObserving
<1>4. CASE Fire \/ Killed \/ TorpsEnd
  BY <1>4, StepInGame DEF Fire, Killed, TorpsEnd
<1>5. CASE Tick BY <1>5, StepTick
<1>6. CASE UNCHANGED vars
  BY <1>6, StepInGame DEF vars, shm
<1> QED BY <1>1, <1>2, <1>3, <1>4, <1>5, <1>6 DEF Next

LEMMA IInvAlways == Timely /\ Spec => []IInv
<1>1. ASSUME Timely PROVE Spec => []IInv
  <2>1. IInv /\ [Next]_vars => IInv'
    BY <1>1, StepIInv
  <2> QED BY <2>1, InitIInv, PTL DEF Spec
<1> QED BY <1>1

(* A slot has one process, "fixing 2 players/1 slot bug here" (redraw.c, in   *)
(* intrupt()), for any number of processes and any timers that are Timely.  *)
THEOREM OneOwnerAlways == Timely /\ Spec => []OneOwner
<1>1. IInv => OneOwner
  <2> SUFFICES ASSUME IInv PROVE Cardinality(Holders) <= 1
    BY DEF OneOwner
  <2>1. CASE Holders = {}
    <3>1. Cardinality({}) = 0
      BY FS_EmptySet
    <3> QED BY <2>1, <3>1
  <2>2. CASE Holders # {}
    <3>1. PICK q \in Procs : Holders = {q}
      BY <2>2 DEF Holders, IInv, Alone
    <3>2. Cardinality({q}) = 1
      BY FS_Singleton
    <3> QED BY <3>1, <3>2
  <2> QED BY <2>1, <2>2
<1> QED BY <1>1, IInvAlways, PTL

(* The ghostbuster of udplayers() takes a slot, or the ship in it, only from *)
(* a process that is dead: a living one resets p_ghostbuster, or leaves,     *)
(* before the limit of the place it is at.                                  *)
THEOREM BustsOnlyTheDeadAlways == Timely /\ Spec => BustsOnlyTheDead
<1>1. ASSUME Timely, IInv, Tick, ghostbuster' > ghostbuster, pstatus' # pstatus PROVE Holders = {}
  <2>1. ASSUME NEW q \in Procs, pc[q] \in Holding PROVE FALSE
    <3>1. ghostbuster' = ghostbuster /\ ghostbuster \in Nat
      BY <1>1, <2>1, Occupied DEF IInv, Typed
    <3> QED BY <1>1, <3>1
  <2> QED BY <2>1 DEF Holders
<1>2. ASSUME Timely PROVE Spec => BustsOnlyTheDead
  <2>1. IInv => [Tick /\ ghostbuster' > ghostbuster /\ pstatus' # pstatus => Holders = {}]_vars
    BY <1>1, <1>2
  <2>2. Spec => []IInv
    BY <1>2, IInvAlways
  <2> QED BY <2>1, <2>2, PTL DEF BustsOnlyTheDead
<1> QED BY <1>2

=============================================================================
