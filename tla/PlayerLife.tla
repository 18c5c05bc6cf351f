----------------------------- MODULE PlayerLife -----------------------------
(***************************************************************************)
(* The life of a player in one slot, and the processes that come to it:    *)
(* main(), exitGame() and atexitfunc() of ntserv/main.c, getEntry() of     *)
(* ntserv/getentry.c, input() and reconnect() of ntserv/input.c, intrupt() *)
(* of ntserv/redraw.c and death() of ntserv/death.c on the side of the     *)
(* ntserv processes; udplayers() of daemon/player.c, with the ghostbuster, *)
(* on the side of the daemon.                                              *)
(*                                                                         *)
(* Both sides write p_status without a lock.  The daemon frees a slot whose *)
(* p_ghostbuster has run out, and has no other sign that its process is    *)
(* dead; a process resets p_ghostbuster as it runs, in the game, but not   *)
(* in the outfit screen.  Time is the daemon's ticks: a process runs at    *)
(* least every Slack ticks, or RetryTime while it sleeps and connects, and *)
(* a client quits AutoQuit ticks after it came to the login or the outfit  *)
(* screen.                                                                 *)
(*                                                                         *)
(* How a newcomer gets a free slot is in WaitQueue.                        *)
(***************************************************************************)
EXTENDS Naturals, FiniteSets

CONSTANTS
  Procs,        \* ntserv processes
  GhostTime,    \* GHOSTTIME
  OutfitTime,   \* OUTFITTIME
  DeadTime,     \* p_explode of a dead player
  ExplodeTime,  \* p_explode of a ship that explodes
  Tries,        \* attempts to reconnect
  Slack, RetryTime, AutoQuit,  \* see above
  Hasty,        \* may a newcomer come to a slot that the daemon has not seen free?
  SlowExit,     \* may other processes run in the middle of an exit?
  PingBust      \* ping_allow_ghostbust, and a client that does not answer

ASSUME PlayerLifeAssumption ==
  /\ IsFiniteSet(Procs)
  /\ {GhostTime, OutfitTime, DeadTime, ExplodeTime, Tries, Slack, RetryTime, AutoQuit}
       \subseteq Nat \ {0}
  /\ {Hasty, SlowExit, PingBust} \subseteq BOOLEAN

VARIABLES
  pstatus, ghostbuster, explode,  \* p_status, p_ghostbuster, p_explode
  torps,     \* p_ntorp > 0
  pc,        \* pc[q]: where process q is
  client,    \* client[q]: the connection of q's client
  tries,     \* tries[q]: attempts to reconnect so far
  lag,       \* lag[q]: ticks since q last ran
  waited     \* waited[q]: ticks that q's client has been in its screen

shm == <<pstatus, ghostbuster, explode, torps>>
vars == <<shm, pc, client, tries, lag, waited>>

Huge == GhostTime + OutfitTime + 1   \* 100000
Longest == Huge + 1
Timer == DeadTime + ExplodeTime

Holding == {"login", "outfit", "pick", "play", "serve", "retry_outfit", "retry_play"}
AtScreen == {"login", "outfit", "pick"}
Exiting == {"save", "leave"}
Holders == {q \in Procs : pc[q] \in Holding}

Init ==
  /\ pstatus = "PFREE" /\ ghostbuster = 0 /\ explode = 0 /\ torps = FALSE
  /\ pc = [q \in Procs |-> "queue"]
  /\ client = [q \in Procs |-> "here"]
  /\ tries = [q \in Procs |-> 0]
  /\ lag = [q \in Procs |-> 0]
  /\ waited = [q \in Procs |-> 0]

-----------------------------------------------------------------------------
(* ntserv *)

(* Unless SlowExit, a process that exits does so before any other runs. *)
Turn(q) == SlowExit \/ \A r \in Procs \ {q} : pc[r] \notin Exiting

(* q is at l, runs, and goes to m. *)
Step(q, l, m) ==
  /\ pc[q] = l /\ Turn(q)
  /\ pc' = [pc EXCEPT ![q] = m]
  /\ lag' = [lag EXCEPT ![q] = 0]

ComeToScreen(q) == waited' = [waited EXCEPT ![q] = 0]

(* findslot() takes the slot as it is: p_ghostbuster is the last owner's    *)
(* until the daemon has seen the slot free.                                *)
Take(q) ==
  /\ Step(q, "queue", "login")
  /\ pstatus = "PFREE" /\ (Hasty \/ ghostbuster = 0)
  /\ pstatus' = "POUTFIT"
  /\ ComeToScreen(q)
  /\ UNCHANGED <<ghostbuster, explode, torps, client, tries>>

(* getname() waits for a name, and exits when the client or the slot is     *)
(* gone; with a name, main() has the slot, whatever has become of it.       *)
Login(q) ==
  /\ client[q] = "here"
  /\ Step(q, "login", "outfit")
  /\ pstatus' = "POUTFIT"
  /\ ComeToScreen(q)
  /\ UNCHANGED <<ghostbuster, explode, torps, client, tries>>

NoName(q) ==
  /\ Step(q, "login", IF pstatus = "PFREE" \/ client[q] # "here" THEN "save" ELSE "login")
  /\ UNCHANGED <<shm, client, tries, waited>>

(* getEntry(), the head of its loop: "Have we been busted?" *)
Busted(q) ==
  /\ Step(q, "outfit", "pick")
  /\ IF pstatus = "PFREE" THEN pstatus' = "PDEAD" /\ explode' = DeadTime
     ELSE UNCHANGED <<pstatus, explode>>
  /\ UNCHANGED <<ghostbuster, torps, client, tries, waited>>

(* The player has not chosen, or not well. *)
Wait(q) ==
  /\ client[q] = "here"
  /\ Step(q, "pick", "outfit")
  /\ ghostbuster' = IF pstatus = "PTQUEUE" THEN 0 ELSE ghostbuster
  /\ UNCHANGED <<pstatus, explode, torps, client, tries, waited>>

(* enter(), and "Put player in game": p_status is not looked at again. *)
Pick(q) ==
  /\ client[q] = "here"
  /\ Step(q, "pick", "play")
  /\ pstatus' \in {"PALIVE", "POBSERVE"}
  /\ ghostbuster' = 0
  /\ torps' = FALSE
  /\ UNCHANGED <<explode, client, tries, waited>>

(* Mutant: only p_explode is seen to, and the ghostbuster comes. *)
KeepSlotNoGhost ==
  /\ pstatus' = IF pstatus = "PFREE" THEN "PDEAD" ELSE pstatus
  /\ explode' = IF pstatus \in {"PALIVE", "POBSERVE"} THEN explode ELSE DeadTime
  /\ UNCHANGED ghostbuster

(* The client is gone: the slot is kept while getEntry() sleeps, connects,  *)
(* and tries again.                                                        *)
KeepSlot ==
  /\ pstatus' = IF pstatus = "PFREE" THEN "PDEAD" ELSE pstatus
  /\ explode' = IF pstatus \in {"PALIVE", "POBSERVE"} THEN explode ELSE DeadTime
  /\ ghostbuster' = IF pstatus \in {"PFREE", "PDEAD"} THEN ghostbuster ELSE 0

OutfitLost(q) ==
  /\ client[q] # "here"
  /\ Step(q, "pick", IF client[q] = "bye" THEN "save" ELSE "retry_outfit")
  /\ IF client[q] = "bye" THEN UNCHANGED <<pstatus, explode, ghostbuster>> ELSE KeepSlot
  /\ tries' = [tries EXCEPT ![q] = 1]
  /\ UNCHANGED <<torps, client, waited>>

RetryOutfit(q) ==
  /\ tries[q] < Tries
  /\ Step(q, "retry_outfit", "retry_outfit")
  /\ KeepSlot
  /\ tries' = [tries EXCEPT ![q] = @ + 1]
  /\ UNCHANGED <<torps, client, waited>>

OutfitResumed(q) ==
  /\ Step(q, "retry_outfit", "outfit")
  /\ client' = [client EXCEPT ![q] = "here"]
  /\ ComeToScreen(q)
  /\ UNCHANGED <<shm, tries>>

OutfitGivesUp(q) ==
  /\ tries[q] = Tries
  /\ Step(q, "retry_outfit", "save")
  /\ ghostbuster' = IF pstatus \in {"PFREE", "PDEAD"} THEN ghostbuster ELSE Huge
  /\ explode' = IF pstatus \in {"PFREE", "PALIVE", "POBSERVE"} THEN explode ELSE 0
  /\ UNCHANGED <<pstatus, torps, client, tries, waited>>

(* input(), the head of its loop; main() sorts out where a player goes who *)
(* leaves it: to the outfit screen, or out of the program.                 *)
InGame == {"PALIVE", "PEXPLODE", "PDEAD", "POBSERVE"}

Loop(q) ==
  /\ pstatus \in InGame /\ client[q] = "here"
  /\ Step(q, "play", "serve")
  /\ UNCHANGED <<shm, client, tries, waited>>

(* reconnect(): the ghostbuster is kept away through each sleep and attempt. *)
PlayLost(q) ==
  /\ pstatus \in InGame /\ client[q] # "here"
  /\ Step(q, "play", IF client[q] = "bye" THEN "save" ELSE "retry_play")
  /\ ghostbuster' = IF client[q] = "bye" THEN ghostbuster ELSE 0
  /\ tries' = [tries EXCEPT ![q] = 1]
  /\ UNCHANGED <<pstatus, explode, torps, client, waited>>

LeaveGame(q) ==
  /\ pstatus \notin InGame
  /\ Step(q, "play", IF pstatus = "PFREE" THEN "save" ELSE "outfit")
  /\ ComeToScreen(q)
  /\ UNCHANGED <<shm, client, tries>>

(* intrupt(), when the daemon has signalled; death() waits for torpedoes.  *)
Interrupted ==
  LET s == IF pstatus = "PFREE" THEN "PDEAD" ELSE pstatus IN
  pstatus' = IF s \in {"PDEAD", "POUTFIT"} /\ ~torps THEN "POUTFIT" ELSE s

(* readFromClient(), intrupt(), and the ghostbuster is kept away, or called. *)
Serve(q) ==
  /\ Step(q, "serve", "play")
  /\ Interrupted \/ UNCHANGED pstatus
  /\ ghostbuster' = 0 \/ (PingBust /\ pstatus' \in {"PALIVE", "POBSERVE"} /\ ghostbuster' = Huge)
  /\ UNCHANGED <<explode, torps, client, tries, waited>>

(* Mutant: the ghostbuster is kept away at the first attempt only. *)
RetryPlayOnce(q) ==
  /\ tries[q] < Tries
  /\ Step(q, "retry_play", "retry_play")
  /\ tries' = [tries EXCEPT ![q] = @ + 1]
  /\ UNCHANGED <<shm, client, waited>>

RetryPlay(q) ==
  /\ tries[q] < Tries
  /\ Step(q, "retry_play", "retry_play")
  /\ ghostbuster' = 0
  /\ tries' = [tries EXCEPT ![q] = @ + 1]
  /\ UNCHANGED <<pstatus, explode, torps, client, waited>>

PlayResumed(q) ==
  /\ Step(q, "retry_play", "serve")
  /\ client' = [client EXCEPT ![q] = "here"]
  /\ UNCHANGED <<shm, tries, waited>>

(* exit(): atexitfunc() *)
PlayGivesUp(q) ==
  /\ tries[q] = Tries
  /\ Step(q, "retry_play", "leave")
  /\ UNCHANGED <<shm, client, tries, waited>>

(* exitGame() saves, frees the slot, and exits: it is freed once more.     *)
ExitGame(q) ==
  /\ Step(q, "save", "leave")
  /\ pstatus' = "PFREE"
  /\ UNCHANGED <<ghostbuster, explode, torps, client, tries, waited>>

AtExit(q) ==
  /\ Step(q, "leave", "gone")
  /\ pstatus' = "PFREE"
  /\ UNCHANGED <<ghostbuster, explode, torps, client, tries, waited>>

Crash(q) ==
  /\ pc[q] \in Holding
  /\ pc' = [pc EXCEPT ![q] = "gone"]
  /\ UNCHANGED <<shm, client, tries, lag, waited>>

-----------------------------------------------------------------------------
(* The client, and the other players *)

(* It goes away, with or without a CP_BYE. *)
Depart(q) ==
  /\ pc[q] \in AtScreen \cup {"play", "serve"} /\ client[q] = "here"
  /\ \E c \in {"gone", "bye"} : client' = [client EXCEPT ![q] = c]
  /\ UNCHANGED <<shm, pc, tries, lag, waited>>

(* handleQuitReq() of an observer. *)
StopObserving(q) ==
  /\ pc[q] = "serve" /\ Turn(q) /\ pstatus = "POBSERVE"
  /\ pstatus' = "PTQUEUE"
  /\ UNCHANGED <<ghostbuster, explode, torps, pc, client, tries, lag, waited>>

Fire == pstatus = "PALIVE" /\ ~torps /\ torps' = TRUE
        /\ UNCHANGED <<pstatus, ghostbuster, explode, pc, client, tries, lag, waited>>

Killed ==
  /\ pstatus = "PALIVE"
  /\ pstatus' = "PEXPLODE" /\ explode' = ExplodeTime
  /\ UNCHANGED <<ghostbuster, torps, pc, client, tries, lag, waited>>

-----------------------------------------------------------------------------
(* The daemon: udplayers() for this slot, and torpedoes that end *)

TorpsEnd ==
  /\ torps /\ torps' = FALSE
  /\ UNCHANGED <<pstatus, ghostbuster, explode, pc, client, tries, lag, waited>>

(* Counted up to Longest, far beyond every limit. *)
Older == IF ghostbuster = Longest THEN Longest ELSE ghostbuster + 1

Bust(limit, status) ==
  /\ ghostbuster' = Older
  /\ pstatus' = IF Older > limit THEN status ELSE pstatus

Outfitting == pstatus = "POUTFIT" /\ Bust(OutfitTime, "PFREE") /\ UNCHANGED explode
Free == pstatus = "PFREE" /\ ghostbuster' = 0 /\ UNCHANGED <<pstatus, explode>>
(* Mutant: the tournament queue is forgotten. *)
WatchingOnly ==
  \/ pstatus = "POBSERVE" /\ Bust(GhostTime, "PFREE") /\ UNCHANGED explode
  \/ pstatus = "PTQUEUE" /\ UNCHANGED <<pstatus, ghostbuster, explode>>
Watching == pstatus \in {"POBSERVE", "PTQUEUE"} /\ Bust(GhostTime, "PFREE") /\ UNCHANGED explode
Flying ==
  /\ pstatus = "PALIVE" /\ Bust(GhostTime, "PEXPLODE")
  /\ explode' = IF pstatus' = "PEXPLODE" THEN ExplodeTime ELSE explode

Earlier == IF explode = 0 THEN 0 ELSE explode - 1
Exploding ==
  /\ pstatus = "PEXPLODE"
  /\ pstatus' = IF Earlier = 0 THEN "PDEAD" ELSE pstatus
  /\ explode' = IF Earlier = 0 THEN DeadTime ELSE Earlier
  /\ UNCHANGED ghostbuster
Dead ==
  /\ pstatus = "PDEAD"
  /\ explode' = Earlier
  /\ pstatus' = IF Earlier = 0 THEN "POUTFIT" ELSE pstatus
  /\ UNCHANGED ghostbuster

udplayers == Outfitting \/ Free \/ Watching \/ Flying \/ Exploding \/ Dead

(* Nobody is later than he may be. *)
InTime(q) ==
  /\ pc[q] \in Holding =>
       lag[q] < IF pc[q] \in {"retry_outfit", "retry_play"} THEN RetryTime ELSE Slack
  /\ pc[q] \in AtScreen /\ client[q] = "here" => waited[q] < AutoQuit

Tick ==
  /\ \A q \in Procs : InTime(q) /\ (SlowExit \/ pc[q] \notin Exiting)
  /\ udplayers
  /\ lag' = [q \in Procs |-> IF pc[q] \in Holding THEN lag[q] + 1 ELSE lag[q]]
  /\ waited' = [q \in Procs |->
       IF pc[q] \in AtScreen /\ client[q] = "here" THEN waited[q] + 1 ELSE waited[q]]
  /\ UNCHANGED <<torps, pc, client, tries>>

Run(q) ==
  \/ Login(q) \/ NoName(q) \/ Busted(q) \/ Wait(q) \/ Pick(q)
  \/ OutfitLost(q) \/ RetryOutfit(q) \/ OutfitResumed(q) \/ OutfitGivesUp(q)
  \/ Loop(q) \/ LeaveGame(q) \/ Serve(q)
  \/ PlayLost(q) \/ RetryPlay(q) \/ PlayResumed(q) \/ PlayGivesUp(q)
  \/ ExitGame(q) \/ AtExit(q)

Next ==
  \/ \E q \in Procs : Take(q) \/ Run(q) \/ Crash(q) \/ Depart(q) \/ StopObserving(q)
  \/ Fire \/ Killed \/ TorpsEnd \/ Tick

Spec == Init /\ [][Next]_vars

(* The daemon ticks; a process runs; a client does not wait for ever: it    *)
(* picks, or quits at AutoQuit.                                             *)
FairSpec ==
  /\ Spec /\ WF_vars(Tick) /\ WF_vars(TorpsEnd)
  /\ \A q \in Procs : WF_vars(Run(q)) /\ WF_vars(waited[q] = AutoQuit /\ Depart(q))

-----------------------------------------------------------------------------
(* Every variable has its type. *)
TypeOK ==
  /\ pstatus \in {"PFREE", "POUTFIT", "PALIVE", "PEXPLODE", "PDEAD", "POBSERVE", "PTQUEUE"}
  /\ ghostbuster \in 0 .. Longest /\ explode \in 0 .. Timer /\ torps \in BOOLEAN
  /\ pc \in [Procs -> Holding \cup Exiting \cup {"queue", "gone"}]
  /\ client \in [Procs -> {"here", "gone", "bye"}]
  /\ tries \in [Procs -> 0 .. Tries]
  /\ lag \in [Procs -> Nat] /\ waited \in [Procs -> 0 .. AutoQuit]

(* "fixing 2 players/1 slot bug here" (redraw.c, in intrupt()): a slot has  *)
(* one process, when clients quit before OUTFITTIME and attempts to        *)
(* connect take less than GHOSTTIME.                                        *)
OneOwner == Cardinality(Holders) <= 1

(* The ghostbuster of udplayers() takes a slot, or the ship in it, only     *)
(* from a process that is dead.                                             *)
BustsOnlyTheDead ==
  [][ Tick /\ ghostbuster' > ghostbuster /\ pstatus' # pstatus => Holders = {} ]_vars

(* A slot whose process has died in any state is free again in the end; a   *)
(* player who is dead comes to the outfit screen, or leaves the program.   *)
DeadMakeWay ==
  /\ (Holders = {}) ~> (pstatus = "PFREE" \/ Holders # {})
  /\ \A q \in Procs :
       (pc[q] = "play" /\ pstatus \in {"PEXPLODE", "PDEAD"}) ~> (pc[q] \notin {"play", "serve"})

=============================================================================
