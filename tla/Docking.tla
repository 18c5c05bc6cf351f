------------------------------ MODULE Docking ------------------------------
(***************************************************************************)
(* Docking of ships at bases: undock_player(), base_undock(), dock_to() and*)
(* evaporate() of common/plutil.c, newdock() of common/orbit.c, and their  *)
(* callers in the ntserv processes (orbit, set_speed, set_course,          *)
(* declare_war, do_refit, handleDockingReq, enter, exitGame) and in the    *)
(* daemon (doshipexplode, dotractor, repair_docking_ring).                 *)
(*                                                                         *)
(* A mooring is recorded twice, in fields that mean one thing for a base   *)
(* and another for a ship: p_docked is the number of ships at a base, and  *)
(* the base that a ship is at; p_port[k] is the ship at port k of a base,  *)
(* and p_port[0] is the port that a ship is at.                            *)
(*                                                                         *)
(* Each handler is one step, except that another process may run between   *)
(* the search for a port in newdock() and the stores of dock_to() when     *)
(* Preempt.  Positions, speeds, teams and PFDOCKOK are left open: a base   *)
(* that is out of reach, or hostile, or gives no permission is one that the*)
(* ship does not aim for.                                                  *)
(***************************************************************************)
EXTENDS Integers, FiniteSets

CONSTANTS
  NumPlayers,   \* MAXPLAYER
  NumPorts,     \* s_numports of every base
  Preempt,      \* may another process run inside newdock()?
  NoAim         \* a ship that is not about to dock

Players == 0 .. NumPlayers - 1
Ports   == 0 .. NumPorts - 1
VACANT  == -1
PDAMAGE == -2

ASSUME DockingAssumption ==
  /\ NumPlayers \in Nat \ {0} /\ NumPorts \in Nat \ {0}
  /\ Preempt \in BOOLEAN
  /\ NoAim \notin Players \X Ports

VARIABLES
  pstatus,  \* p_status; POUTFIT stands for PFREE and PDEAD too
  base,     \* allows_docking(p_ship): a base has ports, a ship has none
  moor,     \* PFDOCK, p_docked and p_port of every player
  aim       \* where a ship that has run newdock() is going to dock

vars == <<pstatus, base, moor, aim>>

Moors == [flag   : [Players -> BOOLEAN],
          docked : [Players -> Int],
          port   : [Players -> [Ports -> {VACANT, PDAMAGE} \cup Players \cup Ports]]]

(* What the fields may hold, whatever has been left in them.               *)
TypeOK ==
  /\ pstatus \in [Players -> {"POUTFIT", "PALIVE", "PEXPLODE"}]
  /\ base \in [Players -> BOOLEAN]
  /\ moor \in Moors
  /\ aim \in [Players -> (Players \X Ports) \cup {NoAim}]
  /\ \A p \in Players : moor.flag[p] =>
       moor.docked[p] \in Players /\ moor.port[p][0] \in Ports

(* What the four functions of plutil.c do to the fields d of the players. *)
UndockKeepingPort(d, p) ==  \* mutant: the base goes on holding the port
  IF ~d.flag[p] THEN d
  ELSE [flag   |-> [d.flag EXCEPT ![p] = FALSE],
        docked |-> [d.docked EXCEPT ![d.docked[p]] = @ - 1, ![p] = -1],
        port   |-> [d.port EXCEPT ![p][0] = VACANT]]

undock_player(d, p) ==
  IF ~d.flag[p] THEN d
  ELSE LET b == d.docked[p]
       IN [flag   |-> [d.flag EXCEPT ![p] = FALSE],
           docked |-> [d.docked EXCEPT ![b] = @ - 1, ![p] = -1],
           port   |-> [d.port EXCEPT ![b][d.port[p][0]] = VACANT,
                                     ![p][0] = VACANT]]

(* The ports of K that are held, and the ships that hold them: p_port is    *)
(* trusted.                                                                *)
Held(d, b, K) == {k \in K : d.port[b][k] >= 0}
Gone(d, b, K) == {d.port[b][k] : k \in Held(d, b, K)}

VacatedPorts(d, b, K) ==
  [p \in Players |-> [k \in Ports |->
     IF (p = b /\ k \in Held(d, b, K)) \/ (p \in Gone(d, b, K) /\ k = 0)
       THEN VACANT ELSE d.port[p][k]]]

UndockUncounted(d, b, K) ==  \* mutant: p_docked is not decremented
  [flag   |-> [p \in Players |-> d.flag[p] /\ p \notin Gone(d, b, K)],
   docked |-> [p \in Players |-> IF p \in Gone(d, b, K) THEN -1 ELSE d.docked[p]],
   port   |-> VacatedPorts(d, b, K)]

(* base_undock(b, k) for every k of K. *)
base_undock(d, b, K) ==
  [flag   |-> [p \in Players |-> d.flag[p] /\ p \notin Gone(d, b, K)],
   docked |-> [p \in Players |->
                 IF p \in Gone(d, b, K) THEN -1
                 ELSE IF p = b THEN d.docked[b] - Cardinality(Held(d, b, K))
                 ELSE d.docked[p]],
   port   |-> VacatedPorts(d, b, K)]

DockFromOne(d0, p, b, k) ==  \* mutant: ships number the ports from one
  LET d == undock_player(d0, p)
  IN [flag   |-> [d.flag EXCEPT ![p] = TRUE],
      docked |-> [d.docked EXCEPT ![b] = @ + 1, ![p] = b],
      port   |-> [d.port EXCEPT ![b][k] = p, ![p][0] = k + 1]]

dock_to(d0, p, b, k) ==
  LET d == undock_player(d0, p)
  IN [flag   |-> [d.flag EXCEPT ![p] = TRUE],
      docked |-> [d.docked EXCEPT ![b] = @ + 1, ![p] = b],
      port   |-> [d.port EXCEPT ![b][k] = p, ![p][0] = k]]

SetDocked(d, p, n) ==
  [flag |-> d.flag, docked |-> [d.docked EXCEPT ![p] = n], port |-> d.port]

SetPort(d, b, k, v) ==
  [flag |-> d.flag, docked |-> d.docked, port |-> [d.port EXCEPT ![b][k] = v]]

(* get_ship_for_player(): the ports of a new base are vacant. *)
get_ship_for_player(d, p, isBase) ==
  IF isBase
    THEN [flag   |-> d.flag,
          docked |-> [d.docked EXCEPT ![p] = 0],
          port   |-> [d.port EXCEPT ![p] = [k \in Ports |-> VACANT]]]
    ELSE d

(* doshipexplode() and evaporate(): away from the base, ships away from me. *)
CastLoose(d0, p) ==
  LET d == undock_player(d0, p)
  IN IF base[p] THEN SetDocked(base_undock(d, p, Ports), p, 0) ELSE d

WholePorts(d, b) ==  \* mutant: does not look for ships
  {k \in Ports : d.port[b][k] # PDAMAGE}

(* newdock() takes the nearest of the vacant ports of b. *)
VacantPorts(d, b) == {k \in Ports : d.port[b][k] = VACANT}

Init ==
  /\ pstatus = [p \in Players |-> "POUTFIT"]
  /\ base = [p \in Players |-> FALSE]
  /\ moor = [flag   |-> [p \in Players |-> FALSE],
             docked |-> [p \in Players |-> 0],
             port   |-> [p \in Players |-> [k \in Ports |-> 0]]]
  /\ aim = [p \in Players |-> NoAim]

(* Other processes rest while a ship is between newdock() and dock_to(). *)
Quiet == Preempt \/ \A p \in Players : aim[p] = NoAim

(* intrupt() closes the input of a player who explodes before the explosion*)
(* is over, so that packets are handled in these two states only.          *)
Handles(p) == Quiet /\ pstatus[p] \in {"PALIVE", "PEXPLODE"} /\ aim[p] = NoAim

-----------------------------------------------------------------------------
(* Handlers of the ntserv process of p. *)

(* enter(), which forgets any mooring that the player still had. *)
Entered(d0, p, isBase) ==
  LET d == get_ship_for_player(d0, p, isBase)
  IN [flag   |-> [d.flag EXCEPT ![p] = FALSE],
      docked |-> [d.docked EXCEPT ![p] = 0],
      port   |-> d.port]

Enter(p, isBase) ==
  /\ Quiet /\ pstatus[p] = "POUTFIT"
  /\ pstatus' = [pstatus EXCEPT ![p] = "PALIVE"]
  /\ base' = [base EXCEPT ![p] = isBase]
  /\ moor' = Entered(moor, p, isBase)
  /\ UNCHANGED <<aim>>

(* enter() in a mass produced ship, which comes out of base b. *)
Launch(p, b) ==
  /\ Quiet /\ pstatus[p] = "POUTFIT" /\ b # p
  /\ base[b] /\ pstatus[b] = "PALIVE" /\ moor.docked[b] < NumPorts
  /\ pstatus' = [pstatus EXCEPT ![p] = "PALIVE"]
  /\ base' = [base EXCEPT ![p] = FALSE]
  /\ IF VacantPorts(moor, b) = {}
       THEN moor' = Entered(moor, p, FALSE)
       ELSE \E k \in VacantPorts(moor, b) : moor' = dock_to(Entered(moor, p, FALSE), p, b, k)
  /\ UNCHANGED <<aim>>

(* orbit(): lets go of the base, and searches another one for a port. *)
Orbit(p) ==
  /\ Handles(p) /\ ~base[p]
  /\ moor' = undock_player(moor, p)
  /\ \/ UNCHANGED aim
     \/ \E b \in Players \ {p} :
          /\ base[b] /\ pstatus[b] = "PALIVE"
          /\ \E k \in VacantPorts(moor', b) : aim' = [aim EXCEPT ![p] = <<b, k>>]
  /\ UNCHANGED <<pstatus, base>>

Dock(p) ==
  /\ aim[p] # NoAim
  /\ moor' = dock_to(moor, p, aim[p][1], aim[p][2])
  /\ aim' = [aim EXCEPT ![p] = NoAim]
  /\ UNCHANGED <<pstatus, base>>

(* set_speed, set_course, tractor and pressor requests, orbit off. *)
Undock(p) ==
  /\ Handles(p) /\ moor.flag[p]
  /\ moor' = undock_player(moor, p)
  /\ UNCHANGED <<pstatus, base, aim>>

(* declare_war(): ships on the wrong side leave. *)
DeclareWar(p) ==
  /\ Handles(p)
  /\ \/ moor.flag[p] /\ moor' = undock_player(moor, p)
     \/ /\ ~moor.flag[p] /\ base[p] /\ moor.docked[p] > 0
        /\ \E K \in SUBSET Ports : moor' = base_undock(moor, p, K)
  /\ UNCHANGED <<pstatus, base, aim>>

(* handleDockingReq(): docking permission on or off. *)
DockingReq(p) ==
  /\ Handles(p) /\ base[p]
  /\ moor' = SetDocked(base_undock(moor, p, Ports), p, 0)
  /\ UNCHANGED <<pstatus, base, aim>>

(* do_refit(), in orbit of a shipyard or at a base. *)
Refit(p, isBase) ==
  /\ Handles(p)
  /\ moor.flag[p] => ~isBase
  /\ moor' = get_ship_for_player(IF base[p] THEN base_undock(moor, p, Ports) ELSE moor,
                                 p, isBase)
  /\ base' = [base EXCEPT ![p] = isBase]
  /\ UNCHANGED <<pstatus, aim>>

(* evaporate(), for a player who turns observer or waits for a tournament. *)
Evaporate(p) ==
  /\ Handles(p)
  /\ moor' = CastLoose(moor, p)
  /\ pstatus' = [pstatus EXCEPT ![p] = "POUTFIT"]
  /\ UNCHANGED <<base, aim>>

(* exitGame() and atexitfunc() free the slot, whatever is moored.          *)
ExitInGame(p) ==
  /\ Quiet /\ pstatus[p] \in {"PALIVE", "PEXPLODE"} /\ aim[p] = NoAim
  /\ pstatus' = [pstatus EXCEPT ![p] = "POUTFIT"]
  /\ UNCHANGED <<base, moor, aim>>

-----------------------------------------------------------------------------
(* The daemon. *)

(* endgame_effects(), at the end of a league match: everybody is put on the*)
(* outfit screen at once, and enter() forgets the moorings one by one.     *)
EndGame ==
  /\ Quiet
  /\ \E p \in Players : pstatus[p] \in {"PALIVE", "PEXPLODE"}
  /\ pstatus' = [p \in Players |-> "POUTFIT"]
  /\ UNCHANGED <<base, moor, aim>>

Kill(p) ==
  /\ Quiet /\ pstatus[p] = "PALIVE"
  /\ pstatus' = [pstatus EXCEPT ![p] = "PEXPLODE"]
  /\ UNCHANGED <<base, moor, aim>>

(* doshipexplode(), once per tick until p_explode runs out. *)
DoShipExplode(p) ==
  /\ Quiet /\ pstatus[p] = "PEXPLODE" /\ aim[p] = NoAim
  /\ moor' = CastLoose(moor, p)
  /\ \/ pstatus' = [pstatus EXCEPT ![p] = "POUTFIT"]
     \/ UNCHANGED pstatus
  /\ UNCHANGED <<base, aim>>

(* dotractor(): a ship torn off its base leaves a damaged port. *)
Tractor(p) ==
  /\ Quiet /\ pstatus[p] = "PALIVE" /\ moor.flag[p]
  /\ LET d == undock_player(moor, p)
         b == moor.docked[p]
     IN moor' = SetPort(d, b, moor.port[p][0], PDAMAGE)
  /\ UNCHANGED <<pstatus, base, aim>>

(* repair_docking_ring() *)
Repair(b) ==
  /\ Quiet /\ pstatus[b] = "PALIVE" /\ base[b]
  /\ \E k \in Ports : /\ moor.port[b][k] = PDAMAGE
                      /\ moor' = SetPort(moor, b, k, VACANT)
  /\ UNCHANGED <<pstatus, base, aim>>

Next ==
  \/ EndGame
  \/ \E p \in Players :
       \/ Orbit(p) \/ Dock(p) \/ Undock(p) \/ DeclareWar(p) \/ DockingReq(p)
       \/ Evaporate(p) \/ Kill(p) \/ DoShipExplode(p) \/ Tractor(p) \/ Repair(p)
       \/ \E isBase \in BOOLEAN : Enter(p, isBase) \/ Refit(p, isBase)
       \/ \E b \in Players : Launch(p, b)

Spec == Init /\ [][Next]_vars

(* What the bookkeeping is not prepared for. *)
ExitSpec == Init /\ [][Next \/ \E p \in Players : ExitInGame(p)]_vars

-----------------------------------------------------------------------------
InGame == {p \in Players : pstatus[p] \in {"PALIVE", "PEXPLODE"}}

(* "If SB, pno of ship docked to that port, else p_port[0] = port # docked *)
(* to on host": ships in the game are moored at bases in the game, and the  *)
(* two records of a mooring agree from either end: a base that dies,       *)
(* evaporates, refits or turns to the outfit screen takes no ship along.   *)
MooredAt(p, b, k) == moor.flag[p] /\ moor.docked[p] = b /\ moor.port[p][0] = k
RecordsAgree ==
  /\ \A p \in InGame : moor.flag[p] =>
       \E b \in InGame, k \in Ports :
          MooredAt(p, b, k) /\ base[b] /\ ~base[p] /\ moor.port[b][k] = p
  /\ \A b \in InGame, k \in Ports :
       base[b] /\ moor.port[b][k] >= 0 =>
         moor.port[b][k] \in InGame /\ MooredAt(moor.port[b][k], b, k)

(* "If SB, # docked to": a base counts the ships at its ports.  Permission *)
(* to disengage and declare_war() go by that number.                       *)
BerthsCounted ==
  \A b \in InGame : base[b] =>
    moor.docked[b] = Cardinality({p \in InGame : moor.flag[p] /\ moor.docked[p] = b})

(* Docking implements the moorings. *)
Berth == [p \in Players |-> IF p \in InGame /\ moor.flag[p]
                              THEN <<moor.docked[p], moor.port[p][0]>> ELSE NoAim]
Moored == INSTANCE Moorings WITH Ships <- Players, Berths <- Players \X Ports,
                                 Adrift <- NoAim, berth <- Berth
(* One ship to a port, although ships and bases refit, die and come back.  *)
OneToAPort == Moored!Spec

=============================================================================
