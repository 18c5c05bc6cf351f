------------------------------ MODULE Conquest ------------------------------
(***************************************************************************)
(* The planets, their armies, and how a game is won: beaming of            *)
(* daemon/player.c, bombing, growth and revolt of daemon/planets.c, and    *)
(* the end of the game, checkwin() and udsurrend() of daemon/conquer.c.    *)
(*                                                                         *)
(* The daemon alone writes planets and teams.  It does one thing at a      *)
(* time; the processes of the players come and go meanwhile, also between  *)
(* two teams of udsurrend().  A team is in the game with its ships, a ship *)
(* may be at any planet, at war with anybody and full of armies; the tests *)
(* of beam_up(), beam_down() and bomb_planet() of common/interface.c are   *)
(* made when a player asks and may be stale when the daemon acts, so that  *)
(* they are left out.  A league match, which has no surrender, is left to  *)
(* module League.                                                          *)
(***************************************************************************)
EXTENDS Integers, FiniteSets, FiniteSetsExt

CONSTANTS
  Planets,
  NumTeams,        \* FED, ROM, KLI, ORI: at most four
  TournPlayers,    \* ships of a team that is in the tournament
  SurrStart, SurrEnd, SurrLength,
  VictoryPlanets,  \* with so many planets a team is beaten
  StartRev,        \* checks of a planet from unrest to revolution
  Few,             \* 4: armies that cannot be bombed
  MaxShips,        \* bound: ships of a team
  MaxArmies,       \* bound: armies of a planet
  MaxTotal,        \* bound: armies of all planets
  MaxUnrest        \* bound: planets with civil unrest

Teams == 1 .. NumTeams
Nobody == 0

ASSUME ConquestAssumption ==
  /\ IsFiniteSet(Planets)
  /\ NumTeams \in 2 .. 4 /\ Few \in Nat /\ Few >= 2
  /\ {SurrStart, SurrEnd, VictoryPlanets, MaxShips, MaxTotal, MaxUnrest} \subseteq Nat
  /\ {TournPlayers, SurrLength, StartRev, MaxArmies} \subseteq Nat \ {0}

VARIABLES
  owner, armies,   \* of each planet
  trevolt,         \* of each planet: checks to the revolution, 0: at peace
  plcount,         \* of each team: its planets when they were last counted
  surrender,       \* of each team: minutes to its collapse, 0: no danger
  ships,           \* of each team
  tourn,           \* whether this is the tournament
  gameup,
  turn             \* the team udsurrend() comes to next, 0: it is not at work

conquestVars == <<owner, armies, trevolt, plcount, surrender, ships, tourn, gameup, turn>>
planets == <<owner, armies, trevolt>>
teams == <<plcount, surrender>>

PlanetsOf(t, own) == {p \in Planets : own[p] = t}
Total == MapThenSumSet(LAMBDA p : armies[p], Planets)
Room(n) == Total + n <= MaxTotal

(* A new galaxy, whose planets nobody has counted yet. *)
ConquestInit ==
  /\ owner \in [Planets -> Teams \cup {Nobody}]
  /\ armies \in [Planets -> 0 .. MaxArmies] /\ Total <= MaxTotal
  /\ \A p \in Planets : owner[p] # Nobody => armies[p] > 0
  /\ \A t \in Teams : Cardinality(PlanetsOf(t, owner)) > VictoryPlanets
  /\ trevolt = [p \in Planets |-> 0]
  /\ plcount = [t \in Teams |-> 0]
  /\ surrender = [t \in Teams |-> 0]
  /\ ships = [t \in Teams |-> 0]
  /\ tourn = FALSE /\ gameup = TRUE /\ turn = 0

-----------------------------------------------------------------------------
(* The end of the game *)

Counts(own) == [t \in Teams |-> Cardinality(PlanetsOf(t, own))]

(* The two teams with the most ships, the first named of equals. *)
Larger(t, u) == ships[t] > ships[u] \/ (ships[t] = ships[u] /\ t < u)
Rivals == {t \in Teams : ~\E u, v \in Teams : u # v /\ Larger(u, t) /\ Larger(v, t)}

(* Team t with n planets each. *)
Sustained(t, n) == n[t] >= SurrEnd \/ \E o \in Rivals \ {t} : 2 * n[t] > n[o]
Endangered(t, n) ==
  /\ n[t] <= SurrStart /\ ships[t] >= TournPlayers
  /\ \A o \in Rivals \ {t} : 2 * n[t] <= n[o]
  /\ n[t] < plcount[t]

checksurrender(t, n, clock) ==
  IF clock > 0 /\ Sustained(t, n) THEN 0
  ELSE IF clock = 0 /\ Endangered(t, n) THEN SurrLength ELSE clock

genocide(n) == \E t \in Rivals : n[t] <= VictoryPlanets

(* Planets have the owners own from now on and clocks stand at sur; the     *)
(* daemon saves the planets and exits when a rival is beaten.              *)
checkwin(own, sur) ==
  LET n == Counts(own) IN
  /\ owner' = own /\ plcount' = n
  /\ surrender' = [t \in Teams |-> IF t \notin Rivals THEN sur[t]
                                   ELSE IF genocide(n) THEN 0
                                   ELSE checksurrender(t, n, sur[t])]
  /\ gameup' = ~genocide(n)

Daemon == gameup /\ turn = 0

Abandoned(p) ==
  /\ owner' = [owner EXCEPT ![p] = Nobody]
  /\ UNCHANGED <<teams, gameup>>

(* A planet nobody owns any more. *)
Lost(p) == checkwin([owner EXCEPT ![p] = Nobody], surrender)

-----------------------------------------------------------------------------
(* Armies *)

HasArmies(p, n) == armies' = [armies EXCEPT ![p] = n]

BeamUpKeeping(p) ==
  /\ Daemon /\ owner[p] # Nobody /\ ships[owner[p]] > 0 /\ armies[p] > 0
  /\ HasArmies(p, armies[p] - 1)
  /\ UNCHANGED <<owner, trevolt, teams, gameup, ships, tourn, turn>>

(* The revolt timer stays as it is. *)
BeamUp(p) ==
  /\ Daemon /\ owner[p] # Nobody /\ ships[owner[p]] > 0 /\ armies[p] > 0
  /\ HasArmies(p, armies[p] - 1)
  /\ IF armies[p] = 1 THEN Lost(p) ELSE UNCHANGED <<owner, teams, gameup>>
  /\ UNCHANGED <<trevolt, ships, tourn, turn>>

Reinforce(p) ==
  /\ Daemon /\ owner[p] # Nobody /\ ships[owner[p]] > 0
  /\ armies[p] < MaxArmies /\ Room(1)
  /\ HasArmies(p, armies[p] + 1)
  /\ UNCHANGED <<owner, trevolt, teams, gameup, ships, tourn, turn>>

(* A ship of t beams an army down to a planet that is not its own. *)
Lands(t, p) == Daemon /\ ships[t] > 0 /\ owner[p] # t

Assault(t, p) ==
  /\ Lands(t, p) /\ armies[p] > 1
  /\ HasArmies(p, armies[p] - 1)
  /\ UNCHANGED <<owner, trevolt, teams, gameup, ships, tourn, turn>>

Destroy(t, p) ==
  /\ Lands(t, p) /\ armies[p] = 1
  /\ HasArmies(p, 0) /\ trevolt' = [trevolt EXCEPT ![p] = 0]
  /\ Lost(p)
  /\ UNCHANGED <<ships, tourn, turn>>

Take(t, p) ==
  /\ Lands(t, p) /\ armies[p] = 0 /\ Room(1)
  /\ HasArmies(p, 1)
  /\ checkwin([owner EXCEPT ![p] = t], surrender)
  /\ UNCHANGED <<trevolt, ships, tourn, turn>>

BombOut(p) ==
  /\ Daemon /\ armies[p] > Few /\ \E t \in Teams \ {owner[p]} : ships[t] > 0
  /\ \E k \in 1 .. MaxArmies + 1 : HasArmies(p, armies[p] - k)
  /\ UNCHANGED <<owner, trevolt, teams, gameup, ships, tourn, turn>>

Bomb(p) ==
  /\ Daemon /\ armies[p] > Few /\ \E t \in Teams \ {owner[p]} : ships[t] > 0
  /\ \E n \in 1 .. armies[p] - 1 : HasArmies(p, n)
  /\ UNCHANGED <<owner, trevolt, teams, gameup, ships, tourn, turn>>

(* The armies of a player who was ghostbusted go to a planet of his. *)
ghostmess(p, n) ==
  /\ Daemon /\ owner[p] # Nobody
  /\ armies[p] + n <= MaxArmies /\ Room(n)
  /\ HasArmies(p, armies[p] + n)
  /\ UNCHANGED <<owner, trevolt, teams, gameup, ships, tourn, turn>>

(* The daemon's list of planets may be old: any planet may be its next.    *)
(* Either scheme of growth kills armies only where there are Few, and some *)
(* survive.                                                                *)
Grow(p) ==
  /\ Daemon /\ tourn
  /\ \E n \in 0 .. MaxArmies :
       /\ n >= armies[p] \/ (n > 0 /\ armies[p] >= Few)
       /\ n > armies[p] => Room(n - armies[p])
       /\ HasArmies(p, n)
       /\ IF n = 0 THEN Lost(p) ELSE UNCHANGED <<owner, teams, gameup>>
  /\ UNCHANGED <<trevolt, ships, tourn, turn>>

-----------------------------------------------------------------------------
(* Revolts.  A ship in orbit delays them: the step is not taken. *)

MayRevolt(p) == Daemon /\ tourn /\ owner[p] # Nobody /\ armies[p] > 0

Unrest(p) ==
  /\ MayRevolt(p) /\ trevolt[p] = 0 /\ armies[p] <= 2
  /\ Cardinality({q \in Planets : trevolt[q] > 0}) < MaxUnrest
  /\ trevolt' = [trevolt EXCEPT ![p] = StartRev]
  /\ UNCHANGED <<owner, armies, teams, gameup, ships, tourn, turn>>

Revolt(p) ==
  /\ MayRevolt(p) /\ trevolt[p] > 0
  /\ \/ /\ trevolt[p] > 1 \/ armies[p] > 2
        /\ trevolt' = [trevolt EXCEPT ![p] = trevolt[p] - 1]
        /\ UNCHANGED <<owner, armies, teams, gameup>>
     \/ /\ trevolt[p] = 1 /\ armies[p] = 2
        /\ trevolt' = [trevolt EXCEPT ![p] = StartRev] /\ HasArmies(p, 1)
        /\ UNCHANGED <<owner, teams, gameup>>
     \/ /\ trevolt[p] = 1 /\ armies[p] < 2
        /\ trevolt' = [trevolt EXCEPT ![p] = 0]
        /\ Lost(p) /\ UNCHANGED armies
  /\ UNCHANGED <<ships, tourn, turn>>

-----------------------------------------------------------------------------
(* Surrender: every minute of the tournament, team by team *)

Minute ==
  /\ Daemon /\ tourn
  /\ turn' = 1
  /\ UNCHANGED <<planets, teams, ships, tourn, gameup>>

NextTurn == turn' = IF turn = NumTeams THEN 0 ELSE turn + 1

SuspendedSoon(t) ==
  surrender[t] = 0 \/ ships[t] < TournPlayers \/ plcount[t] >= SurrStart

Suspended(t) ==
  surrender[t] = 0 \/ ships[t] < TournPlayers \/ plcount[t] > SurrStart

(* The clock of a team whose planets are gone stays at -1. *)
udsurrend ==
  /\ gameup /\ turn # 0 /\ NextTurn
  /\ \/ /\ Suspended(turn)
        /\ UNCHANGED <<planets, teams, gameup>>
     \/ /\ ~Suspended(turn) /\ surrender[turn] > 1
        /\ surrender' = [surrender EXCEPT ![turn] = surrender[turn] - 1]
        /\ UNCHANGED <<planets, plcount, gameup>>
     \/ /\ ~Suspended(turn) /\ surrender[turn] <= 1
        /\ armies' = [p \in Planets |-> IF owner[p] = turn THEN 0 ELSE armies[p]]
        /\ checkwin([p \in Planets |-> IF owner[p] = turn THEN Nobody ELSE owner[p]],
                    [surrender EXCEPT ![turn] = -1])
        /\ UNCHANGED trevolt
  /\ UNCHANGED <<ships, tourn>>

-----------------------------------------------------------------------------
(* Players *)

Join(t) ==
  /\ gameup /\ ships[t] < MaxShips
  /\ ships' = [ships EXCEPT ![t] = ships[t] + 1]
  /\ UNCHANGED <<planets, teams, tourn, gameup, turn>>

Leave(t) ==
  /\ gameup /\ ships[t] > 0
  /\ ships' = [ships EXCEPT ![t] = ships[t] - 1]
  /\ UNCHANGED <<planets, teams, tourn, gameup, turn>>

(* Two teams are large enough; robots and observers, which do not count    *)
(* for the tournament, and unequal teams may prevent it all the same.      *)
tournamentMode ==
  /\ Daemon
  /\ \/ tourn' = FALSE
     \/ /\ Cardinality({t \in Teams : ships[t] >= TournPlayers}) > 1
        /\ tourn' = TRUE
  /\ UNCHANGED <<planets, teams, ships, gameup, turn>>

-----------------------------------------------------------------------------
ConquestNext ==
  \/ \E p \in Planets : \/ BeamUp(p) \/ Reinforce(p) \/ Bomb(p) \/ Grow(p)
                        \/ Unrest(p) \/ Revolt(p)
                        \/ \E n \in 1 .. MaxArmies : ghostmess(p, n)
                        \/ \E t \in Teams : Assault(t, p) \/ Destroy(t, p) \/ Take(t, p)
  \/ \E t \in Teams : Join(t) \/ Leave(t)
  \/ Minute \/ udsurrend \/ tournamentMode

ConquestSpec == ConquestInit /\ [][ConquestNext]_conquestVars

(* The daemon comes to udsurrend() every minute, and through it. *)
FairConquestSpec == ConquestSpec /\ WF_conquestVars(Minute) /\ WF_conquestVars(udsurrend)

-----------------------------------------------------------------------------
(* Properties *)

(* The types of planets and teams. *)
ConquestTypeOK ==
  /\ owner \in [Planets -> Teams \cup {Nobody}]
  /\ armies \in [Planets -> 0 .. MaxArmies]
  /\ trevolt \in [Planets -> 0 .. StartRev]
  /\ plcount \in [Teams -> 0 .. Cardinality(Planets)]
  /\ surrender \in [Teams -> -1 .. SurrLength]
  /\ ships \in [Teams -> 0 .. MaxShips]
  /\ tourn \in BOOLEAN /\ gameup \in BOOLEAN
  /\ turn \in 0 .. NumTeams

(* A planet that a team owns has an army: whichever of beaming, bombs,      *)
(* growth, revolt and surrender takes the last one, it takes the owner too. *)
Garrisoned == \A p \in Planets : owner[p] # Nobody => armies[p] > 0

(* With two teams, while the game is up neither is beaten: every way to    *)
(* lose a planet goes through checkwin().  A team has surrendered only      *)
(* when the game is over, and its clock runs only while it has too few      *)
(* planets, also half of the enemy's.                                      *)
Undecided ==
  NumTeams = 2 /\ gameup =>
    \A t \in Teams :
      LET mine == Cardinality(PlanetsOf(t, owner))
          theirs == Cardinality(PlanetsOf(3 - t, owner))
      IN /\ mine > VictoryPlanets
         /\ surrender[t] # -1
         /\ surrender[t] > 0 => mine < SurrEnd /\ 2 * mine <= theirs

(* A team whose clock runs, and that stays in the tournament without the    *)
(* planets that suspend the clock, collapses.                              *)
Collapse ==
  \A t \in Teams :
    ~<>[](gameup /\ tourn /\ surrender[t] > 0 /\ plcount[t] <= SurrStart
          /\ ships[t] >= TournPlayers)

(* A team surrenders once, see udsurrend(), "set it so it isnt 0 (otherwise *)
(* it announces surrender again)": planets with two armies, which only a   *)
(* surrender takes at once, stay with a team that has surrendered.         *)
SurrendersOnce ==
  [][\A t \in Teams, p \in Planets :
       surrender[t] = -1 /\ owner[p] = t /\ armies[p] > 1 => owner'[p] # Nobody]_conquestVars

(* Unrest ends with the rule it was directed at, as in beamdown(), "stop   *)
(* revolution".                                                            *)
PeaceForTheNext ==
  [][\A p \in Planets : owner'[p] # owner[p] => trevolt'[p] = 0]_conquestVars
=============================================================================
