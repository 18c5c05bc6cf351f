------------------------------- MODULE Torps -------------------------------
(***************************************************************************)
(* Photon torpedoes and p_ntorp, the counter that limits them: ntorp() of  *)
(* common/torp.c, detothers() of common/detonate.c, handleDetMReq() of     *)
(* ntserv/socket.c, intrupt() of ntserv/redraw.c and enter() on the side of*)
(* the ntserv processes; udtorps(), fighters and explosions on the side of *)
(* the daemon.                                                             *)
(*                                                                         *)
(* Every player has a block of MaxTorp tubes in the array of torpedoes.    *)
(* ntserv counts a torpedo when it fires it, and the daemon counts it off  *)
(* when it ends; the counter guards firing, and a dead player's way to the *)
(* outfit screen.  Both sides write the counter and the status of a        *)
(* torpedo without a lock: Preempt lets another process run between the    *)
(* load and the store of a count, and between the test of a status and the *)
(* store that follows from it.                                             *)
(*                                                                         *)
(* A process may leave at any time, and its torpedoes fly on: the next     *)
(* owner of the slot enters with none counted.  Quick lets him do so while *)
(* they fly; otherwise the login and the choice of a team and a ship take  *)
(* him longer than the few seconds that a torpedo lives.                   *)
(*                                                                         *)
(* Positions, fuses and teams are left open: any torpedo may hit, run out  *)
(* or be near an enemy.  TSTRAIGHT is TMOVE here.                          *)
(***************************************************************************)
EXTENDS Integers, FiniteSets

CONSTANTS
  NumPlayers,   \* MAXPLAYER
  MaxTorp,      \* MAXTORP
  Preempt,      \* may processes interleave inside an update?
  Quick,        \* may a newcomer enter before his predecessor's torpedoes end?
  MaxFighters,  \* bound: fighters of a carrier, NPTHINGIES at most
  Nothing       \* no update under way

Players == 0 .. NumPlayers - 1
Tubes   == 0 .. NumPlayers * MaxTorp - 1
Beyond  == NumPlayers * MaxTorp             \* what follows the array
Block(p) == p * MaxTorp .. p * MaxTorp + MaxTorp - 1

ASSUME TorpsAssumption ==
  /\ NumPlayers \in Nat \ {0} /\ MaxTorp \in Nat \ {0}
  /\ MaxFighters \in Nat /\ {Preempt, Quick} \subseteq BOOLEAN
  /\ Nothing \notin Nat \cup (Tubes \X {"TDET", "TOFF"}) \cup (Players \X Nat)

VARIABLES
  pstatus,   \* p_status
  newcomers, \* the players whose process has not entered the game yet
  ntorp,     \* p_ntorp
  torp,      \* t_status and t_owner of every torpedo
  fire,      \* fire[p]: what ntorp() has loaded from p_ntorp
  mark,      \* mark[p]: a torpedo that p has seen moving, and what it will be
  off,       \* the owner of a torpedo that ended, and the p_ntorp loaded
  nthingys,  \* p_nthingys of a carrier: its fighters
  armed      \* the fighters that have not fired

updates == <<fire, mark, off>>
carrier == <<nthingys, armed>>
vars == <<pstatus, newcomers, ntorp, torp, updates, carrier>>

TypeOK ==
  /\ pstatus \in [Players -> {"PFREE", "POUTFIT", "PALIVE", "PEXPLODE", "PDEAD"}]
  /\ newcomers \subseteq Players
  /\ ntorp \in [Players -> 0 .. MaxTorp]
  /\ torp \in [Tubes \cup {Beyond} ->
                 [status : {"TFREE", "TMOVE", "TDET", "TOFF", "TEXPLODE"},
                  owner : Players]]
  /\ fire \in [Players -> (0 .. MaxTorp - 1) \cup {Nothing}]
  /\ mark \in [Players -> (Tubes \X {"TDET", "TOFF"}) \cup {Nothing}]
  /\ off \in (Players \X (1 .. MaxTorp)) \cup {Nothing}
  /\ nthingys \in [Players -> 0 .. MaxFighters]
  /\ armed \in [Players -> 0 .. MaxFighters]

Init ==
  /\ pstatus = [p \in Players |-> "PFREE"]
  /\ newcomers = {}
  /\ ntorp = [p \in Players |-> 0]
  /\ torp = [t \in Tubes \cup {Beyond} |-> [status |-> "TFREE", owner |-> 0]]
  /\ fire = [p \in Players |-> Nothing]
  /\ mark = [p \in Players |-> Nothing]
  /\ off = Nothing
  /\ nthingys = [p \in Players |-> 0]
  /\ armed = [p \in Players |-> 0]

(* p's process is between two updates, and nobody else is inside one. *)
Settled == off = Nothing /\ \A p \in Players : fire[p] = Nothing /\ mark[p] = Nothing
Ntserv(p) == fire[p] = Nothing /\ mark[p] = Nothing /\ (Preempt \/ Settled)
Daemon == off = Nothing /\ (Preempt \/ Settled)

(* intrupt() closes the input of a ship that explodes, a little later. *)
Handles(p) == Ntserv(p) /\ pstatus[p] \in {"PALIVE", "PEXPLODE"}

-----------------------------------------------------------------------------
(* ntserv *)

Becomes(p, from, to) ==
  /\ Ntserv(p) /\ pstatus[p] \in from
  /\ pstatus' = [pstatus EXCEPT ![p] = to]
  /\ UNCHANGED <<torp, updates, carrier>>

(* findslot() *)
Join(p) == Becomes(p, {"PFREE"}, "POUTFIT") /\ newcomers' = newcomers \cup {p} /\ UNCHANGED ntorp

(* exitGame() from the outfit screen, from the game (the client said       *)
(* goodbye, SIGHUP), wherever the process is; or the ghostbuster.  Nobody  *)
(* looks at the torpedoes.                                                 *)
Exit(p) ==
  /\ pstatus[p] # "PFREE" /\ (Preempt \/ Settled)
  /\ pstatus' = [pstatus EXCEPT ![p] = "PFREE"]
  /\ newcomers' = newcomers \ {p}
  /\ fire' = [fire EXCEPT ![p] = Nothing] /\ mark' = [mark EXCEPT ![p] = Nothing]
  /\ UNCHANGED <<ntorp, torp, off, carrier>>

Flying(p) == {t \in Tubes : torp[t].status # "TFREE" /\ torp[t].owner = p}

(* "have not fired torps yet" *)
Enter(p) ==
  /\ p \in newcomers => Quick \/ Flying(p) = {}
  /\ Becomes(p, {"POUTFIT"}, "PALIVE")
  /\ newcomers' = newcomers \ {p}
  /\ ntorp' = [ntorp EXCEPT ![p] = 0]

DeathAtOnce(p) ==  \* mutant of Death: does not wait for the torpedoes
  Becomes(p, {"PDEAD"}, "POUTFIT") /\ UNCHANGED <<newcomers, ntorp>>

(* intrupt() calls death() when the torpedoes of a dead player are gone. *)
Death(p) ==
  /\ ntorp[p] <= 0
  /\ Becomes(p, {"PDEAD"}, "POUTFIT")
  /\ UNCHANGED <<newcomers, ntorp>>

FireOneMore(p) ==  \* mutant of Fire: the limit is off by one
  /\ Handles(p) /\ ntorp[p] <= MaxTorp /\ nthingys[p] <= 0
  /\ fire' = [fire EXCEPT ![p] = ntorp[p]]
  /\ UNCHANGED <<pstatus, newcomers, ntorp, torp, mark, off, carrier>>

(* ntorp(): "can't fire more than MAXTORPs", nor while fighters are out, ... *)
Fire(p) ==
  /\ Handles(p) /\ ntorp[p] # MaxTorp /\ nthingys[p] <= 0
  /\ fire' = [fire EXCEPT ![p] = ntorp[p]]
  /\ UNCHANGED <<pstatus, newcomers, ntorp, torp, mark, off, carrier>>

(* ... and p_ntorp++; the search for a free tube runs off the end of p's   *)
(* block when there is none.                                               *)
TubeFor(p) ==
  LET Free == {t \in Block(p) : torp[t].status = "TFREE"}
  IN IF Free = {} THEN (p + 1) * MaxTorp
     ELSE CHOOSE t \in Free : \A u \in Free : t <= u

Launch(p) ==
  /\ fire[p] # Nothing
  /\ ntorp' = [ntorp EXCEPT ![p] = fire[p] + 1]
  /\ torp' = [torp EXCEPT ![TubeFor(p)] = [status |-> "TMOVE", owner |-> p]]
  /\ fire' = [fire EXCEPT ![p] = Nothing]
  /\ UNCHANGED <<pstatus, newcomers, mark, off, carrier>>

(* detothers() looks at the torpedoes of the others, handleDetMReq() at p's*)
(* block and at any torpedo of p's; what they see moving ...               *)
See(p, t, new) ==
  /\ Handles(p)
  /\ torp[t].status = "TMOVE"
  /\ \/ new = "TDET" /\ \E q \in Players \ {p} : t \in Block(q) /\ pstatus[q] # "PFREE"
     \/ new = "TOFF" /\ (t \in Block(p) \/ torp[t].owner = p)
  /\ mark' = [mark EXCEPT ![p] = <<t, new>>]
  /\ UNCHANGED <<pstatus, newcomers, ntorp, torp, fire, off, carrier>>

(* ... is detonated, or turned off. *)
Mark(p) ==
  /\ mark[p] # Nothing
  /\ torp' = [torp EXCEPT ![mark[p][1]].status = mark[p][2]]
  /\ mark' = [mark EXCEPT ![p] = Nothing]
  /\ UNCHANGED <<pstatus, newcomers, ntorp, fire, off, carrier>>

-----------------------------------------------------------------------------
(* The daemon. *)

ExplodeHits(t) ==  \* mutant of Explode: forgets the detonated torpedoes
  /\ Daemon /\ torp[t].status = "TMOVE"
  /\ torp' = [torp EXCEPT ![t].status = "TEXPLODE"]
  /\ UNCHANGED <<pstatus, newcomers, ntorp, updates, carrier>>

(* udtorps(): a torpedo hits something, or was detonated. *)
Explode(t) ==
  /\ Daemon /\ torp[t].status \in {"TMOVE", "TDET"}
  /\ torp' = [torp EXCEPT ![t].status = "TEXPLODE"]
  /\ UNCHANGED <<pstatus, newcomers, ntorp, updates, carrier>>

EndUncounted(t) ==  \* mutant of End: the fuse runs out without p_ntorp--
  /\ Daemon /\ torp[t].status \in {"TMOVE", "TOFF", "TEXPLODE"}
  /\ torp' = [torp EXCEPT ![t].status = "TFREE"]
  /\ off' = IF torp[t].status = "TMOVE" THEN Nothing
            ELSE <<torp[t].owner, ntorp[torp[t].owner]>>
  /\ UNCHANGED <<pstatus, newcomers, ntorp, fire, mark, carrier>>

(* Its fuse runs out, it was turned off, or its explosion is over: TFREE,  *)
(* and p_ntorp--.                                                          *)
End(t) ==
  /\ Daemon /\ torp[t].status \in {"TMOVE", "TOFF", "TEXPLODE"}
  /\ torp' = [torp EXCEPT ![t].status = "TFREE"]
  /\ off' = <<torp[t].owner, ntorp[torp[t].owner]>>
  /\ UNCHANGED <<pstatus, newcomers, ntorp, fire, mark, carrier>>

CountOff ==
  /\ off # Nothing
  /\ ntorp' = [ntorp EXCEPT ![off[1]] = off[2] - 1]
  /\ off' = Nothing
  /\ UNCHANGED <<pstatus, newcomers, torp, fire, mark, carrier>>

DaemonSays(p, from, to) ==
  /\ Daemon /\ pstatus[p] = from
  /\ pstatus' = [pstatus EXCEPT ![p] = to]
  /\ UNCHANGED <<newcomers, ntorp, torp, updates, carrier>>

(* cause_kaboom(), and the end of doshipexplode(). *)
Kill(p)     == DaemonSays(p, "PALIVE", "PEXPLODE")
Exploded(p) == DaemonSays(p, "PEXPLODE", "PDEAD")

(* udplayers() sends the dead to the outfit screen after 600 updates; no   *)
(* torpedo lives that long.                                                *)
Bury(p) == Flying(p) = {} /\ DaemonSays(p, "PDEAD", "POUTFIT")

Next ==
  \/ \E p \in Players :
       \/ Join(p) \/ Exit(p) \/ Enter(p) \/ Death(p) \/ Fire(p) \/ Launch(p)
       \/ Mark(p) \/ Kill(p) \/ Exploded(p) \/ Bury(p)
       \/ \E t \in Tubes, new \in {"TDET", "TOFF"} : See(p, t, new)
  \/ \E t \in Tubes : Explode(t) \/ End(t)
  \/ CountOff

Spec == Init /\ [][Next]_vars

(* Both sides finish what they began, and the daemon comes by every torpedo*)
(* in every update, although the clients make it wait again and again.     *)
FairSpec ==
  /\ Spec
  /\ \A p \in Players : WF_vars(Launch(p) \/ Mark(p))
  /\ \A t \in Tubes : SF_vars(Explode(t) \/ End(t))
  /\ WF_vars(CountOff)

-----------------------------------------------------------------------------
(* What else writes the counter, and what ends without being counted.      *)

(* explode_everyone(): "no torps shot", wherever they are. *)
ExplodeEveryone ==
  /\ Daemon
  /\ pstatus' = [p \in Players |-> IF pstatus[p] = "PALIVE" THEN "PEXPLODE"
                                   ELSE pstatus[p]]
  /\ ntorp' = [p \in Players |-> IF pstatus[p] = "PALIVE" THEN 0 ELSE ntorp[p]]
  /\ UNCHANGED <<newcomers, torp, updates, carrier>>

ResetSpec == Init /\ [][Next \/ ExplodeEveryone]_vars

(* fire_missile_dir() of a carrier, when all its torpedoes are gone. *)
LaunchFighter(p) ==
  /\ Handles(p) /\ ntorp[p] <= 0 /\ nthingys[p] < MaxFighters
  /\ nthingys' = [nthingys EXCEPT ![p] = @ + 1]
  /\ armed' = [armed EXCEPT ![p] = @ + 1]
  /\ UNCHANGED <<pstatus, newcomers, ntorp, torp, updates>>

(* f_torp(): a fighter fires a torpedo from a tube of its carrier. *)
FighterFires(p) ==
  /\ Daemon /\ armed[p] > 0 /\ \E t \in Block(p) : torp[t].status = "TFREE"
  /\ torp' = [torp EXCEPT ![TubeFor(p)] = [status |-> "TMOVE", owner |-> p]]
  /\ armed' = [armed EXCEPT ![p] = @ - 1]
  /\ UNCHANGED <<pstatus, newcomers, ntorp, updates, nthingys>>

(* A fighter lands after it has fired, or explodes. *)
FighterEnds(p) ==
  /\ Daemon /\ nthingys[p] > 0
  /\ nthingys' = [nthingys EXCEPT ![p] = @ - 1]
  /\ armed' = [armed EXCEPT ![p] = IF armed[p] = nthingys[p] THEN @ - 1 ELSE @]
  /\ UNCHANGED <<pstatus, newcomers, ntorp, torp, updates>>

CarrierSpec ==
  Init /\ [][Next \/ \E p \in Players : \/ LaunchFighter(p) \/ FighterFires(p)
                                        \/ FighterEnds(p)]_vars

-----------------------------------------------------------------------------
(* "Number of torps flying": between updates the counter is right, whoever *)
(* fires, detonates, turns off, dies and comes back, or leaves with        *)
(* torpedoes in flight for the next owner of his slot.                     *)
CountHonest ==
  Settled => \A p \in Players : ntorp[p] = Cardinality(Flying(p))

(* Why the counter is right: one update at a time is under way, what it has*)
(* loaded and seen is still so, a torpedo that has just been freed is owed *)
(* to its owner's counter, torpedoes fly in the block of their owner, and  *)
(* who comes back to the outfit screen has none: only those that a process *)
(* left behind may fly for a slot that is free or whose owner is new.      *)
Busy(p) == fire[p] # Nothing \/ mark[p] # Nothing
Owed(p) == IF off # Nothing /\ off[1] = p THEN 1 ELSE 0
OneUpdate ==
  /\ \A p \in Players : Busy(p) =>
       off = Nothing /\ \A q \in Players \ {p} : ~Busy(q)
  /\ \A p \in Players : fire[p] = Nothing \/ mark[p] = Nothing
CountInv ==
  /\ TypeOK
  /\ OneUpdate
  /\ off # Nothing => off[2] = ntorp[off[1]]
  /\ \A p \in Players :
       /\ ntorp[p] = Cardinality(Flying(p)) + Owed(p)
       /\ fire[p] # Nothing => fire[p] = ntorp[p]
       /\ mark[p] # Nothing => torp[mark[p][1]].status # "TFREE"
       /\ pstatus[p] \in {"PFREE", "POUTFIT"} => fire[p] = Nothing
       /\ pstatus[p] = "POUTFIT" => p \in newcomers \/ Flying(p) = {}
  /\ \A t \in Tubes : torp[t].status # "TFREE" => t \in Block(torp[t].owner)

(* "can't fire more than MAXTORPs": whoever fires has a free tube of his   *)
(* own, and does not overwrite the torpedo of a neighbour.                 *)
OwnTubes ==
  [][\A p \in Players : Launch(p) =>
       TubeFor(p) \in Block(p) /\ torp[TubeFor(p)].status = "TFREE"]_vars

(* "have not fired torps yet": who enters again has no torpedo in flight,  *)
(* because intrupt() makes the dead wait for theirs, by the counter.       *)
EnterClean == [][\A p \in Players \ newcomers : Enter(p) => Flying(p) = {}]_vars

(* "let player fire another": who has no tube left gets one back, whether  *)
(* the torpedoes hit, run out, are detonated or turned off.                *)
TubesComeBack ==
  \A p \in Players : ntorp[p] = MaxTorp ~> ntorp[p] < MaxTorp

=============================================================================
