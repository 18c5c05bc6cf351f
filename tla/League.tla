------------------------------- MODULE League -------------------------------
(***************************************************************************)
(* A league match: the commands by which the two captains choose empires,  *)
(* get ready, start, pause and resume, parse_league() of ntserv/message.c, *)
(* each in the ntserv process of its captain; and the daemon, which keeps   *)
(* the match's clock in udtourny() of daemon/tourny.c and stands still     *)
(* while the game is paused, handle_pause_goop() and move() of             *)
(* daemon/daemonII.c.                                                      *)
(*                                                                         *)
(* The processes share status2 and hold no lock.  Preempt names the places *)
(* in a command at which another process may run:                          *)
(*    "choose"   between the tests of a choice and the choice              *)
(*    "draw"     between the second pass and the draw for both teams       *)
(*    "ready"    between "I am ready" and the look at the other team       *)
(*    "begin"    between that look and league = 2                          *)
(*    "clock"    between league = 2 and leagueticksleft = 60 seconds       *)
(*    "reset"    between the wish for a restart and the restart            *)
(*    "pause"    between the wish for a pause and the pause                *)
(*                                                                         *)
(* Of the players only the captains matter here, and of a captain whether  *)
(* his process listens and whether a team mate may overthrow him.  Teams   *)
(* have names; sides do not change, nor does the agreed length of a match; *)
(* the new galaxy is left out.                                             *)
(***************************************************************************)
EXTENDS Integers, FiniteSets

CONSTANTS
  Empires,
  Warmup, Regulation,    \* ticks of the warm up and of a match
  Resume,                \* ticks to the resumption of a paused game
  Preempt,               \* see above
  MayCrash,              \* whether a process may die without a word
  MaxPauses,             \* bound: commands to pause
  None                   \* no empire

Steps == {"choose", "draw", "ready", "begin", "clock", "reset", "pause"}
Sides == {"home", "away"}
Other(t) == IF t = "home" THEN "away" ELSE "home"

ASSUME LeagueAssumption ==
  /\ None \notin Empires \cup Sides
  /\ IsFiniteSet(Empires) /\ Cardinality(Empires) >= 2
  /\ {Warmup, Regulation, Resume} \subseteq Nat \ {0}
  /\ MaxPauses \in Nat
  /\ Preempt \subseteq Steps /\ MayCrash \in BOOLEAN

VARIABLES
  league,           \* 1: the captains choose, 2: warm up, 3: the match
  leagueticksleft,
  index,            \* the team's empire
  awaypassed,       \* who has passed the choice of empire
  ready, restart,   \* what the team's captain has said
  desirepause,
  paused,           \* ticks to the resumption, 0: the game runs
  captain,          \* "none", "here"; "left": not PALIVE; "crashed": PALIVE
  pc,               \* pc[t]: the place in a command t's captain is at
  choice,           \* the empire t's captain is about to choose
  said,             \* whether the team has said it was ready for this match
  played,           \* ticks since the warm up or the match began
  pauses

match == <<league, leagueticksleft, said, played>>
sides == <<index, awaypassed, ready, restart>>
pausing == <<desirepause, paused, pauses>>
vars == <<match, sides, captain, pausing, pc, choice>>

Init ==
  /\ league = 1 /\ leagueticksleft = 0
  /\ index = [t \in Sides |-> None] /\ awaypassed = 0
  /\ ready = [t \in Sides |-> FALSE] /\ restart = [t \in Sides |-> FALSE]
  /\ desirepause = [t \in Sides |-> FALSE] /\ paused = 0
  /\ captain = [t \in Sides |-> "none"]
  /\ pc = [t \in Sides |-> "idle"] /\ choice = [t \in Sides |-> None]
  /\ said = [t \in Sides |-> FALSE] /\ played = 0
  /\ pauses = 0

Uninterrupted(t) == \A o \in Sides \ {t} : pc[o] \in {"idle"} \cup Preempt

ByCaptain(t) == Uninterrupted(t) /\ captain[t] = "here" /\ pc[t] = "idle"
At(t, place) == Uninterrupted(t) /\ pc[t] = place
Goes(t, place) == pc' = [pc EXCEPT ![t] = place]

-----------------------------------------------------------------------------
(* Captains *)

Appoint(t, c) ==
  /\ captain' = [captain EXCEPT ![t] = c]
  /\ UNCHANGED <<match, sides, pausing, pc, choice>>

ClaimVacant(t) ==
  /\ Uninterrupted(t) /\ captain[t] = "none"
  /\ Appoint(t, "here")

(* A captain who is not PALIVE is overthrown. *)
Claim(t) ==
  /\ Uninterrupted(t) /\ captain[t] \in {"none", "left"}
  /\ Appoint(t, "here")

(* explode_everyone() and endgame_effects() spare nobody. *)
Exploded == [t \in Sides |-> IF captain[t] = "crashed" THEN "left" ELSE captain[t]]

Resign(t) == ByCaptain(t) /\ Appoint(t, "none")

(* His slot stays the captain's. *)
Quit(t) == ByCaptain(t) /\ Appoint(t, "left")

(* His process dies without a word; what it left undone stays undone. *)
Crash(t) ==
  /\ MayCrash /\ captain[t] = "here"
  /\ Uninterrupted(t) /\ pc[t] \in {"idle"} \cup Preempt
  /\ captain' = [captain EXCEPT ![t] = "crashed"]
  /\ Goes(t, "idle") /\ choice' = [choice EXCEPT ![t] = None]
  /\ UNCHANGED <<match, sides, pausing>>

(* The ghostbuster of udplayers(), which a pause stops. *)
Bust(t) ==
  /\ Uninterrupted(t) /\ paused = 0
  /\ captain[t] = "crashed"
  /\ Appoint(t, "left")

-----------------------------------------------------------------------------
(* The choice of empires *)

MayChoose(t, i) ==
  LET o == Other(t) IN
  /\ league = 1
  /\ ~((ready[t] \/ ready[o]) /\ index[t] # None)
  /\ i # index[t]
  /\ \/ index[o] # None /\ i # index[o]
     \/ index[o] = None /\ t = "home" /\ awaypassed # 0
     \/ /\ index[o] = None /\ t = "away" /\ awaypassed # 1
        /\ ~(index[t] # None /\ awaypassed = 0)

(* A choice that is tested only against a team that has not chosen yet. *)
TestChoiceOfOne(c, i) ==
  /\ ByCaptain(c) /\ league = 1 /\ ~ready[c]
  /\ index[c] # None => i # index[Other(c)]
  /\ choice' = [choice EXCEPT ![c] = i] /\ Goes(c, "choose")
  /\ UNCHANGED <<match, sides, captain, pausing>>

TestChoice(c, i) ==
  /\ ByCaptain(c) /\ MayChoose(c, i)
  /\ choice' = [choice EXCEPT ![c] = i] /\ Goes(c, "choose")
  /\ UNCHANGED <<match, sides, captain, pausing>>

Choose(c) ==
  /\ At(c, "choose")
  /\ index' = [index EXCEPT ![c] = choice[c]]
  /\ choice' = [choice EXCEPT ![c] = None] /\ Goes(c, "idle")
  /\ UNCHANGED <<match, awaypassed, ready, restart, captain, pausing>>

(* Home passes again and again. *)
PassAgain(c) ==
  /\ ByCaptain(c) /\ league = 1
  /\ IF c = "away" THEN awaypassed = 0 ELSE awaypassed > 0
  /\ awaypassed' = awaypassed + 1
  /\ Goes(c, IF awaypassed' > 1 THEN "draw" ELSE "idle")
  /\ UNCHANGED <<match, index, ready, restart, captain, pausing, choice>>

Pass(c) ==
  /\ ByCaptain(c) /\ league = 1
  /\ awaypassed = IF c = "away" THEN 0 ELSE 1
  /\ awaypassed' = awaypassed + 1
  /\ Goes(c, IF awaypassed' > 1 THEN "draw" ELSE "idle")
  /\ UNCHANGED <<match, index, ready, restart, captain, pausing, choice>>

(* Who has no empire draws one that the other team has not. *)
Draw(c) ==
  /\ At(c, "draw")
  /\ \E i \in [Sides -> Empires] :
       /\ \A t \in Sides : index[t] # None => i[t] = index[t]
       /\ None \in {index[t] : t \in Sides} => i["home"] # i["away"]
       /\ index' = i
  /\ Goes(c, "idle")
  /\ UNCHANGED <<match, awaypassed, ready, restart, captain, pausing, choice>>

-----------------------------------------------------------------------------
(* The start of a match *)

Ready(c) ==
  LET yes == index[c] # None IN
  /\ ByCaptain(c) /\ league = 1
  /\ ready' = [ready EXCEPT ![c] = yes]
  /\ said' = [said EXCEPT ![c] = yes]
  /\ Goes(c, IF yes THEN "ready" ELSE "idle")
  /\ UNCHANGED <<league, leagueticksleft, played, index, awaypassed, restart, captain, pausing, choice>>

NotReady(c) ==
  /\ ByCaptain(c) /\ league = 1
  /\ ready' = [ready EXCEPT ![c] = FALSE]
  /\ said' = [said EXCEPT ![c] = FALSE]
  /\ UNCHANGED <<league, leagueticksleft, played, index, awaypassed, restart, captain, pausing, pc, choice>>

LookAtOther(c) ==
  LET o == Other(c)
      both == ready[o] /\ index[o] # None IN
  /\ At(c, "ready")
  /\ ready' = [ready EXCEPT ![o] = both]
  /\ Goes(c, IF both THEN "begin" ELSE "idle")
  /\ UNCHANGED <<match, index, awaypassed, restart, captain, pausing, choice>>

Begin(c) ==
  /\ At(c, "begin")
  /\ league' = 2 /\ played' = 0
  /\ Goes(c, "clock")
  /\ UNCHANGED <<leagueticksleft, said, sides, captain, pausing, choice>>

SetClock(c) ==
  /\ At(c, "clock")
  /\ leagueticksleft' = Warmup
  /\ said' = [t \in Sides |-> FALSE]
  /\ captain' = Exploded
  /\ Goes(c, "idle")
  /\ UNCHANGED <<league, played, sides, pausing, choice>>

Restart(c, b) ==
  /\ ByCaptain(c) /\ league = 1
  /\ restart' = [restart EXCEPT ![c] = b]
  /\ Goes(c, IF \A t \in Sides : restart'[t] THEN "reset" ELSE "idle")
  /\ UNCHANGED <<match, index, awaypassed, ready, captain, pausing, choice>>

Reset(c) ==
  /\ At(c, "reset")
  /\ awaypassed' = 0
  /\ index' = [t \in Sides |-> None]
  /\ ready' = [t \in Sides |-> FALSE]
  /\ restart' = [t \in Sides |-> FALSE]
  /\ said' = [t \in Sides |-> FALSE]
  /\ Goes(c, "idle")
  /\ UNCHANGED <<league, leagueticksleft, played, captain, pausing, choice>>

-----------------------------------------------------------------------------
(* Pauses *)

WishPause(c) ==
  /\ ByCaptain(c) /\ pauses < MaxPauses
  /\ pauses' = pauses + 1
  /\ desirepause' = [desirepause EXCEPT ![c] = TRUE]
  /\ Goes(c, IF desirepause[Other(c)] THEN "pause" ELSE "idle")
  /\ UNCHANGED <<match, sides, captain, paused, choice>>

Pause(c) ==
  /\ At(c, "pause")
  /\ paused' = Resume
  /\ Goes(c, "idle")
  /\ UNCHANGED <<match, sides, captain, desirepause, pauses, choice>>

Continue(c) ==
  /\ ByCaptain(c)
  /\ desirepause' = [desirepause EXCEPT ![c] = FALSE]
  /\ UNCHANGED <<match, sides, captain, paused, pauses, pc, choice>>

-----------------------------------------------------------------------------
(* The daemon: one turn of move() *)

(* Only while neither team wants the pause does the game come back. *)
Countdown ==
  paused' = IF paused > 0 /\ \A t \in Sides : ~desirepause[t]
            THEN paused - 1 ELSE paused

(* starttourn() at the end of the warm up, endtourn() at that of the match. *)
udtourny ==
  LET trem == leagueticksleft - 1 IN
  \/ league = 1 /\ UNCHANGED <<match, captain>>
  \/ /\ league # 1 /\ trem > 0
     /\ leagueticksleft' = trem /\ played' = played + 1
     /\ UNCHANGED <<league, said, captain>>
  \/ /\ league = 2 /\ trem <= 0
     /\ league' = 3 /\ leagueticksleft' = Regulation /\ played' = 0
     /\ captain' = Exploded
     /\ UNCHANGED said
  \/ /\ league = 3 /\ trem <= 0
     /\ league' = 1 /\ leagueticksleft' = trem /\ played' = 0
     /\ captain' = Exploded
     /\ UNCHANGED said

(* The clock runs on through a pause; the game does not. *)
MoveOn ==
  /\ Uninterrupted(None)
  /\ Countdown
  /\ IF paused' = 0 \/ leagueticksleft = 1 THEN udtourny
     ELSE /\ leagueticksleft' = leagueticksleft - (IF league = 1 THEN 0 ELSE 1)
          /\ UNCHANGED <<league, said, played, captain>>
  /\ UNCHANGED <<sides, desirepause, pauses, pc, choice>>

Move ==
  /\ Uninterrupted(None)
  /\ Countdown
  /\ IF paused' = 0 THEN udtourny ELSE UNCHANGED <<match, captain>>
  /\ UNCHANGED <<sides, desirepause, pauses, pc, choice>>

-----------------------------------------------------------------------------

Next ==
  \/ Move
  \/ \E t \in Sides :
       \/ Claim(t) \/ Resign(t) \/ Quit(t) \/ Crash(t) \/ Bust(t)
       \/ \E i \in Empires : TestChoice(t, i)
       \/ Choose(t) \/ Pass(t) \/ Draw(t)
       \/ Ready(t) \/ NotReady(t) \/ LookAtOther(t) \/ Begin(t) \/ SetClock(t)
       \/ \E b \in BOOLEAN : Restart(t, b)
       \/ Reset(t)
       \/ WishPause(t) \/ Pause(t) \/ Continue(t)

Spec == Init /\ [][Next]_vars

(* The daemon runs; a captain who is in a command finishes it; and either   *)
(* team wants to play on: somebody leads it, and its captains, when they   *)
(* can end the pause again and again, do so.                               *)
Finish(t) ==
  Choose(t) \/ Draw(t) \/ LookAtOther(t) \/ Begin(t) \/ SetClock(t) \/ Reset(t) \/ Pause(t)

FairSpec ==
  /\ Spec /\ SF_vars(Move)
  /\ \A t \in Sides : SF_vars(Finish(t)) /\ SF_vars(Continue(t)) /\ SF_vars(Claim(t))

-----------------------------------------------------------------------------

(* Every field has its type; only a captain is in the middle of a command.  *)
TypeOK ==
  /\ league \in 1 .. 3
  /\ leagueticksleft \in 0 .. (IF Warmup > Regulation THEN Warmup ELSE Regulation)
  /\ index \in [Sides -> Empires \cup {None}] /\ awaypassed \in 0 .. 2
  /\ {ready, restart, desirepause, said} \subseteq [Sides -> BOOLEAN]
  /\ paused \in 0 .. Resume
  /\ captain \in [Sides -> {"none", "here", "left", "crashed"}]
  /\ pc \in [Sides -> {"idle"} \cup Steps]
  /\ choice \in [Sides -> Empires \cup {None}]
  /\ \A t \in Sides : pc[t] # "idle" => captain[t] = "here"
  /\ pauses \in 0 .. MaxPauses

(* Whatever the captains say and take back, pass, choose again and          *)
(* restart, the teams never have the same empire, a team that is ready has *)
(* one, and there is no warm up and no match between teams without one.    *)
Opponents ==
  /\ index["home"] = index["away"] => index["home"] = None
  /\ \A t \in Sides : ready[t] \/ league > 1 => index[t] # None

(* The warm up and the match have their full length in time in which the   *)
(* game is not paused, and the clock starts a match only from a warm up.   *)
FullTime ==
  [][league' # league =>
       \/ league = 1 /\ league' = 2
       \/ league = 2 /\ league' = 3 /\ played + 1 = Warmup
       \/ league = 3 /\ league' = 1 /\ played + 1 = Regulation]_vars

(* Every pause ends, though either captain's wish is enough to keep it up   *)
(* and captains resign, leave and are overthrown with the wish standing;   *)
(* unless a captain's process dies, whom only the ghostbuster can remove.  *)
Crashed == \E t \in Sides : captain[t] = "crashed"
PauseEnds == paused > 0 ~> (paused = 0 \/ Crashed)

(* Such a pause ends as well. *)
EveryPauseEnds == paused > 0 ~> paused = 0

(* docs/README.League: "Once empires are chosen both captains issue the     *)
(* command `league start'": a warm up begins only after both teams have    *)
(* said since the last one that they are ready.                            *)
BothSaidStart == [][league = 1 /\ league' = 2 => \A t \in Sides : said[t]]_vars

=============================================================================
