----------------------------- MODULE Game_proofs -----------------------------
(***************************************************************************)
(* Proofs about the course of a game, of the captains' league match        *)
(* (module League) and of the war for the planets (module Conquest).  The  *)
(* two run side by side on variables of their own, whose names differ, so  *)
(* that one module can be about both.                                      *)
(*                                                                         *)
(* League, for any empires and lengths of the periods, when a captain's    *)
(* command may be interrupted only before the draw of empires and before a *)
(* pause begins.  The invariant ties the place a captain is at in a        *)
(* command to what his process has tested before: while he is there, at a  *)
(* place where nobody may come in between, the test still holds.  It also  *)
(* adds up the clock: ticks played and ticks left make the length of the   *)
(* period.                                                                 *)
(*                                                                         *)
(* Conquest, for any number of planets and any settings: what every change *)
(* of a planet keeps, and, for a game of two teams, that it is over as     *)
(* soon as it is decided.                                                  *)
(***************************************************************************)
EXTENDS League, Conquest, FiniteSetTheorems, TLAPS

(* The schedules the theorems are about. *)
SafeWindows == Preempt \subseteq {"draw", "pause"}

(* What a command has found out and nobody has changed since.              *)
Tested ==
  \A t \in Sides :
    /\ pc[t] \in {"choose", "ready", "begin", "reset"} => league = 1
    /\ pc[t] = "choose" => choice[t] \in Empires /\ choice[t] # index[Other(t)]
    /\ pc[t] = "ready" => index[t] # None
    /\ pc[t] = "begin" => \A u \in Sides : index[u] # None
    /\ pc[t] = "clock" => league = 2

(* The match's clock, which a process at "clock" is about to set.          *)
Clock ==
  /\ league = 1 => leagueticksleft = 0
  /\ league = 2 =>
       IF \E t \in Sides : pc[t] = "clock" THEN leagueticksleft = 0 /\ played = 0
       ELSE leagueticksleft > 0 /\ played + leagueticksleft = Warmup
  /\ league = 3 => leagueticksleft > 0 /\ played + leagueticksleft = Regulation

IInv == TypeOK /\ played \in Nat /\ Opponents /\ Tested /\ Clock

-----------------------------------------------------------------------------

(* The two teams are each other's opponents.                               *)
LEMMA Others ==
  \A t \in Sides : Other(t) \in Sides /\ Other(t) # t /\ \A u \in Sides : u = t \/ u = Other(t)
  BY DEF Sides, Other

(* Where nobody may come in between, nobody else is.                       *)
LEMMA Alone ==
  ASSUME SafeWindows, NEW t, Uninterrupted(t), NEW o \in Sides, o # t
  PROVE  pc[o] \in {"idle", "draw", "pause"}
  BY DEF SafeWindows, Uninterrupted

LEMMA Initially == Init => IInv
<1> SUFFICES ASSUME Init PROVE IInv
  OBVIOUS
<1> USE LeagueAssumption DEF Init
<1>1. TypeOK
  BY DEF TypeOK, Sides
<1>2. played \in Nat /\ Opponents /\ Tested /\ Clock
  BY DEF Opponents, Tested, Clock, Sides
<1> QED
  BY <1>1, <1>2 DEF IInv

-----------------------------------------------------------------------------
(* One lemma for each kind of step. *)

(* Captains come and go only where they are not in a command.              *)
LEMMA CaptainStep ==
  ASSUME IInv, NEW t \in Sides, Claim(t) \/ Resign(t) \/ Quit(t) \/ Bust(t)
  PROVE  IInv'
<1>1. \E c \in {"none", "here", "left"} :
        Appoint(t, c) /\ (c = "here" \/ pc[t] = "idle")
  BY Others DEF Claim, Resign, Quit, Bust, ByCaptain, IInv, TypeOK
<1>2. TypeOK'
  BY <1>1 DEF IInv, TypeOK, Appoint, match, sides, pausing
<1>3. played' \in Nat /\ Opponents' /\ Tested' /\ Clock'
  BY <1>1 DEF IInv, Opponents, Tested, Clock, Appoint, match, sides, pausing
<1> QED
  BY <1>2, <1>3 DEF IInv

LEMMA CrashStep ==
  ASSUME SafeWindows, IInv, NEW t \in Sides, Crash(t)
  PROVE  IInv'
<1> USE DEF Crash, Goes, match, sides, pausing
<1>1. TypeOK'
  BY LeagueAssumption DEF IInv, TypeOK
<1>2. pc[t] # "clock" /\ \A u \in Sides : u # t => pc[u] # "clock" /\ pc[u] # "choose"
  BY Alone DEF SafeWindows
<1>3. played' \in Nat /\ Opponents'
  BY DEF IInv, Opponents
<1>4. Tested'
  BY <1>2, Others DEF IInv, TypeOK, Tested
<1>5. Clock'
  BY <1>2 DEF IInv, TypeOK, Clock
<1> QED
  BY <1>1, <1>3, <1>4, <1>5 DEF IInv

LEMMA TestChoiceStep ==
  ASSUME SafeWindows, IInv, NEW t \in Sides, NEW i \in Empires, TestChoice(t, i)
  PROVE  IInv'
<1> USE DEF TestChoice, Goes, match, sides, pausing
<1>1. /\ league = 1 /\ i # index[Other(t)]
      /\ pc' = [pc EXCEPT ![t] = "choose"] /\ choice' = [choice EXCEPT ![t] = i]
  BY LeagueAssumption DEF MayChoose
<1>2. TypeOK'
  BY <1>1 DEF IInv, TypeOK, ByCaptain, Steps
<1>3. played' \in Nat /\ Opponents'
  BY DEF IInv, Opponents
<1>4. Tested'
  BY <1>1, Others DEF IInv, TypeOK, Tested
<1>5. Clock'
  BY <1>1, Others DEF IInv, TypeOK, Clock
<1> QED
  BY <1>2, <1>3, <1>4, <1>5 DEF IInv

LEMMA ChooseStep ==
  ASSUME SafeWindows, IInv, NEW t \in Sides, Choose(t)
  PROVE  IInv'
<1> USE DEF Choose, At, Goes, match, pausing
<1>1. /\ league = 1 /\ choice[t] \in Empires /\ choice[t] # index[Other(t)]
      /\ \A u \in Sides : u # t => pc[u] \in {"idle", "draw", "pause"}
  BY Alone DEF IInv, Tested
<1>2. TypeOK'
  BY <1>1 DEF IInv, TypeOK
<1>3. Opponents'
  BY <1>1, LeagueAssumption DEF IInv, TypeOK, Opponents, Sides, Other
<1>4. Tested'
  BY <1>1 DEF IInv, TypeOK, Tested
<1>5. Clock' /\ played' \in Nat
  BY <1>1 DEF IInv, TypeOK, Clock
<1> QED
  BY <1>2, <1>3, <1>4, <1>5 DEF IInv

LEMMA PassStep ==
  ASSUME SafeWindows, IInv, NEW t \in Sides, Pass(t)
  PROVE  IInv'
<1> USE DEF Pass, Goes, match, pausing
<1>1. league = 1 /\ captain[t] = "here" /\ \E p \in {"draw", "idle"} : pc' = [pc EXCEPT ![t] = p]
  BY DEF ByCaptain
<1>2. TypeOK'
  BY <1>1 DEF IInv, TypeOK, Steps
<1>3. Opponents' /\ played' \in Nat
  BY DEF IInv, Opponents
<1>4. Tested'
  BY <1>1 DEF IInv, TypeOK, Tested
<1>5. Clock'
  BY <1>1 DEF IInv, TypeOK, Clock
<1> QED
  BY <1>2, <1>3, <1>4, <1>5 DEF IInv

(* The draw keeps the empires that are chosen, and gives one to who has none. *)
LEMMA DrawStep ==
  ASSUME SafeWindows, IInv, NEW t \in Sides, Draw(t)
  PROVE  IInv'
<1> USE DEF Draw, At, Goes, match, pausing
<1>1. /\ index' \in [Sides -> Empires]
      /\ \A u \in Sides : index[u] # None => index'[u] = index[u]
      /\ None \in {index[u] : u \in Sides} => index'["home"] # index'["away"]
      /\ \A u \in Sides : pc[u] \in {"idle", "draw", "pause"}
  BY Alone
<1>2. TypeOK'
  BY <1>1 DEF IInv, TypeOK
<1>3. Opponents' /\ played' \in Nat
  BY <1>1, LeagueAssumption DEF IInv, TypeOK, Opponents, Sides
<1>4. Tested'
  BY <1>1 DEF IInv, TypeOK, Tested
<1>5. Clock'
  BY <1>1 DEF IInv, TypeOK, Clock
<1> QED
  BY <1>2, <1>3, <1>4, <1>5 DEF IInv

LEMMA ReadyStep ==
  ASSUME SafeWindows, IInv, NEW t \in Sides, Ready(t) \/ NotReady(t)
  PROVE  IInv'
<1> USE DEF Ready, NotReady, Goes, match, pausing
<1>1. league = 1 /\ captain[t] = "here" /\ pc[t] = "idle" /\ Uninterrupted(t)
  BY DEF ByCaptain
<1>2. /\ UNCHANGED <<league, leagueticksleft, played, index, awaypassed, restart, captain, pausing, choice>>
      /\ \E b \in BOOLEAN :
           /\ b => index[t] # None
           /\ ready' = [ready EXCEPT ![t] = b] /\ said' = [said EXCEPT ![t] = b]
           /\ pc' = [pc EXCEPT ![t] = IF b THEN "ready" ELSE "idle"]
  <2>1. CASE Ready(t)
    BY <2>1
  <2>2. CASE NotReady(t)
    <3>1. pc' = [pc EXCEPT ![t] = "idle"]
      BY <2>2, <1>1 DEF IInv, TypeOK
    <3> QED
      BY <2>2, <3>1
  <2> QED
    BY <2>1, <2>2
<1> HIDE DEF Ready, NotReady
<1>3. TypeOK'
  BY <1>1, <1>2 DEF IInv, TypeOK, Steps
<1>4. Opponents' /\ played' \in Nat
  BY <1>2 DEF IInv, TypeOK, Opponents
<1>5. Tested'
  BY <1>1, <1>2 DEF IInv, TypeOK, Tested
<1>6. Clock'
  BY <1>1, <1>2 DEF IInv, TypeOK, Clock
<1> QED
  BY <1>3, <1>4, <1>5, <1>6 DEF IInv

LEMMA LookStep ==
  ASSUME SafeWindows, IInv, NEW t \in Sides, LookAtOther(t)
  PROVE  IInv'
<1> USE DEF LookAtOther, At, Goes, match, pausing
<1>1. league = 1 /\ index[t] # None /\ captain[t] = "here"
  BY DEF IInv, Tested, TypeOK
<1>2. /\ \A u \in Sides : u # t => pc[u] \in {"idle", "draw", "pause"}
      /\ \E b \in BOOLEAN :
           /\ b => \A u \in Sides : index[u] # None
           /\ ready' = [ready EXCEPT ![Other(t)] = b]
           /\ pc' = [pc EXCEPT ![t] = IF b THEN "begin" ELSE "idle"]
  <2>1. (ready[Other(t)] /\ index[Other(t)] # None) \in BOOLEAN
    OBVIOUS
  <2> QED
    BY <1>1, <2>1, Alone, Others DEF IInv, TypeOK
<1>3. TypeOK'
  BY <1>1, <1>2, Others DEF IInv, TypeOK, Steps
<1>4. Opponents' /\ played' \in Nat
  BY <1>2 DEF IInv, TypeOK, Opponents
<1>5. Tested'
  BY <1>1, <1>2 DEF IInv, TypeOK, Tested
<1>6. Clock'
  BY <1>1, <1>2 DEF IInv, TypeOK, Clock
<1> QED
  BY <1>3, <1>4, <1>5, <1>6 DEF IInv

LEMMA BeginStep ==
  ASSUME SafeWindows, IInv, NEW t \in Sides, Begin(t)
  PROVE  IInv'
<1> USE DEF Begin, At, Goes, sides, pausing
<1>1. /\ league = 1 /\ leagueticksleft = 0 /\ captain[t] = "here"
      /\ \A u \in Sides : index[u] # None
      /\ \A u \in Sides : u # t => pc[u] \in {"idle", "draw", "pause"}
  BY Alone DEF IInv, Tested, TypeOK, Clock
<1>2. TypeOK'
  BY <1>1 DEF IInv, TypeOK, Steps
<1>3. Opponents' /\ played' \in Nat
  BY <1>1 DEF IInv, TypeOK, Opponents
<1>4. Tested'
  BY <1>1 DEF IInv, TypeOK, Tested
<1>5. Clock'
  BY <1>1 DEF IInv, TypeOK, Clock
<1> QED
  BY <1>2, <1>3, <1>4, <1>5 DEF IInv

LEMMA SetClockStep ==
  ASSUME SafeWindows, IInv, NEW t \in Sides, SetClock(t)
  PROVE  IInv'
<1> USE DEF SetClock, At, Goes, sides, pausing
<1>1. /\ league = 2 /\ played = 0 /\ captain[t] = "here"
      /\ \A u \in Sides : u # t => pc[u] \in {"idle", "draw", "pause"}
  BY Alone DEF IInv, Tested, TypeOK, Clock
<1>2. /\ captain' \in [Sides -> {"none", "here", "left", "crashed"}]
      /\ \A u \in Sides : captain[u] = "here" => captain'[u] = "here"
  BY DEF IInv, TypeOK, Exploded
<1>3. TypeOK'
  <2>1. leagueticksleft' \in 0 .. (IF Warmup > Regulation THEN Warmup ELSE Regulation)
    BY LeagueAssumption
  <2>2. {ready', restart', desirepause', said'} \subseteq [Sides -> BOOLEAN]
    BY DEF IInv, TypeOK
  <2>3. \A u \in Sides : pc'[u] # "idle" => captain'[u] = "here"
    BY <1>2 DEF IInv, TypeOK
  <2> QED
    BY <1>1, <1>2, <2>1, <2>2, <2>3 DEF IInv, TypeOK
<1>4. Opponents' /\ played' \in Nat
  BY <1>1 DEF IInv, TypeOK, Opponents
<1>5. Tested'
  BY <1>1 DEF IInv, TypeOK, Tested
<1>6. Clock'
  BY <1>1, LeagueAssumption DEF IInv, TypeOK, Clock
<1> QED
  BY <1>3, <1>4, <1>5, <1>6 DEF IInv

LEMMA RestartStep ==
  ASSUME SafeWindows, IInv, NEW t \in Sides, NEW b \in BOOLEAN, Restart(t, b)
  PROVE  IInv'
<1> USE DEF Restart, Goes, match, pausing
<1>1. league = 1 /\ captain[t] = "here" /\ \E p \in {"reset", "idle"} : pc' = [pc EXCEPT ![t] = p]
  BY DEF ByCaptain
<1>2. TypeOK'
  BY <1>1 DEF IInv, TypeOK, Steps
<1>3. Opponents' /\ played' \in Nat
  BY DEF IInv, Opponents
<1>4. Tested'
  BY <1>1 DEF IInv, TypeOK, Tested
<1>5. Clock'
  BY <1>1 DEF IInv, TypeOK, Clock
<1> QED
  BY <1>2, <1>3, <1>4, <1>5 DEF IInv

LEMMA ResetStep ==
  ASSUME SafeWindows, IInv, NEW t \in Sides, Reset(t)
  PROVE  IInv'
<1> USE DEF Reset, At, Goes, pausing
<1>1. /\ league = 1
      /\ \A u \in Sides : u # t => pc[u] \in {"idle", "draw", "pause"}
  BY Alone DEF IInv, Tested
<1>2. TypeOK'
  BY <1>1 DEF IInv, TypeOK
<1>3. Opponents' /\ played' \in Nat
  BY <1>1 DEF IInv, TypeOK, Opponents, Sides
<1>4. Tested'
  BY <1>1 DEF IInv, TypeOK, Tested
<1>5. Clock'
  BY <1>1 DEF IInv, TypeOK, Clock
<1> QED
  BY <1>2, <1>3, <1>4, <1>5 DEF IInv

LEMMA PauseStep ==
  ASSUME SafeWindows, IInv, NEW t \in Sides, WishPause(t) \/ Pause(t) \/ Continue(t)
  PROVE  IInv'
<1>1. UNCHANGED <<match, sides, captain, choice>>
  BY DEF WishPause, Pause, Continue
<1>2. captain[t] = "here" /\ pc[t] \in {"idle", "pause"}
  BY DEF WishPause, Pause, Continue, ByCaptain, At, IInv, TypeOK
<1>3. \E p \in {"pause", "idle"} : pc' = [pc EXCEPT ![t] = p]
  <2>1. CASE Continue(t)
    BY <2>1 DEF Continue, ByCaptain, IInv, TypeOK
  <2>2. CASE WishPause(t) \/ Pause(t)
    BY <2>2 DEF WishPause, Pause, Goes
  <2> QED
    BY <2>1, <2>2
<1>4. desirepause' \in [Sides -> BOOLEAN]
  BY DEF WishPause, Pause, Continue, IInv, TypeOK
<1>5. paused' \in 0 .. Resume
  BY LeagueAssumption DEF WishPause, Pause, Continue, IInv, TypeOK
<1>6. pauses' \in 0 .. MaxPauses
  BY LeagueAssumption DEF WishPause, Pause, Continue, IInv, TypeOK
<1> USE DEF match, sides
<1>7. TypeOK'
  <2>1. /\ pc' \in [Sides -> {"idle"} \cup Steps]
        /\ \A u \in Sides : pc'[u] # "idle" => captain'[u] = "here"
    BY <1>1, <1>2, <1>3 DEF IInv, TypeOK, Steps
  <2>2. {ready', restart', desirepause', said'} \subseteq [Sides -> BOOLEAN]
    BY <1>1, <1>4 DEF IInv, TypeOK
  <2> QED
    BY <1>1, <1>5, <1>6, <2>1, <2>2 DEF IInv, TypeOK
<1>8. Opponents' /\ played' \in Nat
  BY <1>1 DEF IInv, Opponents
<1>9. Tested'
  BY <1>1, <1>3 DEF IInv, TypeOK, Tested
<1>10. Clock'
  BY <1>1, <1>2, <1>3 DEF IInv, TypeOK, Clock
<1> QED
  BY <1>7, <1>8, <1>9, <1>10 DEF IInv

(* The daemon finds no process where nobody may come in between.           *)
LEMMA NobodyTests ==
  ASSUME SafeWindows, Uninterrupted(None)
  PROVE  \A u \in Sides : pc[u] \in {"idle", "draw", "pause"}
<1>1. None \notin Sides => Sides \ {None} = Sides
  OBVIOUS
<1>2. None \notin Sides
  BY LeagueAssumption
<1> QED
  BY <1>1, <1>2 DEF SafeWindows, Uninterrupted

LEMMA MoveStep ==
  ASSUME SafeWindows, IInv, Move
  PROVE  IInv'
<1> USE DEF Move, match, sides
<1>1. /\ UNCHANGED <<sides, desirepause, pauses, pc, choice>>
      /\ \A u \in Sides : pc[u] \in {"idle", "draw", "pause"}
  BY NobodyTests
<1>2. /\ captain' \in [Sides -> {"none", "here", "left", "crashed"}]
      /\ \A u \in Sides : captain[u] = "here" => captain'[u] = "here"
  BY DEF IInv, TypeOK, Exploded, udtourny
<1>3. paused' \in 0 .. Resume
  BY LeagueAssumption DEF IInv, TypeOK, Countdown
<1>4. CASE UNCHANGED match
  <2>1. TypeOK'
    BY <1>1, <1>2, <1>3, <1>4 DEF IInv, TypeOK
  <2>2. Opponents' /\ Tested' /\ Clock' /\ played' \in Nat
    BY <1>1, <1>4 DEF IInv, TypeOK, Opponents, Tested, Clock
  <2> QED
    BY <2>1, <2>2 DEF IInv
<1>5. CASE paused' = 0 /\ league # 1
  <2>1. /\ udtourny /\ league # 1
        /\ league = 2 => leagueticksleft > 0 /\ played + leagueticksleft = Warmup
        /\ league = 3 => leagueticksleft > 0 /\ played + leagueticksleft = Regulation
    BY <1>1, <1>5 DEF IInv, Clock
  <2>2. /\ league' \in 1 .. 3 /\ played' \in Nat /\ leagueticksleft' \in Nat
        /\ said' = said
        /\ league' = 1 => leagueticksleft' = 0
        /\ league' = 2 => leagueticksleft' > 0 /\ played' + leagueticksleft' = Warmup
        /\ league' = 3 => leagueticksleft' > 0 /\ played' + leagueticksleft' = Regulation
    BY <2>1, LeagueAssumption DEF IInv, TypeOK, udtourny
  <2>3. leagueticksleft' \in 0 .. (IF Warmup > Regulation THEN Warmup ELSE Regulation)
    BY <2>2, LeagueAssumption
  <2>4. TypeOK'
    BY <1>1, <1>2, <1>3, <2>2, <2>3 DEF IInv, TypeOK
  <2>5. Opponents' /\ Tested' /\ Clock'
    BY <1>1, <2>1, <2>2 DEF IInv, TypeOK, Opponents, Tested, Clock
  <2> QED
    BY <2>2, <2>4, <2>5 DEF IInv
<1> QED
  BY <1>4, <1>5 DEF IInv, TypeOK, udtourny

LEMMA Inductive == SafeWindows /\ IInv /\ [Next]_vars => IInv'
<1> SUFFICES ASSUME SafeWindows, IInv, [Next]_vars PROVE IInv'
  OBVIOUS
<1>1. CASE Move
  BY <1>1, MoveStep
<1>2. ASSUME NEW t \in Sides, Claim(t) \/ Resign(t) \/ Quit(t) \/ Bust(t) PROVE IInv'
  BY <1>2, CaptainStep
<1>3. ASSUME NEW t \in Sides, Crash(t) PROVE IInv'
  BY <1>3, CrashStep
<1>4. ASSUME NEW t \in Sides, NEW i \in Empires, TestChoice(t, i) PROVE IInv'
  BY <1>4, TestChoiceStep
<1>5. ASSUME NEW t \in Sides, Choose(t) PROVE IInv'
  BY <1>5, ChooseStep
<1>6. ASSUME NEW t \in Sides, Pass(t) PROVE IInv'
  BY <1>6, PassStep
<1>7. ASSUME NEW t \in Sides, Draw(t) PROVE IInv'
  BY <1>7, DrawStep
<1>8. ASSUME NEW t \in Sides, Ready(t) \/ NotReady(t) PROVE IInv'
  BY <1>8, ReadyStep
<1>9. ASSUME NEW t \in Sides, LookAtOther(t) PROVE IInv'
  BY <1>9, LookStep
<1>10. ASSUME NEW t \in Sides, Begin(t) PROVE IInv'
  BY <1>10, BeginStep
<1>11. ASSUME NEW t \in Sides, SetClock(t) PROVE IInv'
  BY <1>11, SetClockStep
<1>12. ASSUME NEW t \in Sides, NEW b \in BOOLEAN, Restart(t, b) PROVE IInv'
  BY <1>12, RestartStep
<1>13. ASSUME NEW t \in Sides, Reset(t) PROVE IInv'
  BY <1>13, ResetStep
<1>14. ASSUME NEW t \in Sides, WishPause(t) \/ Pause(t) \/ Continue(t) PROVE IInv'
  BY <1>14, PauseStep
<1>15. CASE UNCHANGED vars
  <2> USE <1>15 DEF vars, match, sides, pausing
  <2>1. TypeOK'
    BY DEF IInv, TypeOK
  <2>2. Opponents' /\ Tested' /\ Clock' /\ played' \in Nat
    BY DEF IInv, Opponents, Tested, Clock
  <2> QED
    BY <2>1, <2>2 DEF IInv
<1> QED
  BY <1>1, <1>2, <1>3, <1>4, <1>5, <1>6, <1>7, <1>8, <1>9, <1>10, <1>11, <1>12,
     <1>13, <1>14, <1>15 DEF Next

-----------------------------------------------------------------------------
(* The results *)

(* The invariant holds whatever the captains do and however long they take. *)
THEOREM LeagueInvariant == SafeWindows /\ Spec => []IInv
<1> SUFFICES ASSUME SafeWindows PROVE Spec => []IInv
  OBVIOUS
<1>1. Init => IInv
  BY Initially
<1>2. IInv /\ [Next]_vars => IInv'
  BY Inductive
<1> QED
  BY <1>1, <1>2, PTL DEF Spec

(* Every field has its type, and only a captain is in a command.           *)
THEOREM LeagueTyped == SafeWindows /\ Spec => []TypeOK
<1>1. IInv => TypeOK
  BY DEF IInv
<1> QED
  BY <1>1, LeagueInvariant, PTL

(* The teams never have the same empire, and never play without one.       *)
THEOREM TeamsAreOpponents == SafeWindows /\ Spec => []Opponents
<1>1. IInv => Opponents
  BY DEF IInv
<1> QED
  BY <1>1, LeagueInvariant, PTL

(* Warm up and match have their full length in time that is not paused.    *)
LEMMA ClockStep ==
  ASSUME SafeWindows, IInv, Next, league' # league
  PROVE  \/ league = 1 /\ league' = 2
         \/ league = 2 /\ league' = 3 /\ played + 1 = Warmup
         \/ league = 3 /\ league' = 1 /\ played + 1 = Regulation
<1>1. Move \/ \E t \in Sides : Begin(t)
  BY DEF Next, match, sides, Claim, Resign, Quit, Bust, Appoint, Crash, TestChoice, Choose,
     Pass, Draw, Ready, NotReady, LookAtOther, SetClock, Restart, Reset, WishPause, Pause, Continue
<1>2. ASSUME NEW t \in Sides, Begin(t) PROVE league = 1 /\ league' = 2
  BY <1>2 DEF Begin, At, IInv, Tested
<1>3. CASE Move
  <2>1. /\ udtourny
        /\ league = 2 => leagueticksleft > 0 /\ played + leagueticksleft = Warmup
        /\ league = 3 => leagueticksleft > 0 /\ played + leagueticksleft = Regulation
    BY <1>3, NobodyTests DEF Move, match, IInv, Clock
  <2> QED
    BY <2>1, LeagueAssumption DEF udtourny, match, IInv, TypeOK
<1> QED
  BY <1>1, <1>2, <1>3

(* A period that nobody cuts short lasts as long as it was set to: captains*)
(* who come, go, pause and draw do not shorten a warm-up or a match.       *)
THEOREM PeriodsAreFull == SafeWindows /\ Spec => FullTime
<1> SUFFICES ASSUME SafeWindows PROVE Spec => FullTime
  OBVIOUS
<1>1. IInv /\ [Next]_vars =>
        [league' # league =>
          \/ league = 1 /\ league' = 2
          \/ league = 2 /\ league' = 3 /\ played + 1 = Warmup
          \/ league = 3 /\ league' = 1 /\ played + 1 = Regulation]_vars
  BY ClockStep
<1> QED
  BY <1>1, LeagueInvariant, PTL DEF Spec, FullTime

-----------------------------------------------------------------------------
(* Conquest.                                                               *)

USE ConquestAssumption

(* A count of planets is a number, at most that of all planets. *)
LEMMA CountType ==
  ASSUME NEW own, NEW t
  PROVE  /\ Cardinality(PlanetsOf(t, own)) \in 0 .. Cardinality(Planets)
         /\ Cardinality(Planets) \in Nat
<1>1. PlanetsOf(t, own) \subseteq Planets
  BY DEF PlanetsOf
<1>2. /\ Cardinality(PlanetsOf(t, own)) <= Cardinality(Planets)
      /\ IsFiniteSet(PlanetsOf(t, own))
  BY <1>1, FS_Subset
<1>3. Cardinality(PlanetsOf(t, own)) \in Nat /\ Cardinality(Planets) \in Nat
  BY <1>2, FS_CardinalityType
<1> QED
  BY <1>2, <1>3

(* Whoever is beaten, checkwin() leaves well-typed teams. *)
LEMMA CheckwinTyped ==
  ASSUME NEW own, own \in [Planets -> Teams \cup {Nobody}],
         NEW sur, sur \in [Teams -> -1 .. SurrLength],
         checkwin(own, sur)
  PROVE  /\ owner' \in [Planets -> Teams \cup {Nobody}]
         /\ plcount' \in [Teams -> 0 .. Cardinality(Planets)]
         /\ surrender' \in [Teams -> -1 .. SurrLength]
         /\ gameup' \in BOOLEAN
<1>1. owner' = own /\ plcount' = Counts(own)
  BY DEF checkwin
<1>2. Counts(own) \in [Teams -> 0 .. Cardinality(Planets)]
  BY CountType DEF Counts
<1>3. \A t \in Teams : checksurrender(t, Counts(own), sur[t]) \in -1 .. SurrLength
  <2> SUFFICES ASSUME NEW t \in Teams
               PROVE  checksurrender(t, Counts(own), sur[t]) \in -1 .. SurrLength
    OBVIOUS
  <2> DEFINE c == sur[t]
  <2>1. c \in -1 .. SurrLength /\ 0 \in -1 .. SurrLength /\ SurrLength \in -1 .. SurrLength
    OBVIOUS
  <2> QED
    BY <2>1, Zenon DEF checksurrender
<1>4. surrender' \in [Teams -> -1 .. SurrLength]
  <2>1. 0 \in -1 .. SurrLength
    OBVIOUS
  <2>2. surrender' = [t \in Teams |-> IF t \notin Rivals THEN sur[t]
                                     ELSE IF genocide(Counts(own)) THEN 0
                                     ELSE checksurrender(t, Counts(own), sur[t])]
    BY DEF checkwin
  <2>3. \A t \in Teams : (IF t \notin Rivals THEN sur[t]
                          ELSE IF genocide(Counts(own)) THEN 0
                          ELSE checksurrender(t, Counts(own), sur[t])) \in -1 .. SurrLength
    BY <2>1, <1>3
  <2> QED
    BY <2>2, <2>3
<1>5. gameup' \in BOOLEAN
  BY DEF checkwin
<1> QED
  BY <1>1, <1>2, <1>4, <1>5

-----------------------------------------------------------------------------
(* Types and garrisons *)

Held == ConquestTypeOK /\ Garrisoned

LEMMA LostHeld ==
  ASSUME Held, NEW p \in Planets, Lost(p)
  PROVE  /\ owner' = [owner EXCEPT ![p] = Nobody]
         /\ owner' \in [Planets -> Teams \cup {Nobody}]
         /\ plcount' \in [Teams -> 0 .. Cardinality(Planets)]
         /\ surrender' \in [Teams -> -1 .. SurrLength]
         /\ gameup' \in BOOLEAN
<1>1. checkwin([owner EXCEPT ![p] = Nobody], surrender)
  BY DEF Lost
<1>2. [owner EXCEPT ![p] = Nobody] \in [Planets -> Teams \cup {Nobody}]
  BY DEF Held, ConquestTypeOK
<1>3. surrender \in [Teams -> -1 .. SurrLength]
  BY DEF Held, ConquestTypeOK
<1>4. owner' = [owner EXCEPT ![p] = Nobody]
  BY <1>1 DEF checkwin
<1> QED
  BY <1>1, <1>2, <1>3, <1>4, CheckwinTyped

LEMMA BeamUpHeld ==
  ASSUME Held, NEW p \in Planets, BeamUp(p)
  PROVE  Held'
<1>1. armies[p] \in 1 .. MaxArmies /\ armies' = [armies EXCEPT ![p] = armies[p] - 1]
  BY DEF Held, ConquestTypeOK, BeamUp, HasArmies
<1>2. armies' \in [Planets -> 0 .. MaxArmies]
  BY <1>1 DEF Held, ConquestTypeOK
<1>3. UNCHANGED <<trevolt, ships, tourn, turn>>
  BY DEF BeamUp
<1>4. CASE armies[p] = 1
  <2>1. Lost(p)
    BY <1>4 DEF BeamUp
  <2> QED
    BY <1>1, <1>2, <1>3, <2>1, LostHeld DEF Held, ConquestTypeOK, Garrisoned
<1>5. CASE armies[p] # 1
  <2>1. UNCHANGED <<owner, teams, gameup>>
    BY <1>5 DEF BeamUp
  <2> QED
    BY <1>1, <1>2, <1>3, <1>5, <2>1 DEF Held, ConquestTypeOK, Garrisoned, teams
<1> QED
  BY <1>4, <1>5

(* The steps that change nothing but the number of armies, and leave some. *)
LEMMA ArmiesHeld ==
  ASSUME Held, NEW p \in Planets, NEW n \in 1 .. MaxArmies, HasArmies(p, n),
         UNCHANGED <<owner, trevolt, teams, gameup, ships, tourn, turn>>
  PROVE  Held'
<1>1. armies' = [armies EXCEPT ![p] = n]
  BY DEF HasArmies
<1> QED
  BY <1>1 DEF Held, ConquestTypeOK, Garrisoned, teams

LEMMA FightHeld ==
  ASSUME Held, NEW p \in Planets, NEW t \in Teams,
         Destroy(t, p) \/ Take(t, p)
  PROVE  Held'
<1>1. CASE Destroy(t, p)
  <2>1. /\ armies' = [armies EXCEPT ![p] = 0] /\ trevolt' = [trevolt EXCEPT ![p] = 0]
        /\ Lost(p) /\ UNCHANGED <<ships, tourn, turn>>
    BY <1>1 DEF Destroy, HasArmies
  <2> QED
    BY <2>1, LostHeld DEF Held, ConquestTypeOK, Garrisoned
<1>2. CASE Take(t, p)
  <2>1. /\ armies' = [armies EXCEPT ![p] = 1]
        /\ checkwin([owner EXCEPT ![p] = t], surrender)
        /\ UNCHANGED <<trevolt, ships, tourn, turn>>
    BY <1>2 DEF Take, HasArmies
  <2>2. /\ [owner EXCEPT ![p] = t] \in [Planets -> Teams \cup {Nobody}]
        /\ surrender \in [Teams -> -1 .. SurrLength]
    BY DEF Held, ConquestTypeOK
  <2>3. owner' = [owner EXCEPT ![p] = t]
    BY <2>1 DEF checkwin
  <2>4. /\ owner' \in [Planets -> Teams \cup {Nobody}]
        /\ plcount' \in [Teams -> 0 .. Cardinality(Planets)]
        /\ surrender' \in [Teams -> -1 .. SurrLength]
        /\ gameup' \in BOOLEAN
    BY <2>1, <2>2, CheckwinTyped
  <2> QED
    BY <2>1, <2>3, <2>4 DEF Held, ConquestTypeOK, Garrisoned
<1> QED
  BY <1>1, <1>2

LEMMA GrowHeld ==
  ASSUME Held, NEW p \in Planets, Grow(p)
  PROVE  Held'
<1>1. PICK n \in 0 .. MaxArmies :
        /\ armies' = [armies EXCEPT ![p] = n]
        /\ IF n = 0 THEN Lost(p) ELSE UNCHANGED <<owner, teams, gameup>>
        /\ UNCHANGED <<trevolt, ships, tourn, turn>>
  BY DEF Grow, HasArmies
<1>2. CASE n = 0
  <2>1. Lost(p)
    BY <1>1, <1>2
  <2> QED
    BY <1>1, <1>2, <2>1, LostHeld DEF Held, ConquestTypeOK, Garrisoned
<1>3. CASE n # 0
  <2>1. UNCHANGED <<owner, teams, gameup>>
    BY <1>1, <1>3
  <2> QED
    BY <1>1, <1>3, <2>1 DEF Held, ConquestTypeOK, Garrisoned, teams
<1> QED
  BY <1>2, <1>3

(* A successful revolution leaves an army behind, but no owner. *)
LEMMA RevoltHeld ==
  ASSUME Held, NEW p \in Planets, Unrest(p) \/ Revolt(p)
  PROVE  Held'
<1> DEFINE Timer(n) == trevolt' = [trevolt EXCEPT ![p] = n]
<1>1. CASE Unrest(p)
  <2>1. Timer(StartRev) /\ UNCHANGED <<owner, armies, teams, gameup, ships, tourn, turn>>
    BY <1>1 DEF Unrest
  <2> QED
    BY <2>1 DEF Held, ConquestTypeOK, Garrisoned, teams
<1>2. CASE Revolt(p)
  <2>0. UNCHANGED <<ships, tourn, turn>> /\ trevolt[p] \in 1 .. StartRev
    BY <1>2 DEF Revolt, Held, ConquestTypeOK
  <2>1. CASE Timer(trevolt[p] - 1) /\ UNCHANGED <<owner, armies, teams, gameup>>
    BY <2>0, <2>1 DEF Held, ConquestTypeOK, Garrisoned, teams
  <2>2. CASE Timer(StartRev) /\ HasArmies(p, 1) /\ UNCHANGED <<owner, teams, gameup>>
    BY <2>0, <2>2 DEF Held, ConquestTypeOK, Garrisoned, teams, HasArmies
  <2>3. CASE Timer(0) /\ Lost(p) /\ UNCHANGED armies
    <3>1. trevolt' \in [Planets -> 0 .. StartRev]
      BY <2>3 DEF Held, ConquestTypeOK
    <3> QED
      BY <2>0, <2>3, <3>1, LostHeld DEF Held, ConquestTypeOK, Garrisoned
  <2> QED
    BY <1>2, <2>1, <2>2, <2>3 DEF Revolt
<1> QED
  BY <1>1, <1>2

LEMMA SurrenderHeld ==
  ASSUME Held, udsurrend
  PROVE  Held'
<1> DEFINE t == turn
           own == [p \in Planets |-> IF owner[p] = t THEN Nobody ELSE owner[p]]
           sur == [surrender EXCEPT ![t] = -1]
<1>1. t \in Teams /\ turn' \in 0 .. NumTeams /\ UNCHANGED <<ships, tourn>>
  BY DEF udsurrend, NextTurn, Held, ConquestTypeOK, Teams
<1>2. CASE UNCHANGED <<planets, teams, gameup>>
  BY <1>1, <1>2 DEF Held, ConquestTypeOK, Garrisoned, planets, teams
<1>3. CASE /\ surrender[t] > 1
           /\ surrender' = [surrender EXCEPT ![t] = surrender[t] - 1]
           /\ UNCHANGED <<planets, plcount, gameup>>
  BY <1>1, <1>3 DEF Held, ConquestTypeOK, Garrisoned, planets
<1>4. CASE /\ armies' = [p \in Planets |-> IF owner[p] = t THEN 0 ELSE armies[p]]
           /\ checkwin(own, sur) /\ UNCHANGED trevolt
  <2>1. own \in [Planets -> Teams \cup {Nobody}] /\ sur \in [Teams -> -1 .. SurrLength]
    BY <1>1 DEF Held, ConquestTypeOK
  <2>2. owner' = own
    BY <1>4 DEF checkwin
  <2>3. /\ plcount' \in [Teams -> 0 .. Cardinality(Planets)]
        /\ surrender' \in [Teams -> -1 .. SurrLength] /\ gameup' \in BOOLEAN
    BY <1>4, <2>1, CheckwinTyped
  <2>4. armies' \in [Planets -> 0 .. MaxArmies]
    BY <1>4 DEF Held, ConquestTypeOK
  <2>5. Garrisoned'
    BY <1>4, <2>2 DEF Held, Garrisoned
  <2> QED
    BY <1>1, <1>4, <2>1, <2>2, <2>3, <2>4, <2>5 DEF Held, ConquestTypeOK
<1> QED
  BY <1>2, <1>3, <1>4 DEF udsurrend

LEMMA PlayersHeld ==
  ASSUME Held,
         \/ Minute \/ tournamentMode
         \/ \E t \in Teams : Join(t) \/ Leave(t)
  PROVE  Held'
<1>0. 1 \in 0 .. NumTeams
  OBVIOUS
<1>1. CASE Minute
  BY <1>0, <1>1 DEF Minute, Held, ConquestTypeOK, Garrisoned, planets, teams
<1>2. CASE tournamentMode
  BY <1>2 DEF tournamentMode, Held, ConquestTypeOK, Garrisoned, planets, teams
<1>3. ASSUME NEW t \in Teams, Join(t) \/ Leave(t)
      PROVE  Held'
  <2>1. ships[t] \in 0 .. MaxShips
    BY DEF Held, ConquestTypeOK
  <2>2. /\ ships' \in [Teams -> 0 .. MaxShips]
        /\ UNCHANGED <<planets, teams, tourn, gameup, turn>>
    BY <1>3, <2>1 DEF Join, Leave, Held, ConquestTypeOK
  <2> QED
    BY <2>2 DEF Held, ConquestTypeOK, Garrisoned, planets, teams
<1> QED
  BY <1>1, <1>2, <1>3

LEMMA NextHeld ==
  ASSUME Held, [ConquestNext]_conquestVars
  PROVE  Held'
<1>1. ASSUME NEW p \in Planets, Reinforce(p) \/ Bomb(p) \/ \E n \in 1 .. MaxArmies : ghostmess(p, n)
      PROVE  Held'
  <2>0. armies[p] \in 0 .. MaxArmies
    BY DEF Held, ConquestTypeOK
  <2>1. /\ \E n \in 1 .. MaxArmies : HasArmies(p, n)
        /\ UNCHANGED <<owner, trevolt, teams, gameup, ships, tourn, turn>>
    BY <1>1, <2>0 DEF Reinforce, Bomb, ghostmess
  <2> QED
    BY <2>1, ArmiesHeld
<1>2. ASSUME NEW p \in Planets, NEW t \in Teams, Assault(t, p)
      PROVE  Held'
  <2>1. armies[p] - 1 \in 1 .. MaxArmies
    BY <1>2 DEF Assault, Held, ConquestTypeOK
  <2> QED
    BY <1>2, <2>1, ArmiesHeld DEF Assault
<1>3. CASE UNCHANGED conquestVars
  BY <1>3 DEF conquestVars, Held, ConquestTypeOK, Garrisoned
<1> QED
  BY <1>1, <1>2, <1>3, BeamUpHeld, FightHeld, GrowHeld, RevoltHeld, SurrenderHeld,
     PlayersHeld DEF ConquestNext

LEMMA InitHeld == ConquestInit => Held
<1>1. 0 \in 0 .. MaxShips /\ 0 \in -1 .. SurrLength /\ 0 \in 0 .. StartRev /\ 0 \in 0 .. NumTeams
  OBVIOUS
<1>2. \A t \in Teams : 0 \in 0 .. Cardinality(Planets)
  BY CountType
<1> QED
  BY <1>1, <1>2 DEF ConquestInit, Held, ConquestTypeOK, Garrisoned

(* Planets and teams are well typed, whatever the daemon and the players   *)
(* do, in what order.                                                      *)
THEOREM ConquestTyped == ConquestSpec => []ConquestTypeOK
<1>1. Held => ConquestTypeOK
  BY DEF Held
<1> QED
  BY <1>1, InitHeld, NextHeld, PTL DEF ConquestSpec

(* No team owns a planet without an army: beamdown(), beammeupscotty(),     *)
(* pbomb(), the growth and revolt of planets and udsurrend() take armies   *)
(* and owner each in its own way, and agree on this.                       *)
THEOREM PlanetsGarrisoned == ConquestSpec => []Garrisoned
<1>1. Held => Garrisoned
  BY DEF Held
<1> QED
  BY <1>1, InitHeld, NextHeld, PTL DEF ConquestSpec

-----------------------------------------------------------------------------
(* A game of two teams *)

TwoTeams == NumTeams = 2 /\ SurrStart < SurrEnd

LEMMA BothAreRivals ==
  ASSUME TwoTeams, ships \in [Teams -> Nat]
  PROVE  Rivals = Teams /\ \A t \in Teams : 3 - t \in Teams \ {t}
<1>1. Teams = {1, 2}
  BY DEF TwoTeams, Teams
<1>2. \A t, u, v \in Teams : u # v => t = u \/ t = v
  BY <1>1
<1>3. \A t \in Teams : ~Larger(t, t)
  BY DEF Larger, Teams
<1>4. Rivals = Teams
  BY <1>2, <1>3 DEF Rivals
<1> QED
  BY <1>1, <1>4

(* What holds of the owners and the clocks when checkwin() lets the game go *)
(* on, if those who have surrendered have no planets.                      *)
LEMMA CheckwinDecides ==
  ASSUME TwoTeams, Held,
         NEW own, own \in [Planets -> Teams \cup {Nobody}],
         NEW sur, sur \in [Teams -> -1 .. SurrLength],
         \A t \in Teams : sur[t] = -1 => PlanetsOf(t, own) = {},
         checkwin(own, sur)
  PROVE  Undecided'
<1> DEFINE n == Counts(own)
<1>1. Rivals = Teams /\ \A t \in Teams : 3 - t \in Teams \ {t}
  BY BothAreRivals DEF Held, ConquestTypeOK
<1>2. owner' = own /\ gameup' = ~genocide(n)
  BY DEF checkwin
<1>3. \A t \in Teams : n[t] = Cardinality(PlanetsOf(t, own)) /\ n[t] \in Nat
  BY CountType DEF Counts
<1> SUFFICES ASSUME gameup', NEW t \in Teams
             PROVE  /\ n[t] > VictoryPlanets
                    /\ surrender'[t] # -1
                    /\ surrender'[t] > 0 => n[t] < SurrEnd /\ 2 * n[t] <= n[3 - t]
  BY <1>1, <1>2, <1>3 DEF Undecided, PlanetsOf
<1>4. ~genocide(n)
  BY <1>2
<1>5. n[t] > VictoryPlanets
  BY <1>1, <1>3, <1>4 DEF genocide
<1>6. sur[t] # -1
  <2> SUFFICES ASSUME PlanetsOf(t, own) = {}
               PROVE  FALSE
    OBVIOUS
  <2>1. n[t] = 0
    BY <1>3, FS_EmptySet
  <2> QED
    BY <1>5, <2>1
<1>7. surrender'[t] = checksurrender(t, n, sur[t])
  BY <1>1, <1>4 DEF checkwin
<1>8. CASE sur[t] > 0 /\ Sustained(t, n)
  BY <1>5, <1>7, <1>8 DEF checksurrender
<1>9. CASE sur[t] > 0 /\ ~Sustained(t, n)
  <2>1. n[t] < SurrEnd /\ 2 * n[t] <= n[3 - t]
    BY <1>1, <1>3, <1>9 DEF Sustained
  <2>2. surrender'[t] = sur[t]
    BY <1>7, <1>9 DEF checksurrender
  <2> QED
    BY <1>5, <1>9, <2>1, <2>2
<1>10. CASE sur[t] = 0 /\ Endangered(t, n)
  <2>1. n[t] <= SurrStart /\ 2 * n[t] <= n[3 - t]
    BY <1>1, <1>10 DEF Endangered
  <2>2. surrender'[t] = SurrLength
    BY <1>7, <1>10 DEF checksurrender
  <2> QED
    BY <1>3, <1>5, <2>1, <2>2 DEF TwoTeams
<1>11. CASE sur[t] = 0 /\ ~Endangered(t, n)
  <2>1. surrender'[t] = 0
    BY <1>7, <1>11 DEF checksurrender
  <2> QED
    BY <1>5, <2>1
<1>12. sur[t] > 0 \/ sur[t] = 0
  BY <1>6
<1> QED
  BY <1>8, <1>9, <1>10, <1>11, <1>12

Steady == UNCHANGED <<owner, surrender, gameup>>

LEMMA SteadyUndecided ==
  ASSUME Undecided, Steady
  PROVE  Undecided'
BY DEF Undecided, Steady, PlanetsOf

LEMMA LostUndecided ==
  ASSUME TwoTeams, Held, Undecided, gameup, NEW p \in Planets, Lost(p)
  PROVE  Undecided'
<1>1. \A t \in Teams : surrender[t] # -1
  BY DEF TwoTeams, Undecided
<1>2. surrender \in [Teams -> -1 .. SurrLength]
  BY DEF Held, ConquestTypeOK
<1>3. [owner EXCEPT ![p] = Nobody] \in [Planets -> Teams \cup {Nobody}]
  BY DEF Held, ConquestTypeOK
<1>4. checkwin([owner EXCEPT ![p] = Nobody], surrender)
  BY DEF Lost
<1> QED
  BY <1>1, <1>2, <1>3, <1>4, CheckwinDecides

LEMMA TakeUndecided ==
  ASSUME TwoTeams, Held, Undecided, NEW t \in Teams, NEW p \in Planets, Take(t, p)
  PROVE  Undecided'
<1>1. \A u \in Teams : surrender[u] # -1
  BY DEF TwoTeams, Undecided, Take, Lands, Daemon
<1>2. surrender \in [Teams -> -1 .. SurrLength]
  BY DEF Held, ConquestTypeOK
<1>3. [owner EXCEPT ![p] = t] \in [Planets -> Teams \cup {Nobody}]
  BY DEF Held, ConquestTypeOK
<1>4. checkwin([owner EXCEPT ![p] = t], surrender)
  BY DEF Take
<1> QED
  BY <1>1, <1>2, <1>3, <1>4, CheckwinDecides

LEMMA SurrenderUndecided ==
  ASSUME TwoTeams, Held, Undecided, udsurrend
  PROVE  Undecided'
<1> DEFINE own == [p \in Planets |-> IF owner[p] = turn THEN Nobody ELSE owner[p]]
           sur == [surrender EXCEPT ![turn] = -1]
<1>1. turn \in Teams /\ gameup
  BY DEF udsurrend, Held, ConquestTypeOK, Teams
<1>2. CASE UNCHANGED <<planets, teams, gameup>>
  BY <1>2, SteadyUndecided DEF Steady, planets, teams
<1>3. CASE /\ surrender[turn] > 1
           /\ surrender' = [surrender EXCEPT ![turn] = surrender[turn] - 1]
           /\ UNCHANGED <<planets, plcount, gameup>>
  <2>1. owner' = owner /\ gameup' = gameup
    BY <1>3 DEF planets
  <2>2. \A t \in Teams : /\ surrender[t] # -1 => surrender'[t] # -1
                         /\ surrender'[t] > 0 => surrender[t] > 0
    BY <1>1, <1>3 DEF Held, ConquestTypeOK
  <2> QED
    BY <1>1, <2>1, <2>2 DEF Undecided, PlanetsOf
<1>4. CASE checkwin(own, sur)
  <2>1. own \in [Planets -> Teams \cup {Nobody}] /\ sur \in [Teams -> -1 .. SurrLength]
    BY <1>1 DEF Held, ConquestTypeOK
  <2>2. \A t \in Teams : surrender[t] # -1
    BY <1>1 DEF TwoTeams, Undecided
  <2>3. \A t \in Teams : sur[t] = -1 => t = turn
    BY <1>1, <2>2 DEF Held, ConquestTypeOK
  <2>4. PlanetsOf(turn, own) = {}
    BY <1>1 DEF PlanetsOf, Teams, Nobody
  <2> QED
    BY <1>4, <2>1, <2>3, <2>4, CheckwinDecides
<1> QED
  BY <1>2, <1>3, <1>4 DEF udsurrend

LEMMA NextUndecided ==
  ASSUME TwoTeams, Held, Undecided, [ConquestNext]_conquestVars
  PROVE  Undecided'
<1>1. ASSUME NEW p \in Planets,
             BeamUp(p) \/ Grow(p) \/ Revolt(p) \/ \E t \in Teams : Destroy(t, p)
      PROVE  Undecided'
  <2>1. gameup /\ (Lost(p) \/ Steady)
    BY <1>1, Zenon DEF BeamUp, Grow, Revolt, MayRevolt, Destroy, Lands, Daemon, Steady, teams
  <2> QED
    BY <2>1, LostUndecided, SteadyUndecided
<1>2. ASSUME NEW p \in Planets,
             \/ Reinforce(p) \/ Bomb(p) \/ Unrest(p)
             \/ \E n \in 1 .. MaxArmies : ghostmess(p, n)
             \/ \E t \in Teams : Assault(t, p)
      PROVE  Undecided'
  <2>1. Steady
    BY <1>2 DEF Reinforce, Bomb, Unrest, ghostmess, Assault, Steady, teams
  <2> QED
    BY <2>1, SteadyUndecided
<1>3. ASSUME \/ Minute \/ tournamentMode
             \/ \E t \in Teams : Join(t) \/ Leave(t)
             \/ UNCHANGED conquestVars
      PROVE  Undecided'
  <2>1. Steady
    BY <1>3 DEF Minute, tournamentMode, Join, Leave, conquestVars, Steady, planets, teams
  <2> QED
    BY <2>1, SteadyUndecided
<1> QED
  BY <1>1, <1>2, <1>3, TakeUndecided, SurrenderUndecided DEF ConquestNext

(* With two teams, whose surrender starts with fewer planets than it ends  *)
(* with, the game is over in the very step that beats one of them or ends  *)
(* its surrender: no path of the daemon changes an owner without           *)
(* checkwin(), and checkwin() looks at both teams.                         *)
THEOREM GameEndsInTime ==
  ASSUME TwoTeams
  PROVE  ConquestSpec => []Undecided
<1>1. ConquestInit => Undecided
  BY CountType DEF TwoTeams, ConquestInit, Undecided
<1>2. Held /\ Undecided /\ [ConquestNext]_conquestVars => Undecided'
  BY NextUndecided
<1>3. ConquestInit => Held
  BY InitHeld
<1>4. Held /\ [ConquestNext]_conquestVars => Held'
  BY NextHeld
<1> QED
  BY <1>1, <1>2, <1>3, <1>4, PTL DEF ConquestSpec
=============================================================================
