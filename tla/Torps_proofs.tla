---------------------------- MODULE Torps_proofs ----------------------------
(***************************************************************************)
(* Proofs about Torps, for every number of players and tubes, when the     *)
(* updates of different processes do not interleave.                       *)
(***************************************************************************)
EXTENDS Torps, FiniteSetTheorems, WellFoundedInduction, TLAPS

-----------------------------------------------------------------------------
(* Numbers. *)

(* A nonempty set of tubes has a lowest one. *)
LEMMA LowestNumber ==
  ASSUME NEW S, S \subseteq Nat, S # {}
  PROVE  \E i \in S : \A j \in S : i <= j
<1> DEFINE R == {ss \in Nat \X Nat : ss[1] < ss[2]}
<1>1. IsWellFoundedOn(R, Nat)
  BY NatLessThanWellFounded DEF OpToRel
<1>2. PICK i \in S : \A j \in S : ~ (<<j, i>> \in R)
  BY <1>1, WFMin, Zenon
<1>3. ASSUME NEW j \in S, j < i
      PROVE  FALSE
  <2>1. <<j, i>> \in Nat \X Nat
    OBVIOUS
  <2>2. <<j, i>>[1] < <<j, i>>[2]
    BY <1>3
  <2> QED BY <1>2, <2>1, <2>2, Zenon
<1> QED BY <1>3

(* Blocks of M numbers do not overlap. *)
LEMMA BlocksApart ==
  ASSUME NEW a \in Int, NEW b \in Int, a < b, NEW M \in Nat
  PROVE  a * M + M <= b * M
<1>1. (b - a - 1) * M >= 0
  OBVIOUS
<1>2. b * M = a * M + M + (b - a - 1) * M
  OBVIOUS
<1> QED BY <1>1, <1>2

-----------------------------------------------------------------------------
(* Blocks and torpedoes in flight. *)

LEMMA BlockFacts ==
  ASSUME NEW p \in Players
  PROVE  /\ Block(p) \subseteq Tubes /\ Block(p) \subseteq Nat
         /\ IsFiniteSet(Block(p)) /\ Cardinality(Block(p)) = MaxTorp
<1> USE TorpsAssumption
<1> DEFINE a == p * MaxTorp
<1>1. a \in Nat /\ p \in Int /\ p < NumPlayers
  BY DEF Players
<1>2. a + MaxTorp <= NumPlayers * MaxTorp
  BY <1>1, BlocksApart
<1>3. Block(p) = a .. a + MaxTorp - 1
  BY DEF Block
<1>4. NumPlayers * MaxTorp \in Nat
  OBVIOUS
<1> HIDE DEF a
<1>5. IsFiniteSet(Block(p)) /\ Cardinality(Block(p)) = MaxTorp
  <2>1. a \in Int /\ a + MaxTorp - 1 \in Int /\ ~ (a > a + MaxTorp - 1)
    BY <1>1
  <2>2. (a + MaxTorp - 1) - a + 1 = MaxTorp
    BY <1>1
  <2> QED BY <1>3, <2>1, <2>2, FS_Interval
<1>6. Block(p) \subseteq Tubes /\ Block(p) \subseteq Nat
  <2> DEFINE n == NumPlayers * MaxTorp
  <2>1. n \in Nat /\ a + MaxTorp <= n
    BY <1>2, <1>4
  <2>2. Tubes = 0 .. n - 1
    BY DEF Tubes
  <2> HIDE DEF n
  <2> QED BY <1>1, <1>3, <2>1, <2>2
<1> QED BY <1>5, <1>6

LEMMA BlocksDisjoint ==
  ASSUME NEW p \in Players, NEW q \in Players, NEW t \in Block(p), t \in Block(q)
  PROVE  p = q
<1> USE TorpsAssumption
<1> DEFINE a == p * MaxTorp
           b == q * MaxTorp
<1>1. p \in Int /\ q \in Int /\ a \in Int /\ b \in Int /\ t \in Int
  BY DEF Players, Block
<1>2. t \in a .. a + MaxTorp - 1 /\ t \in b .. b + MaxTorp - 1
  BY DEF Block
<1>3. /\ p < q => a + MaxTorp <= b
      /\ q < p => b + MaxTorp <= a
  BY <1>1, BlocksApart
<1> HIDE DEF a, b
<1> QED BY <1>1, <1>2, <1>3

LEMMA FlyingFinite ==
  ASSUME NEW p
  PROVE  /\ Flying(p) \subseteq Tubes
         /\ IsFiniteSet(Flying(p)) /\ Cardinality(Flying(p)) \in Nat
<1>1. IsFiniteSet(Tubes)
  BY TorpsAssumption, FS_Interval DEF Tubes
<1>2. Flying(p) \in SUBSET Tubes
  BY DEF Flying
<1> QED BY <1>1, <1>2, FS_Subset, FS_CardinalityType

(* Torpedoes that fly in the block of their owner are no more than tubes. *)
Homed == \A t \in Tubes : torp[t].status # "TFREE" => t \in Block(torp[t].owner)

LEMMA FlyingInBlock ==
  ASSUME Homed, NEW p \in Players
  PROVE  Flying(p) \subseteq Block(p) /\ Cardinality(Flying(p)) <= MaxTorp
<1>1. Flying(p) \in SUBSET Block(p)
  BY DEF Flying, Homed
<1> QED BY <1>1, BlockFacts, FS_Subset

(* A player with less than MaxTorp torpedoes in flight has a free tube, and*)
(* ntorp() finds it.                                                       *)
LEMMA FreeTube ==
  ASSUME TypeOK, Homed, NEW p \in Players, Cardinality(Flying(p)) < MaxTorp
  PROVE  TubeFor(p) \in Block(p) /\ torp[TubeFor(p)].status = "TFREE"
<1> DEFINE Free == {t \in Block(p) : torp[t].status = "TFREE"}
<1>1. Free # {}
  <2> SUFFICES ASSUME Free = {} PROVE FALSE
    OBVIOUS
  <2>1. \A t \in Block(p) : t \in Flying(p)
    <3> SUFFICES ASSUME NEW t \in Block(p) PROVE t \in Flying(p)
      OBVIOUS
    <3>1. t \in Tubes /\ torp[t].status # "TFREE"
      BY BlockFacts
    <3>2. torp[t].owner \in Players /\ t \in Block(torp[t].owner)
      BY <3>1 DEF Homed, TypeOK
    <3>3. torp[t].owner = p
      BY <3>2, BlocksDisjoint
    <3> QED BY <3>1, <3>3 DEF Flying
  <2>2. Flying(p) = Block(p)
    BY <2>1, FlyingInBlock
  <2> QED BY <2>2, BlockFacts, TorpsAssumption
<1>2. \E t \in Free : \A u \in Free : t <= u
  BY <1>1, BlockFacts, LowestNumber
<1>3. TubeFor(p) = CHOOSE t \in Free : \A u \in Free : t <= u
  BY <1>1 DEF TubeFor
<1>4. TubeFor(p) \in Free
  BY <1>2, <1>3
<1> QED BY <1>4

-----------------------------------------------------------------------------
(* CountInv holds initially and every step keeps it.                       *)

LEMMA NobodyBusy ==
  ASSUME Settled
  PROVE  /\ \A p \in Players : ~Busy(p) /\ fire[p] = Nothing /\ mark[p] = Nothing
         /\ \A p \in Players : Owed(p) = 0
         /\ off = Nothing
BY DEF Settled, Busy, Owed

LEMMA CountInit == Init => CountInv
<1> SUFFICES ASSUME Init PROVE CountInv
  OBVIOUS
<1> USE TorpsAssumption DEF Init
<1>1. TypeOK
  <2>1. 0 \in Players
    BY DEF Players
  <2> QED BY <2>1 DEF TypeOK
<1>2. OneUpdate
  BY DEF OneUpdate, Busy
<1>3. \A p \in Players : Flying(p) = {}
  BY DEF Flying
<1>4. \A p \in Players : ntorp[p] = Cardinality(Flying(p)) + Owed(p)
  <2>1. \A p \in Players : ntorp[p] = 0 /\ Owed(p) = 0
    BY DEF Owed
  <2>2. Cardinality({}) = 0
    BY FS_EmptySet
  <2> HIDE DEF Init
  <2> QED BY <1>3, <2>1, <2>2
<1>5. \A p \in Players :
        fire[p] = Nothing /\ mark[p] = Nothing /\ pstatus[p] # "POUTFIT"
  OBVIOUS
<1>6. off = Nothing /\ \A t \in Tubes : torp[t].status = "TFREE"
  OBVIOUS
<1> HIDE DEF Init
<1> QED BY <1>1, <1>2, <1>4, <1>5, <1>6 DEF CountInv

(* A change of p_status alone: who comes to the outfit screen is new or has*)
(* no torpedoes; a player who leaves may have some.                        *)
LEMMA StatusStep ==
  ASSUME CountInv, Settled, NEW p \in Players,
         NEW to \in {"PFREE", "POUTFIT", "PALIVE", "PEXPLODE", "PDEAD"},
         pstatus' = [pstatus EXCEPT ![p] = to],
         UNCHANGED <<ntorp, torp, updates, carrier>>,
         newcomers' \subseteq Players,
         \A q \in Players \ {p} : q \in newcomers => q \in newcomers',
         to = "POUTFIT" => p \in newcomers' \/ Flying(p) = {}
  PROVE  CountInv'
<1> USE DEF updates, carrier
<1>1. TypeOK'
  BY DEF CountInv, TypeOK
<1>2. OneUpdate'
  BY DEF CountInv, OneUpdate, Busy
<1>3. /\ \A q \in Players : Flying(q)' = Flying(q) /\ Owed(q)' = Owed(q)
      /\ \A q \in Players : fire'[q] = Nothing
  BY NobodyBusy DEF Flying, Owed
<1>4. ASSUME NEW q \in Players, pstatus'[q] = "POUTFIT"
      PROVE  q \in newcomers' \/ Flying(q)' = {}
  <2>1. CASE q = p
    BY <1>3, <1>4, <2>1 DEF CountInv, TypeOK
  <2>2. CASE q # p
    <3>1. pstatus[q] = "POUTFIT"
      BY <1>4, <2>2 DEF CountInv, TypeOK
    <3> QED BY <1>3, <2>2, <3>1 DEF CountInv
  <2> QED BY <2>1, <2>2
<1>5. \A q \in Players : ntorp'[q] = Cardinality(Flying(q)') + Owed(q)'
  BY <1>3 DEF CountInv
<1> QED BY <1>1, <1>2, <1>3, <1>4, <1>5 DEF CountInv

(* A step of one torpedo between two states of flight. *)
LEMMA FlightStep ==
  ASSUME CountInv, NEW t \in Tubes, torp[t].status # "TFREE",
         NEW new \in {"TDET", "TOFF", "TEXPLODE"},
         torp' = [torp EXCEPT ![t].status = new],
         UNCHANGED <<pstatus, newcomers, ntorp, fire, off, carrier>>,
         mark' \in [Players -> {Nothing}]
  PROVE  CountInv'
<1> USE DEF carrier
<1>1. TypeOK'
  BY DEF CountInv, TypeOK
<1>2. OneUpdate'
  BY DEF CountInv, OneUpdate, Busy
<1>3. \A u \in Tubes : /\ torp'[u].owner = torp[u].owner
                       /\ torp'[u].status = "TFREE" <=> torp[u].status = "TFREE"
  BY DEF CountInv, TypeOK
<1>4. \A q \in Players : Flying(q)' = Flying(q) /\ Owed(q)' = Owed(q)
  BY <1>3 DEF Flying, Owed
<1>5. \A u \in Tubes : torp'[u].status # "TFREE" => u \in Block(torp'[u].owner)
  BY <1>3 DEF CountInv
<1>6. \A q \in Players : ntorp'[q] = Cardinality(Flying(q)') + Owed(q)'
  BY <1>4 DEF CountInv
<1>7. \A q \in Players :
        /\ pstatus'[q] \in {"PFREE", "POUTFIT"} => fire'[q] = Nothing
        /\ pstatus'[q] = "POUTFIT" => q \in newcomers' \/ Flying(q)' = {}
  BY <1>4 DEF CountInv
<1> QED BY <1>1, <1>2, <1>5, <1>6, <1>7 DEF CountInv

(* ntorp() that has loaded the counter fires into a free tube of its block.*)
LEMMA LaunchFinds ==
  ASSUME CountInv, NEW p \in Players, fire[p] # Nothing
  PROVE  /\ TubeFor(p) \in Block(p) /\ TubeFor(p) \in Tubes
         /\ torp[TubeFor(p)].status = "TFREE"
         /\ Owed(p) = 0 /\ ntorp[p] = Cardinality(Flying(p))
         /\ ntorp[p] \in 0 .. MaxTorp - 1
<1>1. Busy(p) /\ off = Nothing
  BY DEF CountInv, OneUpdate, Busy
<1>2. Owed(p) = 0
  BY <1>1 DEF Owed
<1>3. ntorp[p] \in 0 .. MaxTorp - 1 /\ ntorp[p] = Cardinality(Flying(p)) + Owed(p)
  BY DEF CountInv, TypeOK
<1>4. ntorp[p] = Cardinality(Flying(p)) /\ Cardinality(Flying(p)) < MaxTorp
  BY <1>2, <1>3, FlyingFinite, TorpsAssumption
<1>5. Homed /\ TypeOK
  BY DEF Homed, CountInv
<1> QED BY <1>2, <1>3, <1>4, <1>5, FreeTube, BlockFacts

LEMMA LaunchStep ==
  ASSUME CountInv, NEW p \in Players, Launch(p)
  PROVE  CountInv'
<1> DEFINE new == TubeFor(p)
<1> USE DEF Launch, carrier
<1>1. /\ new \in Block(p) /\ new \in Tubes /\ torp[new].status = "TFREE"
      /\ ntorp[p] = Cardinality(Flying(p)) /\ ntorp[p] \in 0 .. MaxTorp - 1
      /\ Owed(p) = 0 /\ fire[p] = ntorp[p]
  BY LaunchFinds DEF CountInv
<1>2. /\ torp' = [torp EXCEPT ![new] = [status |-> "TMOVE", owner |-> p]]
      /\ ntorp' = [ntorp EXCEPT ![p] = fire[p] + 1]
      /\ fire' = [fire EXCEPT ![p] = Nothing]
      /\ UNCHANGED <<pstatus, newcomers, mark, off, carrier>>
  OBVIOUS
<1> HIDE DEF new, Launch
<1>3. TypeOK'
  BY <1>1, <1>2, TorpsAssumption DEF CountInv, TypeOK
<1>4. OneUpdate'
  BY <1>2 DEF CountInv, TypeOK, OneUpdate, Busy
<1>5. /\ torp'[new] = [status |-> "TMOVE", owner |-> p]
      /\ \A u \in Tubes \ {new} : torp'[u] = torp[u]
  BY <1>1, <1>2 DEF CountInv, TypeOK
<1>6. Flying(p)' = Flying(p) \cup {new} /\ new \notin Flying(p)
  BY <1>1, <1>5 DEF Flying
<1>7. \A q \in Players \ {p} : Flying(q)' = Flying(q)
  BY <1>1, <1>5 DEF Flying
<1>8. \A q \in Players : Owed(q)' = Owed(q)
  BY <1>2 DEF Owed
<1>9. Cardinality(Flying(p)') = Cardinality(Flying(p)) + 1
  BY <1>6, FlyingFinite, FS_AddElement
<1>10. ASSUME NEW q \in Players
       PROVE  ntorp'[q] = Cardinality(Flying(q)') + Owed(q)'
  <2>1. CASE q = p
    BY <2>1, <1>1, <1>2, <1>8, <1>9, FlyingFinite DEF CountInv, TypeOK
  <2>2. CASE q # p
    BY <2>2, <1>2, <1>7, <1>8 DEF CountInv, TypeOK
  <2> QED BY <2>1, <2>2
<1>11. ASSUME NEW q \in Players
       PROVE  /\ fire'[q] # Nothing => fire'[q] = ntorp'[q]
              /\ mark'[q] # Nothing => torp'[mark'[q][1]].status # "TFREE"
  <2>1. q # p => fire'[q] = fire[q] /\ ntorp'[q] = ntorp[q]
    BY <1>2 DEF CountInv, TypeOK
  <2>2. fire'[p] = Nothing
    BY <1>2 DEF CountInv, TypeOK
  <2>3. mark'[q] # Nothing => mark[q][1] \in Tubes /\ torp[mark[q][1]].status # "TFREE"
    BY <1>2 DEF CountInv, TypeOK
  <2>4. mark'[q] # Nothing => torp'[mark'[q][1]].status # "TFREE"
    BY <2>3, <1>1, <1>2, <1>5
  <2> QED BY <2>1, <2>2, <2>4 DEF CountInv
<1>12. ASSUME NEW q \in Players, pstatus'[q] \in {"PFREE", "POUTFIT"}
       PROVE  /\ fire'[q] = Nothing
              /\ pstatus'[q] = "POUTFIT" => q \in newcomers' \/ Flying(q)' = {}
  <2>1. q # p
    BY <1>2, <1>12 DEF CountInv, Launch
  <2>2. Flying(q)' = Flying(q) /\ fire'[q] = fire[q]
    BY <2>1, <1>2, <1>7 DEF CountInv, TypeOK
  <2> QED BY <2>2, <1>2, <1>12 DEF CountInv
<1>13. \A u \in Tubes : torp'[u].status # "TFREE" => u \in Block(torp'[u].owner)
  BY <1>1, <1>5 DEF CountInv
<1>14. off' # Nothing => off'[2] = ntorp'[off'[1]]
  <2>1. off = Nothing
    BY DEF CountInv, OneUpdate, Busy, Launch
  <2> QED BY <2>1, <1>2
<1> QED BY <1>3, <1>4, <1>10, <1>11, <1>12, <1>13, <1>14 DEF CountInv

LEMMA EndStep ==
  ASSUME CountInv, ~Preempt, NEW t \in Tubes, End(t),
         NEW o, o = torp[t].owner
  PROVE  CountInv'
<1> USE DEF carrier
<1>1. Settled
  BY DEF End, Daemon
<1>2. o \in Players /\ t \in Flying(o)
  BY DEF End, CountInv, TypeOK, Flying
<1>3. ntorp[o] = Cardinality(Flying(o)) /\ ntorp[o] \in 1 .. MaxTorp
  <2>1. Cardinality(Flying(o)) # 0
    BY <1>2, FlyingFinite, FS_EmptySet
  <2>2. ntorp[o] = Cardinality(Flying(o)) + 0 /\ ntorp[o] \in 0 .. MaxTorp
    BY <1>1, <1>2, NobodyBusy DEF CountInv, TypeOK
  <2> QED BY <2>1, <2>2, FlyingFinite, TorpsAssumption
<1>4. /\ torp' = [torp EXCEPT ![t].status = "TFREE"]
      /\ off' = <<o, ntorp[o]>>
      /\ UNCHANGED <<pstatus, newcomers, ntorp, fire, mark, carrier>>
  BY DEF End
<1>5. /\ torp'[t].status = "TFREE"
      /\ \A u \in Tubes \ {t} : torp'[u] = torp[u]
  BY <1>4 DEF CountInv, TypeOK
<1>6. off' # Nothing
  <2>1. <<o, ntorp[o]>> \in Players \X Nat
    BY <1>2, <1>3
  <2> QED BY <2>1, <1>4, TorpsAssumption
<1>7. TypeOK'
  BY <1>2, <1>3, <1>4 DEF CountInv, TypeOK
<1>8. OneUpdate'
  BY <1>1, <1>4, NobodyBusy DEF CountInv, OneUpdate, Busy
<1>9. Flying(o)' = Flying(o) \ {t}
  BY <1>5 DEF Flying
<1>10. \A q \in Players \ {o} : Flying(q)' = Flying(q)
  BY <1>5 DEF Flying
<1>11. Cardinality(Flying(o)') = Cardinality(Flying(o)) - 1
  BY <1>2, <1>9, FlyingFinite, FS_RemoveElement
<1>12. ASSUME NEW q \in Players
       PROVE  ntorp'[q] = Cardinality(Flying(q)') + Owed(q)'
  <2>1. CASE q = o
    <3>1. Owed(q)' = 1
      BY <2>1, <1>4, <1>6 DEF Owed
    <3> QED BY <2>1, <3>1, <1>3, <1>4, <1>11, FlyingFinite
  <2>2. CASE q # o
    <3>1. Owed(q)' = 0 /\ Owed(q) = 0
      BY <2>2, <1>1, <1>4, NobodyBusy DEF Owed
    <3>2. Flying(q)' = Flying(q)
      BY <2>2, <1>10
    <3> QED BY <3>1, <3>2, <1>4 DEF CountInv
  <2> QED BY <2>1, <2>2
<1>13. ASSUME NEW q \in Players
       PROVE  /\ fire'[q] = Nothing /\ mark'[q] = Nothing
              /\ pstatus'[q] = "POUTFIT" => q \in newcomers' \/ Flying(q)' = {}
  <2>1. Flying(q)' \subseteq Flying(q)
    BY <1>9, <1>10
  <2> QED BY <2>1, <1>1, <1>4, NobodyBusy DEF CountInv
<1>14. \A u \in Tubes : torp'[u].status # "TFREE" => u \in Block(torp'[u].owner)
  BY <1>5 DEF CountInv
<1>15. off'[2] = ntorp'[off'[1]]
  BY <1>4
<1> QED BY <1>7, <1>8, <1>12, <1>13, <1>14, <1>15 DEF CountInv

LEMMA CountOffStep ==
  ASSUME CountInv, CountOff
  PROVE  CountInv'
<1> DEFINE o == off[1]
<1> USE DEF carrier
<1>1. /\ off # Nothing /\ off \in Players \X (1 .. MaxTorp)
      /\ o \in Players /\ off[2] = ntorp[o] /\ ntorp[o] \in 1 .. MaxTorp
  BY DEF CountOff, CountInv, TypeOK
<1>2. /\ ntorp' = [ntorp EXCEPT ![o] = ntorp[o] - 1]
      /\ off' = Nothing
      /\ UNCHANGED <<pstatus, newcomers, torp, fire, mark, carrier>>
  BY <1>1 DEF CountOff
<1>3. \A p \in Players : ~Busy(p)
  BY <1>1 DEF CountInv, OneUpdate
<1>4. \A q \in Players : /\ Flying(q)' = Flying(q) /\ Owed(q)' = 0
                         /\ Owed(q) = IF q = o THEN 1 ELSE 0
  BY <1>1, <1>2 DEF Flying, Owed
<1> HIDE DEF o
<1>5. TypeOK'
  BY <1>1, <1>2, TorpsAssumption DEF CountInv, TypeOK
<1>6. OneUpdate'
  BY <1>2, <1>3 DEF OneUpdate, Busy
<1>7. ASSUME NEW q \in Players
      PROVE  ntorp'[q] = Cardinality(Flying(q)') + Owed(q)'
  <2>1. ntorp'[q] = IF q = o THEN ntorp[o] - 1 ELSE ntorp[q]
    BY <1>2 DEF CountInv, TypeOK
  <2>2. ntorp[q] = Cardinality(Flying(q)) + Owed(q)
    BY DEF CountInv
  <2> QED BY <2>1, <2>2, <1>4, FlyingFinite
<1>8. \A q \in Players : fire'[q] = Nothing /\ mark'[q] = Nothing
  BY <1>2, <1>3 DEF Busy
<1>9. /\ \A q \in Players :
           pstatus'[q] = "POUTFIT" => q \in newcomers' \/ Flying(q)' = {}
      /\ \A u \in Tubes : torp'[u].status # "TFREE" => u \in Block(torp'[u].owner)
  BY <1>2, <1>4 DEF CountInv
<1> QED BY <1>2, <1>5, <1>6, <1>7, <1>8, <1>9 DEF CountInv

(* Every step keeps CountInv when updates do not interleave. *)
LEMMA CountStep ==
  ASSUME ~Preempt, ~Quick, CountInv, [Next]_vars
  PROVE  CountInv'
<1>1. ASSUME NEW p \in Players, NEW from, NEW to, Becomes(p, from, to),
             to \in {"PFREE", "POUTFIT", "PALIVE", "PEXPLODE", "PDEAD"},
             newcomers' \subseteq Players,
             \A q \in Players \ {p} : q \in newcomers => q \in newcomers',
             to = "POUTFIT" => p \in newcomers' \/ Flying(p) = {},
             UNCHANGED ntorp
      PROVE  CountInv'
  BY <1>1, StatusStep DEF Becomes, Ntserv
<1>2. ASSUME NEW p \in Players, NEW from, NEW to, DaemonSays(p, from, to),
             to \in {"PFREE", "POUTFIT", "PALIVE", "PEXPLODE", "PDEAD"},
             to = "POUTFIT" => Flying(p) = {}
      PROVE  CountInv'
  <2>1. UNCHANGED newcomers /\ newcomers \subseteq Players
    BY <1>2 DEF DaemonSays, CountInv, TypeOK
  <2> QED BY <1>2, <2>1, StatusStep DEF DaemonSays, Daemon
<1>3. ASSUME NEW p \in Players, Join(p)
      PROVE  CountInv'
  <2>1. /\ Becomes(p, {"PFREE"}, "POUTFIT") /\ UNCHANGED ntorp
        /\ newcomers' = newcomers \cup {p} /\ newcomers \subseteq Players
    BY <1>3 DEF Join, CountInv, TypeOK
  <2> QED BY <2>1, <1>1
<1>4. ASSUME NEW p \in Players, Exit(p)
      PROVE  CountInv'
  <2>1. Settled
    BY <1>4 DEF Exit
  <2>2. fire' = fire /\ mark' = mark
    BY <1>4, <2>1, NobodyBusy DEF Exit, CountInv, TypeOK
  <2>3. /\ pstatus' = [pstatus EXCEPT ![p] = "PFREE"]
        /\ UNCHANGED <<ntorp, torp, updates, carrier>>
        /\ newcomers' = newcomers \ {p} /\ newcomers \subseteq Players
    BY <1>4, <2>2 DEF Exit, updates, CountInv, TypeOK
  <2> QED BY <2>1, <2>3, StatusStep
<1>5. ASSUME NEW p \in Players, Enter(p)
      PROVE  CountInv'
  <2>1. /\ Becomes(p, {"POUTFIT"}, "PALIVE") /\ Flying(p) = {} /\ Settled
        /\ newcomers' = newcomers \ {p} /\ newcomers \subseteq Players
    BY <1>5 DEF Enter, Becomes, Ntserv, CountInv, TypeOK
  <2>2. ntorp[p] = 0
    <3>1. Cardinality(Flying(p)) = 0
      BY <2>1, FlyingFinite, FS_EmptySet
    <3>2. ntorp[p] = Cardinality(Flying(p)) + 0
      BY <2>1, NobodyBusy DEF CountInv
    <3> QED BY <3>1, <3>2
  <2>3. UNCHANGED ntorp
    BY <1>5, <2>2 DEF Enter, CountInv, TypeOK
  <2> QED BY <2>1, <2>3, <1>1
<1>6. ASSUME NEW p \in Players, Death(p)
      PROVE  CountInv'
  <2>1. /\ Becomes(p, {"PDEAD"}, "POUTFIT") /\ UNCHANGED ntorp /\ Settled
        /\ UNCHANGED newcomers /\ newcomers \subseteq Players
    BY <1>6 DEF Death, Becomes, Ntserv, CountInv, TypeOK
  <2>2. Cardinality(Flying(p)) = 0
    BY <1>6, <2>1, NobodyBusy, FlyingFinite DEF Death, CountInv, TypeOK
  <2>3. Flying(p) = {}
    BY <2>2, FlyingFinite, FS_EmptySet
  <2> QED BY <2>1, <2>3, <1>1
<1>7. ASSUME NEW p \in Players, Fire(p)
      PROVE  CountInv'
  <2> USE DEF Fire, carrier
  <2>1. Settled /\ pstatus[p] \in {"PALIVE", "PEXPLODE"} /\ ntorp[p] # MaxTorp
    BY <1>7 DEF Handles, Ntserv
  <2>2. /\ fire' = [fire EXCEPT ![p] = ntorp[p]]
        /\ UNCHANGED <<pstatus, newcomers, ntorp, torp, mark, off, carrier>>
    BY <1>7
  <2>3. TypeOK'
    <3>1. ntorp[p] \in 0 .. MaxTorp - 1
      <4>1. ntorp[p] \in 0 .. MaxTorp
        BY DEF CountInv, TypeOK
      <4> QED BY <4>1, <2>1, TorpsAssumption
    <3> QED BY <2>2, <3>1 DEF CountInv, TypeOK
  <2>4. \A q \in Players \ {p} : fire'[q] = Nothing
    BY <2>1, <2>2, NobodyBusy DEF CountInv, TypeOK
  <2>5. OneUpdate'
    BY <2>1, <2>2, <2>4, NobodyBusy DEF OneUpdate, Busy
  <2>6. \A q \in Players : Flying(q)' = Flying(q) /\ Owed(q)' = Owed(q)
    BY <2>2 DEF Flying, Owed
  <2>7. \A q \in Players : ntorp'[q] = Cardinality(Flying(q)') + Owed(q)'
    BY <2>2, <2>6 DEF CountInv
  <2>8. fire'[p] = ntorp'[p]
    BY <2>2 DEF CountInv, TypeOK
  <2>9. \A q \in Players :
          /\ pstatus'[q] \in {"PFREE", "POUTFIT"} => fire'[q] = Nothing
          /\ pstatus'[q] = "POUTFIT" => q \in newcomers' \/ Flying(q)' = {}
    BY <2>1, <2>2, <2>4, <2>6 DEF CountInv
  <2> QED BY <2>1, <2>2, <2>3, <2>4, <2>5, <2>7, <2>8, <2>9, NobodyBusy DEF CountInv
<1>8. ASSUME NEW p \in Players, NEW t \in Tubes, NEW new \in {"TDET", "TOFF"},
             See(p, t, new)
      PROVE  CountInv'
  <2> USE DEF See, carrier
  <2>1. Settled /\ torp[t].status = "TMOVE"
    BY <1>8 DEF Handles, Ntserv
  <2>2. /\ mark' = [mark EXCEPT ![p] = <<t, new>>]
        /\ UNCHANGED <<pstatus, newcomers, ntorp, torp, fire, off, carrier>>
    BY <1>8
  <2>3. TypeOK'
    BY <2>2 DEF CountInv, TypeOK
  <2>4. /\ \A q \in Players \ {p} : mark'[q] = Nothing
        /\ mark'[p] = <<t, new>>
    BY <2>1, <2>2, NobodyBusy DEF CountInv, TypeOK
  <2>5. OneUpdate'
    BY <2>1, <2>2, <2>4, NobodyBusy DEF OneUpdate, Busy
  <2>6. \A q \in Players : Flying(q)' = Flying(q) /\ Owed(q)' = Owed(q)
    BY <2>2 DEF Flying, Owed
  <2>7. /\ \A q \in Players : ntorp'[q] = Cardinality(Flying(q)') + Owed(q)'
        /\ \A q \in Players :
             /\ pstatus'[q] \in {"PFREE", "POUTFIT"} => fire'[q] = Nothing
             /\ pstatus'[q] = "POUTFIT" => q \in newcomers' \/ Flying(q)' = {}
    BY <2>2, <2>6 DEF CountInv
  <2>8. \A q \in Players : mark'[q] # Nothing => torp'[mark'[q][1]].status # "TFREE"
    BY <2>1, <2>2, <2>4
  <2> QED BY <2>1, <2>2, <2>3, <2>5, <2>7, <2>8, NobodyBusy DEF CountInv
<1>9. ASSUME NEW p \in Players, Mark(p)
      PROVE  CountInv'
  <2>1. PICK t \in Tubes, new \in {"TDET", "TOFF"} : mark[p] = <<t, new>>
    BY <1>9 DEF Mark, CountInv, TypeOK
  <2>2. torp[t].status # "TFREE" /\ torp' = [torp EXCEPT ![t].status = new]
    <3>1. mark[p][1] = t /\ mark[p][2] = new /\ mark[p] # Nothing
      BY <1>9, <2>1 DEF Mark
    <3>2. torp[mark[p][1]].status # "TFREE"
      BY <3>1 DEF CountInv
    <3>3. torp' = [torp EXCEPT ![mark[p][1]].status = mark[p][2]]
      BY <1>9 DEF Mark
    <3> QED BY <3>1, <3>2, <3>3
  <2>3. \A q \in Players \ {p} : mark[q] = Nothing
    BY <1>9 DEF Mark, CountInv, OneUpdate, Busy
  <2>4. mark' \in [Players -> {Nothing}]
    BY <1>9, <2>3 DEF Mark, CountInv, TypeOK
  <2> QED BY <1>9, <2>2, <2>4, FlightStep DEF Mark
<1>10. ASSUME NEW p \in Players, Kill(p) \/ Exploded(p) \/ Bury(p)
       PROVE  CountInv'
  BY <1>2, <1>10 DEF Kill, Exploded, Bury
<1>11. ASSUME NEW t \in Tubes, Explode(t)
       PROVE  CountInv'
  <2>1. Settled /\ torp[t].status # "TFREE"
    BY <1>11 DEF Explode, Daemon
  <2>2. mark' \in [Players -> {Nothing}]
    BY <2>1, <1>11, NobodyBusy DEF Explode, updates, CountInv, TypeOK
  <2> QED BY <1>11, <2>1, <2>2, FlightStep DEF Explode, updates
<1>12. ASSUME UNCHANGED vars
       PROVE  CountInv'
  <2>1. UNCHANGED <<pstatus, newcomers, ntorp, torp, fire, mark, off, nthingys, armed>>
    BY <1>12 DEF vars, updates, carrier
  <2>2. TypeOK' /\ OneUpdate'
    BY <2>1 DEF CountInv, TypeOK, OneUpdate, Busy
  <2>3. \A q \in Players : Flying(q)' = Flying(q) /\ Owed(q)' = Owed(q)
    BY <2>1 DEF Flying, Owed
  <2> QED BY <2>1, <2>2, <2>3 DEF CountInv
<1> QED
  BY <1>3, <1>4, <1>5, <1>6, <1>7, <1>8, <1>9, <1>10, <1>11, <1>12,
     LaunchStep, EndStep, CountOffStep DEF Next

-----------------------------------------------------------------------------
(* While updates do not interleave, the counter, the types and the owner of*)
(* a torpedo are what CountInv says in every state (ntserv/redraw.c,       *)
(* common/torp.c and daemon/weapons.c together keep it).                   *)
THEOREM CountInvariant ==
  ASSUME ~Preempt, ~Quick
  PROVE  Spec => []CountInv
<1>1. Init => CountInv
  BY CountInit
<1>2. CountInv /\ [Next]_vars => CountInv'
  BY CountStep
<1> QED BY <1>1, <1>2, PTL DEF Spec

(* Every variable keeps its type: the counter stays between 0 and MaxTorp. *)
THEOREM TorpsTyped ==
  ASSUME ~Preempt, ~Quick
  PROVE  Spec => []TypeOK
<1>1. CountInv => TypeOK
  BY DEF CountInv
<1> QED BY <1>1, CountInvariant, PTL

(* p_ntorp is the number of torpedoes in flight whenever no process is in  *)
(* the middle of an update.                                                *)
THEOREM CountsAreHonest ==
  ASSUME ~Preempt, ~Quick
  PROVE  Spec => []CountHonest
<1>1. CountInv => CountHonest
  BY NobodyBusy, FlyingFinite DEF CountInv, CountHonest
<1> QED BY <1>1, CountInvariant, PTL

(* ntorp() fires from a free tube of its own block, so it never runs off   *)
(* the end of the search nor overwrites a torpedo.                         *)
THEOREM FiresOwnTubes ==
  ASSUME ~Preempt, ~Quick
  PROVE  Spec => OwnTubes
<1>1. CountInv /\ [Next]_vars =>
        [\A p \in Players : Launch(p) =>
           TubeFor(p) \in Block(p) /\ torp[TubeFor(p)].status = "TFREE"]_vars
  BY LaunchFinds DEF Launch
<1> QED BY <1>1, CountInvariant, PTL DEF Spec, OwnTubes

(* Who enters the game again has no torpedo of a former life in flight.    *)
THEOREM EntersClean ==
  ASSUME ~Preempt, ~Quick
  PROVE  Spec => EnterClean
<1>1. CountInv /\ [Next]_vars => [\A p \in Players \ newcomers : Enter(p) => Flying(p) = {}]_vars
  BY DEF Enter, Becomes, CountInv
<1> QED BY <1>1, CountInvariant, PTL DEF Spec, EnterClean

=============================================================================
