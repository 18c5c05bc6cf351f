---------------------------- MODULE Docking_proofs ----------------------------
(***************************************************************************)
(* Proofs about Docking, for any number of players and ports, when nobody  *)
(* comes in between the search for a port and the docking.                 *)
(*                                                                         *)
(* The argument is about the fields d of the players, the set G of players *)
(* in the game and the set of bases B.  Sound(d, G, B) says that the two   *)
(* records of every mooring agree and that every base counts its guests.   *)
(* Undocking is base_undock() for a single port; each of the functions of  *)
(* plutil.c keeps d sound, and so does every handler, a composition of     *)
(* them.                                                                   *)
(***************************************************************************)
EXTENDS Docking, FunctionTheorems, FiniteSetTheorems, TLAPS

Nobody(d, b) == \A k \in Ports : d.port[b][k] < 0

Agree(d, G, B) ==
  /\ \A p \in G : d.flag[p] =>
       /\ d.docked[p] \in G /\ B[d.docked[p]] /\ ~B[p]
       /\ d.port[p][0] \in Ports
       /\ d.port[d.docked[p]][d.port[p][0]] = p
  /\ \A b \in G, k \in Ports : B[b] /\ d.port[b][k] >= 0 =>
       LET p == d.port[b][k]
       IN p \in G /\ d.flag[p] /\ d.docked[p] = b /\ d.port[p][0] = k

Guests(d, G, b) == {p \in G : d.flag[p] /\ d.docked[p] = b}

Counted(d, G, B) == \A b \in G : B[b] => d.docked[b] = Cardinality(Guests(d, G, b))

Sound(d, G, B) ==
  /\ d \in Moors /\ G \in SUBSET Players /\ B \in [Players -> BOOLEAN]
  /\ \A p \in Players : d.flag[p] => d.docked[p] \in Players /\ d.port[p][0] \in Ports
  /\ Agree(d, G, B)
  /\ Counted(d, G, B)

(* Whoever is moored in e has been moored at the same port before.         *)
Keeps(d, e, G) ==
  \A q \in G : e.flag[q] =>
     d.flag[q] /\ e.docked[q] = d.docked[q] /\ e.port[q][0] = d.port[q][0]

-----------------------------------------------------------------------------

LEMMA FirstPort == 0 \in Ports /\ Players \subseteq Nat /\ Ports \subseteq Nat
  BY DockingAssumption DEF Ports, Players

LEMMA AllFinite == IsFiniteSet(Players) /\ IsFiniteSet(Ports)
  BY FS_Interval, DockingAssumption DEF Ports, Players

LEMMA PortValues == \A x \in {VACANT, PDAMAGE} \cup Players \cup Ports : x \in Int
  BY FirstPort DEF VACANT, PDAMAGE

(* The fields of well typed moorings. *)
LEMMA MoorType ==
  ASSUME NEW d \in Moors
  PROVE  /\ d.flag \in [Players -> BOOLEAN] /\ d.docked \in [Players -> Int]
         /\ d.port \in [Players -> [Ports -> {VACANT, PDAMAGE} \cup Players \cup Ports]]
         /\ \A p \in Players, k \in Ports : d.port[p][k] \in Int
<1>1. /\ d.flag \in [Players -> BOOLEAN] /\ d.docked \in [Players -> Int]
      /\ d.port \in [Players -> [Ports -> {VACANT, PDAMAGE} \cup Players \cup Ports]]
  BY DEF Moors
<1>2. \A p \in Players, k \in Ports : d.port[p][k] \in {VACANT, PDAMAGE} \cup Players \cup Ports
  BY <1>1
<1> QED
  BY <1>1, <1>2, PortValues

(* Guests and the ports they hold are equal in number.                     *)
LEMMA GuestsHold ==
  ASSUME NEW d, NEW G, NEW B, Sound(d, G, B), NEW b \in G, B[b], NEW K \in SUBSET Ports
  PROVE  /\ Gone(d, b, K) \subseteq Guests(d, G, b)
         /\ IsFiniteSet(Gone(d, b, K)) /\ Cardinality(Gone(d, b, K)) = Cardinality(Held(d, b, K))
         /\ Cardinality(Held(d, b, K)) \in Nat
         /\ K = Ports => Gone(d, b, K) = Guests(d, G, b)
<1> USE DEF Held, Gone
<1>1. \A k \in Held(d, b, K) : LET p == d.port[b][k]
                      IN p \in G /\ d.flag[p] /\ d.docked[p] = b /\ d.port[p][0] = k
  BY DEF Sound, Agree
<1>2. IsFiniteSet(Held(d, b, K)) /\ Cardinality(Held(d, b, K)) \in Nat
  <2>1. Held(d, b, K) \in SUBSET Ports
    OBVIOUS
  <2> QED
    BY <2>1, AllFinite, FS_Subset, FS_CardinalityType
<1> DEFINE f == [k \in Held(d, b, K) |-> d.port[b][k]]
<1>3. f \in Bijection(Held(d, b, K), Gone(d, b, K))
  <2>1. f \in [Held(d, b, K) -> Gone(d, b, K)]
    OBVIOUS
  <2>2. \A x, y \in Held(d, b, K) : f[x] = f[y] => x = y
    BY <1>1
  <2>3. \A g \in Gone(d, b, K) : \E x \in Held(d, b, K) : f[x] = g
    OBVIOUS
  <2> HIDE DEF f, Held, Gone
  <2> QED
    BY <2>1, <2>2, <2>3, Fun_IsBij
<1>4. IsFiniteSet(Gone(d, b, K)) /\ Cardinality(Gone(d, b, K)) = Cardinality(Held(d, b, K))
  <2> HIDE DEF f, Held, Gone
  <2> QED
    BY <1>2, <1>3, FS_Bijection DEF ExistsBijection
<1>5. Gone(d, b, K) \subseteq Guests(d, G, b)
  BY <1>1 DEF Guests
<1>6. ASSUME K = Ports, NEW p \in Guests(d, G, b) PROVE p \in Gone(d, b, K)
  <2>1. d.port[p][0] \in Ports /\ d.port[b][d.port[p][0]] = p /\ p >= 0
    BY FirstPort DEF Guests, Sound, Agree
  <2> QED
    BY <1>6, <2>1
<1> QED
  BY <1>2, <1>4, <1>5, <1>6

-----------------------------------------------------------------------------
(* The functions of plutil.c *)

(* Ships cast off from ports of a base; after all of them, it has no guest. *)
LEMMA BaseUndock ==
  ASSUME NEW d, NEW G, NEW B, Sound(d, G, B), NEW b \in G, B[b], NEW K \in SUBSET Ports
  PROVE  LET e == base_undock(d, b, K) IN
         /\ Sound(e, G, B)
         /\ \A p \in Players : e.flag[p] <=> d.flag[p] /\ ~\E k \in K : d.port[b][k] = p
         /\ \A p \in Players : B[p] => e.flag[p] = d.flag[p]
         /\ \A k \in K : e.port[b][k] < 0
         /\ \A k \in K : d.port[b][k] >= 0 => e.port[b][k] = VACANT
         /\ Keeps(d, e, G)
<1> DEFINE H == Held(d, b, K)
           L == Gone(d, b, K)
           e == base_undock(d, b, K)
<1> USE FirstPort
<1>1. /\ L \subseteq Guests(d, G, b)
      /\ IsFiniteSet(L) /\ Cardinality(L) = Cardinality(H)
      /\ Cardinality(H) \in Nat
  BY GuestsHold
<1>2. /\ d \in Moors /\ G \subseteq Players /\ b \in Players /\ B \in [Players -> BOOLEAN]
      /\ d.flag \in [Players -> BOOLEAN] /\ d.docked \in [Players -> Int]
      /\ d.port \in [Players -> [Ports -> {VACANT, PDAMAGE} \cup Players \cup Ports]]
      /\ \A p \in Players, k \in Ports : d.port[p][k] \in Int
  BY MoorType DEF Sound
<1>3. /\ \A k \in Ports : k \in H <=> k \in K /\ d.port[b][k] >= 0
      /\ \A p : p \in L <=> \E k \in H : p = d.port[b][k]
      /\ \A k \in H : k \in K /\ d.port[b][k] >= 0
  BY DEF Held, Gone
<1>4. /\ \A p \in Players : e.flag[p] = (d.flag[p] /\ p \notin L)
      /\ \A p \in Players : e.docked[p] = IF p \in L THEN -1
                                          ELSE IF p = b THEN d.docked[b] - Cardinality(H)
                                          ELSE d.docked[p]
      /\ \A p \in Players, k \in Ports :
           e.port[p][k] = IF (p = b /\ k \in H) \/ (p \in L /\ k = 0)
                          THEN VACANT ELSE d.port[p][k]
  BY DEF base_undock, VacatedPorts
<1>5. e = [flag   |-> [p \in Players |-> d.flag[p] /\ p \notin L],
           docked |-> [p \in Players |-> IF p \in L THEN -1
                            ELSE IF p = b THEN d.docked[b] - Cardinality(H)
                            ELSE d.docked[p]],
           port   |-> [p \in Players |-> [k \in Ports |->
            IF (p = b /\ k \in H) \/ (p \in L /\ k = 0) THEN VACANT ELSE d.port[p][k]]]]
  BY DEF base_undock, VacatedPorts
<1> HIDE DEF H, L, e
<1>6. /\ d.flag[b] = FALSE /\ b \notin L
      /\ \A p \in L : p \in G /\ d.flag[p] /\ d.docked[p] = b /\ ~B[p]
  <2>1. \A p \in L : p \in G /\ d.flag[p] /\ d.docked[p] = b
    BY <1>1 DEF Guests
  <2>2. \A p \in G : d.flag[p] => ~B[p]
    BY DEF Sound, Agree
  <2> QED
    BY <2>1, <2>2, <1>2
<1>7. e \in Moors
  <2>1. [p \in Players |-> d.flag[p] /\ p \notin L] \in [Players -> BOOLEAN]
    OBVIOUS
  <2>2. [p \in Players |-> IF p \in L THEN -1
                            ELSE IF p = b THEN d.docked[b] - Cardinality(H)
                            ELSE d.docked[p]] \in [Players -> Int]
    BY <1>1, <1>2, <1>3, <1>6 DEF Moors
  <2>3. [p \in Players |-> [k \in Ports |->
            IF (p = b /\ k \in H) \/ (p \in L /\ k = 0) THEN VACANT ELSE d.port[p][k]]]
          \in [Players -> [Ports -> {VACANT, PDAMAGE} \cup Players \cup Ports]]
    BY <1>2, <1>3, <1>6 DEF Moors
  <2> QED
    BY <2>1, <2>2, <2>3, <1>5 DEF Moors
<1>8. \A p \in Players : e.flag[p] => e.docked[p] \in Players /\ e.port[p][0] \in Ports
  BY <1>2, <1>3, <1>6, <1>4 DEF Sound
<1>9. Agree(e, G, B)
  <2>1. ASSUME NEW p \in G, e.flag[p]
        PROVE  /\ e.docked[p] \in G /\ B[e.docked[p]] /\ ~B[p]
               /\ e.port[p][0] \in Ports
               /\ e.port[e.docked[p]][e.port[p][0]] = p
    <3>1. /\ p \in Players /\ p # b /\ p \notin L /\ d.flag[p]
          /\ d.docked[p] \in G /\ B[d.docked[p]] /\ ~B[p]
          /\ d.port[p][0] \in Ports
          /\ d.port[d.docked[p]][d.port[p][0]] = p
      BY <2>1, <1>2, <1>3, <1>6, <1>4 DEF Sound, Agree
    <3>2. e.docked[p] = d.docked[p] /\ e.port[p][0] = d.port[p][0]
      <4>1. /\ e.docked[p] = IF p \in L THEN -1
                             ELSE IF p = b THEN d.docked[b] - Cardinality(H) ELSE d.docked[p]
            /\ e.port[p][0] = IF (p = b /\ 0 \in H) \/ (p \in L /\ 0 = 0)
                              THEN VACANT ELSE d.port[p][0]
        BY <3>1, <1>4
      <4>2. e.docked[p] = d.docked[p]
        BY <3>1, <4>1
      <4> QED
        BY <3>1, <4>1, <4>2
    <3>3. e.port[d.docked[p]][d.port[p][0]] = p
      <4>1. d.docked[p] \notin L /\ ~(d.docked[p] = b /\ d.port[p][0] \in H)
        BY <3>1, <1>2, <1>3, <1>6
      <4> QED
        BY <3>1, <4>1, <1>2, <1>3, <1>6, <1>4
    <3> QED
      BY <3>1, <3>2, <3>3
  <2>2. ASSUME NEW c \in G, NEW k \in Ports, B[c], e.port[c][k] >= 0
        PROVE  LET p == e.port[c][k]
               IN p \in G /\ e.flag[p] /\ e.docked[p] = c /\ e.port[p][0] = k
    <3>1. c \in Players /\ c \notin L
      BY <2>2, <1>2, <1>6
    <3>2. ~(c = b /\ k \in H)
      BY <2>2, <1>4, <3>1 DEF VACANT
    <3>3. e.port[c][k] = d.port[c][k]
      BY <3>1, <3>2, <1>4
    <3>4. PICK q : q = d.port[c][k]
      OBVIOUS
    <3>5. q \in G /\ d.flag[q] /\ d.docked[q] = c /\ d.port[q][0] = k /\ q >= 0
      BY <3>3, <3>4, <2>2 DEF Sound, Agree
    <3>6. q \in Players /\ ~B[q]
      BY <3>5, <1>2 DEF Sound, Agree
    <3>7. q \notin L
      <4>1. SUFFICES ASSUME q \in L PROVE FALSE
        OBVIOUS
      <4>2. d.docked[q] = b
        BY <4>1, <1>6
      <4>3. PICK j \in H : q = d.port[b][j]
        BY <4>1, <1>3
      <4>4. d.port[q][0] = j
        <5>1. j \in Ports /\ d.port[b][j] >= 0 /\ b \in G /\ B[b]
          BY <4>3, <1>3
        <5> QED
          BY <4>3, <5>1 DEF Sound, Agree
      <4>5. k \in H
        BY <4>3, <4>4, <3>5
      <4> QED
        BY <4>2, <4>5, <3>2, <3>5
    <3>8. q # b
      BY <3>6
    <3>9. e.flag[q] /\ e.docked[q] = c /\ e.port[q][0] = k
      <4>1. e.flag[q] /\ e.docked[q] = c
        BY <3>5, <3>6, <3>7, <3>8, <1>4
      <4>2. e.port[q][0] = d.port[q][0]
        BY <3>6, <3>7, <3>8, <1>4
      <4> QED
        BY <4>1, <4>2, <3>5
    <3> QED
      BY <3>3, <3>4, <3>5, <3>9
  <2> QED
    BY <2>1, <2>2 DEF Agree
<1>10. Counted(e, G, B)
  <2> SUFFICES ASSUME NEW c \in G, B[c] PROVE e.docked[c] = Cardinality(Guests(e, G, c))
    BY DEF Counted
  <2>1. c \in Players /\ c \notin L /\ d.docked[c] = Cardinality(Guests(d, G, c))
    BY <1>2, <1>3, <1>6 DEF Sound, Counted
  <2>2. CASE c = b
    <3>1. Guests(e, G, b) = Guests(d, G, b) \ L
      <4>1. \A q \in G : e.flag[q] /\ e.docked[q] = b
                           <=> d.flag[q] /\ d.docked[q] = b /\ q \notin L
        BY <1>2, <1>4, <1>6
      <4> QED
        BY <4>1 DEF Guests
    <3>2. Guests(d, G, b) \cap L = L
      BY <1>1
    <3>3. IsFiniteSet(Guests(d, G, b))
      BY <1>2, <1>3, <1>6, AllFinite, FS_Subset DEF Guests
    <3>4. Cardinality(Guests(d, G, b) \ L)
            = Cardinality(Guests(d, G, b)) - Cardinality(Guests(d, G, b) \cap L)
      BY <3>3, FS_Difference
    <3>5. Cardinality(Guests(e, G, b)) = d.docked[b] - Cardinality(H)
      BY <2>1, <2>2, <3>1, <3>2, <3>4, <1>1
    <3> QED
      BY <2>2, <2>1, <3>5, <1>4
  <2>3. CASE c # b
    <3>1. \A q \in G : e.flag[q] /\ e.docked[q] = c <=> d.flag[q] /\ d.docked[q] = c
      <4>1. ASSUME NEW q \in G, q \in L PROVE ~e.flag[q] /\ d.docked[q] # c
        BY <4>1, <1>2, <1>4, <1>6, <2>3
      <4>2. ASSUME NEW q \in G, q \notin L, q # b
            PROVE e.flag[q] = d.flag[q] /\ e.docked[q] = d.docked[q]
        BY <4>2, <1>2, <1>4
      <4>3. ~e.flag[b] /\ ~d.flag[b]
        BY <1>2, <1>4, <1>6
      <4> QED
        BY <4>1, <4>2, <4>3
    <3>2. Guests(e, G, c) = Guests(d, G, c)
      BY <3>1 DEF Guests
    <3> QED
      BY <3>2, <2>1, <2>3, <1>4
  <2> QED
    BY <2>2, <2>3
<1>11. \A k \in K : e.port[b][k] < 0
  <2> SUFFICES ASSUME NEW k \in K PROVE e.port[b][k] < 0
    OBVIOUS
  <2>1. d.port[b][k] \in Int
    BY <1>2, <1>3, <1>6 DEF Moors, VACANT, PDAMAGE
  <2> QED
    BY <2>1, <1>2, <1>3, <1>6, <1>4 DEF VACANT
<1>12. \A k \in K : d.port[b][k] >= 0 => e.port[b][k] = VACANT
  BY <1>2, <1>3, <1>6, <1>4
<1>13. \A p \in Players : e.flag[p] <=> d.flag[p] /\ ~\E k \in K : d.port[b][k] = p
  <2>1. ASSUME NEW p \in Players, NEW k \in K, d.port[b][k] = p PROVE p \in L
    <3>1. p >= 0 /\ k \in Ports
      OBVIOUS
    <3> QED
      BY <2>1, <3>1, <1>3
  <2> QED
    <3>1. \A p : p \in L => \E k \in K : d.port[b][k] = p
      BY <1>3
    <3> QED
      BY <2>1, <3>1, <1>4
<1>14. \A p \in Players : B[p] => e.flag[p] = d.flag[p]
  BY <1>2, <1>3, <1>6, <1>4 DEF Moors
<1>15. Sound(e, G, B)
  BY <1>7, <1>8, <1>9, <1>10 DEF Sound
<1>16. Keeps(d, e, G)
  <2>1. ASSUME NEW q \in G, e.flag[q] PROVE q \in Players /\ d.flag[q] /\ q \notin L /\ q # b
    BY <2>1, <1>2, <1>4, <1>6
  <2>2. ASSUME NEW q \in G, e.flag[q] PROVE e.docked[q] = d.docked[q]
    BY <2>1, <2>2, <1>4
  <2>3. ASSUME NEW q \in G, e.flag[q] PROVE e.port[q][0] = d.port[q][0]
    BY <2>1, <2>3, <1>4
  <2> QED
    BY <2>1, <2>2, <2>3 DEF Keeps
<1> QED
  BY <1>11, <1>12, <1>13, <1>14, <1>15, <1>16 DEF e

(* A ship lets go: base_undock() of its own port.                          *)
LEMMA UndockIs ==
  ASSUME NEW d, NEW G, NEW B, Sound(d, G, B), NEW p \in G, d.flag[p]
  PROVE  undock_player(d, p) = base_undock(d, d.docked[p], {d.port[p][0]})
<1> DEFINE b == d.docked[p]
           j == d.port[p][0]
<1>1. /\ p \in Players /\ b \in Players /\ b # p /\ j \in Ports /\ d.port[b][j] = p
      /\ d \in Moors
  BY DEF Sound, Agree
<1>2. p >= 0
  BY <1>1, FirstPort
<1>3. Held(d, b, {j}) = {j} /\ Gone(d, b, {j}) = {p}
  BY <1>1, <1>2 DEF Held, Gone
<1>4. Cardinality(Held(d, b, {j})) = 1
  BY <1>3, FS_Singleton
<1>5. undock_player(d, p) = [flag   |-> [d.flag EXCEPT ![p] = FALSE],
                             docked |-> [d.docked EXCEPT ![b] = @ - 1, ![p] = -1],
                             port   |-> [d.port EXCEPT ![b][j] = VACANT, ![p][0] = VACANT]]
  BY DEF undock_player
<1> HIDE DEF b, j
<1>6. [d.flag EXCEPT ![p] = FALSE] = [q \in Players |-> d.flag[q] /\ q \notin Gone(d, b, {j})]
  BY <1>1, <1>3, MoorType
<1>7. [d.docked EXCEPT ![b] = @ - 1, ![p] = -1]
        = [q \in Players |-> IF q \in Gone(d, b, {j}) THEN -1
                             ELSE IF q = b THEN d.docked[b] - Cardinality(Held(d, b, {j}))
                             ELSE d.docked[q]]
  BY <1>1, <1>3, <1>4, MoorType
<1>8. [d.port EXCEPT ![b][j] = VACANT, ![p][0] = VACANT] = VacatedPorts(d, b, {j})
  <2> DEFINE r == [d.port EXCEPT ![b][j] = VACANT, ![p][0] = VACANT]
             v(q) == [k \in Ports |-> IF (q = b /\ k \in {j}) \/ (q \in {p} /\ k = 0)
                                      THEN VACANT ELSE d.port[q][k]]
  <2>1. r \in [Players -> [Ports -> {VACANT, PDAMAGE} \cup Players \cup Ports]]
    BY <1>1, FirstPort, MoorType
  <2>2. \A q \in Players, k \in Ports :
          r[q][k] = IF (q = b /\ k \in {j}) \/ (q \in {p} /\ k = 0) THEN VACANT ELSE d.port[q][k]
    BY <1>1, FirstPort, MoorType
  <2> HIDE DEF r
  <2>3. \A q \in Players : r[q] = v(q)
    BY <2>1, <2>2
  <2>4. r = [q \in Players |-> v(q)]
    BY <2>1, <2>3
  <2> QED
    BY <2>4, <1>3 DEF VacatedPorts, r
<1>9. undock_player(d, p) = base_undock(d, b, {j})
  BY <1>5, <1>6, <1>7, <1>8 DEF base_undock
<1> QED
  BY <1>9 DEF b, j

(* Whoever undocks is adrift, and leaves everybody else where he is.       *)
LEMMA Undocking ==
  ASSUME NEW d, NEW G, NEW B, Sound(d, G, B), NEW p \in G
  PROVE  LET e == undock_player(d, p) IN
         /\ Sound(e, G, B) /\ ~e.flag[p]
         /\ B[p] => e = d
         /\ Keeps(d, e, G)
         /\ d.flag[p] => e.port[d.docked[p]][d.port[p][0]] = VACANT
<1>1. CASE ~d.flag[p]
  BY <1>1 DEF undock_player, Keeps
<1>2. CASE d.flag[p]
  <2> DEFINE b == d.docked[p]
             j == d.port[p][0]
  <2>1. /\ b \in G /\ B[b] /\ ~B[p] /\ {j} \in SUBSET Ports /\ d.port[b][j] = p
        /\ p \in Players /\ p >= 0
    BY <1>2, FirstPort DEF Sound, Agree
  <2>2. undock_player(d, p) = base_undock(d, b, {j})
    BY <1>2, UndockIs
  <2> HIDE DEF b, j
  <2>3. LET e == base_undock(d, b, {j}) IN
        /\ Sound(e, G, B)
        /\ \A q \in Players : e.flag[q] <=> d.flag[q] /\ ~\E k \in {j} : d.port[b][k] = q
        /\ \A k \in {j} : d.port[b][k] >= 0 => e.port[b][k] = VACANT
        /\ Keeps(d, e, G)
    BY <2>1, BaseUndock
  <2> QED
    BY <2>1, <2>2, <2>3 DEF b, j
<1> QED
  BY <1>1, <1>2

(* A base that nobody is moored at has no guests.                          *)
LEMMA NoGuests ==
  ASSUME NEW d, NEW G, NEW B, Sound(d, G, B), NEW b \in G, B[b], Nobody(d, b)
  PROVE  /\ \A p \in G : d.flag[p] => d.docked[p] # b
         /\ d.docked[b] = 0
         /\ SetDocked(d, b, 0) = d
<1>1. \A p \in G : d.flag[p] => d.docked[p] # b
  <2> SUFFICES ASSUME NEW p \in G, d.flag[p], d.docked[p] = b PROVE FALSE
    OBVIOUS
  <2>1. d.port[p][0] \in Ports /\ d.port[b][d.port[p][0]] = p /\ p >= 0
    BY FirstPort DEF Sound, Agree
  <2>2. d.port[b][d.port[p][0]] < 0
    BY <2>1 DEF Nobody
  <2>3. p \in Int
    BY FirstPort DEF Sound
  <2> QED
    BY <2>1, <2>2, <2>3
<1>2. Guests(d, G, b) = {}
  BY <1>1 DEF Guests
<1>3. d.docked[b] = 0
  BY <1>2, FS_EmptySet DEF Sound, Counted
<1>4. d \in Moors /\ b \in Players
  BY DEF Sound
<1>5. [d.docked EXCEPT ![b] = 0] = d.docked
  BY <1>3, <1>4, MoorType
<1>6. [flag |-> d.flag, docked |-> d.docked, port |-> d.port] = d
  BY <1>4 DEF Moors
<1> QED
  BY <1>1, <1>3, <1>5, <1>6 DEF SetDocked

(* Who has cast off everybody and everything may leave the game.           *)
LEMMA Leaving ==
  ASSUME NEW d, NEW G, NEW B, Sound(d, G, B), NEW p \in G,
         ~d.flag[p], B[p] => Nobody(d, p)
  PROVE  Sound(d, G \ {p}, B)
<1>1. \A q \in G : d.flag[q] => d.docked[q] # p
  BY NoGuests DEF Sound, Agree
<1>2. Agree(d, G \ {p}, B)
  <2>1. \A b \in G, k \in Ports : B[b] /\ d.port[b][k] >= 0 => d.port[b][k] # p
    BY DEF Sound, Agree
  <2> QED
    BY <1>1, <2>1 DEF Sound, Agree
<1>3. Counted(d, G \ {p}, B)
  <2>1. \A b : Guests(d, G \ {p}, b) = Guests(d, G, b)
    BY DEF Guests
  <2> QED
    BY <2>1 DEF Sound, Counted
<1> QED
  BY <1>2, <1>3 DEF Sound

LEMMA EverybodyLeaves ==
  ASSUME NEW d, NEW G, NEW B, Sound(d, G, B)
  PROVE  Sound(d, {}, B)
  BY DEF Sound, Agree, Counted

(* A player comes in, a ship that is moored nowhere or a base without ships. *)
LEMMA Joining ==
  ASSUME NEW d, NEW G, NEW B, Sound(d, G, B), NEW p \in Players, p \notin G, NEW isBase \in BOOLEAN
  PROVE  LET e == Entered(d, p, isBase) IN
         /\ Sound(e, G \cup {p}, [B EXCEPT ![p] = isBase])
         /\ ~e.flag[p]
         /\ \A q \in G : e.flag[q] = d.flag[q] /\ e.docked[q] = d.docked[q] /\ e.port[q] = d.port[q]
<1> DEFINE e == Entered(d, p, isBase)
           C == [B EXCEPT ![p] = isBase]
<1>1. /\ d \in Moors /\ G \subseteq Players /\ B \in [Players -> BOOLEAN]
      /\ C \in [Players -> BOOLEAN] /\ C[p] = isBase /\ \A q \in G : C[q] = B[q]
  BY DEF Sound
<1>2. /\ e \in Moors
      /\ \A q \in Players : e.flag[q] = IF q = p THEN FALSE ELSE d.flag[q]
      /\ \A q \in Players : e.docked[q] = IF q = p THEN 0 ELSE d.docked[q]
      /\ \A q \in Players : e.port[q] = IF q = p /\ isBase THEN [k \in Ports |-> VACANT] ELSE d.port[q]
  <2> DEFINE f == [d.flag EXCEPT ![p] = FALSE]
             n == [d.docked EXCEPT ![p] = 0]
             r == IF isBase THEN [d.port EXCEPT ![p] = [k \in Ports |-> VACANT]] ELSE d.port
  <2>1. e = [flag |-> f, docked |-> n, port |-> r]
    <3>1. CASE isBase
      <4>1. [[d.docked EXCEPT ![p] = 0] EXCEPT ![p] = 0] = n
        BY <1>1, MoorType
      <4> QED
        BY <3>1, <4>1 DEF Entered, get_ship_for_player
    <3>2. CASE ~isBase
      BY <3>2 DEF Entered, get_ship_for_player
    <3> QED
      BY <3>1, <3>2
  <2>2. /\ f \in [Players -> BOOLEAN] /\ n \in [Players -> Int]
        /\ r \in [Players -> [Ports -> {VACANT, PDAMAGE} \cup Players \cup Ports]]
    BY <1>1, MoorType
  <2>3. \A q \in Players : f[q] = IF q = p THEN FALSE ELSE d.flag[q]
    BY <1>1, MoorType
  <2>4. \A q \in Players : n[q] = IF q = p THEN 0 ELSE d.docked[q]
    BY <1>1, MoorType
  <2>5. \A q \in Players : r[q] = IF q = p /\ isBase THEN [k \in Ports |-> VACANT] ELSE d.port[q]
    BY <1>1, MoorType
  <2> HIDE DEF e, f, n, r
  <2> QED
    BY <2>1, <2>2, <2>3, <2>4, <2>5 DEF Moors
<1> HIDE DEF e, C
<1>3. \A q \in G : e.flag[q] = d.flag[q] /\ e.docked[q] = d.docked[q] /\ e.port[q] = d.port[q]
  BY <1>1, <1>2, MoorType
<1>4. Agree(e, G \cup {p}, C)
  <2>1. ~e.flag[p] /\ (C[p] => e.port[p] = [k \in Ports |-> VACANT])
    BY <1>1, <1>2
  <2>2. \A q \in G : e.flag[q] =>
          /\ e.docked[q] \in G /\ C[e.docked[q]] /\ ~C[q]
          /\ e.port[q][0] \in Ports
          /\ e.port[e.docked[q]][e.port[q][0]] = q
    BY <1>1, <1>3 DEF Sound, Agree
  <2>3. \A b \in G, k \in Ports : C[b] /\ e.port[b][k] >= 0 =>
          LET q == e.port[b][k] IN q \in G /\ e.flag[q] /\ e.docked[q] = b /\ e.port[q][0] = k
    <3> SUFFICES ASSUME NEW b \in G, NEW k \in Ports, C[b], e.port[b][k] >= 0
                 PROVE  LET q == e.port[b][k]
                        IN q \in G /\ e.flag[q] /\ e.docked[q] = b /\ e.port[q][0] = k
      OBVIOUS
    <3>1. B[b] /\ e.port[b][k] = d.port[b][k]
      BY <1>1, <1>3
    <3>2. PICK q : q = d.port[b][k]
      OBVIOUS
    <3>3. q \in G /\ d.flag[q] /\ d.docked[q] = b /\ d.port[q][0] = k
      BY <3>1, <3>2 DEF Sound, Agree
    <3> QED
      BY <3>1, <3>2, <3>3, <1>3
  <2>4. \A k \in Ports : C[p] => ~(e.port[p][k] >= 0)
    BY <2>1 DEF VACANT
  <2> QED
    BY <2>1, <2>2, <2>3, <2>4 DEF Agree
<1>5. Counted(e, G \cup {p}, C)
  <2>1. ASSUME NEW b \in G, C[b] PROVE e.docked[b] = Cardinality(Guests(e, G \cup {p}, b))
    <3>1. Guests(e, G \cup {p}, b) = Guests(d, G, b)
      BY <1>2, <1>3 DEF Guests
    <3> QED
      BY <2>1, <3>1, <1>1, <1>3 DEF Sound, Counted
  <2>2. e.docked[p] = Cardinality(Guests(e, G \cup {p}, p))
    <3>1. Guests(e, G \cup {p}, p) = {}
      <4>1. ~e.flag[p] /\ \A q \in G : e.flag[q] => e.docked[q] # p
        <5>1. \A q \in G : d.flag[q] => d.docked[q] \in G
          BY DEF Sound, Agree
        <5> QED
          BY <5>1, <1>2, <1>3
      <4> QED
        BY <4>1 DEF Guests
    <3> QED
      BY <3>1, <1>2, FS_EmptySet
  <2> QED
    BY <2>1, <2>2 DEF Counted
<1>6. \A q \in Players : e.flag[q] => e.docked[q] \in Players /\ e.port[q][0] \in Ports
  BY <1>2 DEF Sound
<1>7. Sound(e, G \cup {p}, C)
  BY <1>1, <1>2, <1>4, <1>5, <1>6 DEF Sound
<1> QED
  BY <1>2, <1>3, <1>7 DEF e, C

(* A ship without a mooring docks at a vacant port.                        *)
LEMMA DockingAt ==
  ASSUME NEW d, NEW G, NEW B, Sound(d, G, B), NEW p \in G, NEW b \in G, NEW k \in Ports,
         B[b], ~B[p], ~d.flag[p], d.port[b][k] = VACANT
  PROVE  LET e == dock_to(d, p, b, k) IN
         /\ Sound(e, G, B)
         /\ e.flag[p] /\ e.docked[p] = b /\ e.port[p][0] = k
         /\ \A q \in G \ {p} : e.flag[q] = d.flag[q]
         /\ \A q \in G \ {p} : d.flag[q] => e.docked[q] = d.docked[q] /\ e.port[q][0] = d.port[q][0]
<1> DEFINE e == dock_to(d, p, b, k)
           f == [d.flag EXCEPT ![p] = TRUE]
           n == [d.docked EXCEPT ![b] = @ + 1, ![p] = b]
           r == [d.port EXCEPT ![b][k] = p, ![p][0] = k]
<1> USE FirstPort
<1>1. /\ p \in Players /\ b \in Players /\ b # p /\ d \in Moors /\ G \subseteq Players
      /\ B \in [Players -> BOOLEAN]
  BY DEF Sound
<1>2. e = [flag |-> f, docked |-> n, port |-> r]
  BY DEF dock_to, undock_player
<1>3. /\ f \in [Players -> BOOLEAN] /\ n \in [Players -> Int]
      /\ r \in [Players -> [Ports -> {VACANT, PDAMAGE} \cup Players \cup Ports]]
  <2>1. f \in [Players -> BOOLEAN]
    BY <1>1, MoorType
  <2>2. n \in [Players -> Int]
    BY <1>1, MoorType
  <2>3. r \in [Players -> [Ports -> {VACANT, PDAMAGE} \cup Players \cup Ports]]
    BY <1>1, MoorType
  <2> QED
    BY <2>1, <2>2, <2>3
<1>4. \A q \in Players : f[q] = IF q = p THEN TRUE ELSE d.flag[q]
  BY <1>1, MoorType
<1>5. \A q \in Players : n[q] = IF q = p THEN b ELSE IF q = b THEN d.docked[b] + 1 ELSE d.docked[q]
  BY <1>1, MoorType
<1>6. \A q \in Players, j \in Ports :
        r[q][j] = IF q = p /\ j = 0 THEN k ELSE IF q = b /\ j = k THEN p ELSE d.port[q][j]
  BY <1>1, MoorType
<1> HIDE DEF e, f, n, r
<1>7. /\ e \in Moors
      /\ \A q \in Players : e.flag[q] = IF q = p THEN TRUE ELSE d.flag[q]
      /\ \A q \in Players : e.docked[q] = IF q = p THEN b ELSE IF q = b THEN d.docked[b] + 1
                                          ELSE d.docked[q]
      /\ \A q \in Players, j \in Ports :
           e.port[q][j] = IF q = p /\ j = 0 THEN k ELSE IF q = b /\ j = k THEN p ELSE d.port[q][j]
  BY <1>2, <1>3, <1>4, <1>5, <1>6 DEF Moors
<1>8. ~d.flag[b]
  BY DEF Sound, Agree
<1>9. Agree(e, G, B)
  <2>1. ASSUME NEW q \in G, e.flag[q]
        PROVE  /\ e.docked[q] \in G /\ B[e.docked[q]] /\ ~B[q]
               /\ e.port[q][0] \in Ports
               /\ e.port[e.docked[q]][e.port[q][0]] = q
    <3>1. CASE q = p
      BY <3>1, <1>1, <1>7
    <3>2. CASE q # p
      <4>1. /\ d.flag[q] /\ d.docked[q] \in G /\ B[d.docked[q]] /\ ~B[q]
            /\ d.port[q][0] \in Ports
            /\ d.port[d.docked[q]][d.port[q][0]] = q
        BY <2>1, <3>2, <1>1, <1>7 DEF Sound, Agree
      <4>2. q # b /\ d.docked[q] # p /\ q \in Players
        BY <4>1, <1>1
      <4>3. e.docked[q] = d.docked[q]
        BY <3>2, <4>2, <1>7
      <4>4. e.port[q][0] = d.port[q][0]
        BY <3>2, <4>2, <1>7
      <4>5. ~(d.docked[q] = b /\ d.port[q][0] = k)
        BY <4>1, <4>2 DEF VACANT
      <4>6. e.port[d.docked[q]][d.port[q][0]] = q
        BY <4>1, <4>2, <4>5, <1>1, <1>7
      <4> QED
        BY <4>1, <4>3, <4>4, <4>6
    <3> QED
      BY <3>1, <3>2
  <2>2. ASSUME NEW c \in G, NEW j \in Ports, B[c], e.port[c][j] >= 0
        PROVE  LET q == e.port[c][j]
               IN q \in G /\ e.flag[q] /\ e.docked[q] = c /\ e.port[q][0] = j
    <3>1. c # p /\ c \in Players
      BY <2>2, <1>1
    <3>2. CASE c = b /\ j = k
      BY <3>1, <3>2, <1>1, <1>7
    <3>3. CASE ~(c = b /\ j = k)
      <4>1. PICK q : q = d.port[c][j]
        OBVIOUS
      <4>2. e.port[c][j] = q
        BY <3>1, <3>3, <4>1, <1>7
      <4>3. q \in G /\ d.flag[q] /\ d.docked[q] = c /\ d.port[q][0] = j
        BY <2>2, <4>1, <4>2 DEF Sound, Agree
      <4>4. q # p /\ q # b /\ q \in Players
        BY <4>3, <1>1, <1>8
      <4>5. e.flag[q] /\ e.docked[q] = c
        BY <4>3, <4>4, <1>7
      <4>6. e.port[q][0] = j
        BY <4>3, <4>4, <1>7
      <4> QED
        BY <4>2, <4>3, <4>5, <4>6
    <3> QED
      BY <3>2, <3>3
  <2> QED
    BY <2>1, <2>2 DEF Agree
<1>10. Counted(e, G, B)
  <2> SUFFICES ASSUME NEW c \in G, B[c] PROVE e.docked[c] = Cardinality(Guests(e, G, c))
    BY DEF Counted
  <2>1. c \in Players /\ c # p /\ d.docked[c] = Cardinality(Guests(d, G, c))
    BY <1>1 DEF Sound, Counted
  <2>2. CASE c = b
    <3>1. \A q \in G : e.flag[q] /\ e.docked[q] = b <=> (d.flag[q] /\ d.docked[q] = b) \/ q = p
      BY <1>1, <1>7, <1>8
    <3>2. Guests(e, G, b) = Guests(d, G, b) \cup {p} /\ p \notin Guests(d, G, b)
      BY <3>1 DEF Guests
    <3>3. IsFiniteSet(Guests(d, G, b))
      BY <1>1, AllFinite, FS_Subset DEF Guests
    <3>4. Cardinality(Guests(d, G, b) \cup {p}) = Cardinality(Guests(d, G, b)) + 1
      BY <3>2, <3>3, FS_AddElement
    <3>5. Cardinality(Guests(e, G, b)) = d.docked[b] + 1
      BY <2>1, <2>2, <3>2, <3>4
    <3> QED
      BY <2>1, <2>2, <3>5, <1>7
  <2>3. CASE c # b
    <3>1. \A q \in G : e.flag[q] /\ e.docked[q] = c <=> d.flag[q] /\ d.docked[q] = c
      BY <2>3, <1>1, <1>7, <1>8
    <3>2. Guests(e, G, c) = Guests(d, G, c)
      BY <3>1 DEF Guests
    <3> QED
      BY <2>1, <2>3, <3>2, <1>7
  <2> QED
    BY <2>2, <2>3
<1>11. \A q \in Players : e.flag[q] => e.docked[q] \in Players /\ e.port[q][0] \in Ports
  <2>1. ASSUME NEW q \in Players, e.flag[q], q # p, q # b
        PROVE e.docked[q] \in Players /\ e.port[q][0] \in Ports
    BY <2>1, <1>7 DEF Sound
  <2> QED
    BY <2>1, <1>1, <1>7, <1>8
<1>12. Sound(e, G, B)
  BY <1>1, <1>7, <1>9, <1>10, <1>11 DEF Sound
<1>13. \A q \in G \ {p} : d.flag[q] => q # b
  BY <1>8
<1>14. /\ e.flag[p] /\ e.docked[p] = b /\ e.port[p][0] = k
       /\ \A q \in G \ {p} : e.flag[q] = d.flag[q]
       /\ \A q \in G \ {p} : d.flag[q] => e.docked[q] = d.docked[q] /\ e.port[q][0] = d.port[q][0]
  BY <1>1, <1>7, <1>13
<1> QED
  BY <1>12, <1>14 DEF e

(* A ship that is changed for another one of its kind keeps its mooring; a *)
(* base has cast off its ships, and comes out a ship or with vacant ports. *)
LEMMA Refitting ==
  ASSUME NEW d, NEW G, NEW B, Sound(d, G, B), NEW p \in G, NEW isBase \in BOOLEAN,
         B[p] => Nobody(d, p), d.flag[p] => ~isBase
  PROVE  LET e == get_ship_for_player(d, p, isBase) IN
         Sound(e, G, [B EXCEPT ![p] = isBase]) /\ Keeps(d, e, G)
<1> DEFINE e == get_ship_for_player(d, p, isBase)
           C == [B EXCEPT ![p] = isBase]
<1>1. /\ d \in Moors /\ G \subseteq Players /\ B \in [Players -> BOOLEAN] /\ p \in Players
      /\ C \in [Players -> BOOLEAN] /\ C[p] = isBase /\ \A q \in G \ {p} : C[q] = B[q]
  BY DEF Sound
<1>2. \A q \in G : d.flag[q] => d.docked[q] # p
  BY NoGuests DEF Sound, Agree
<1>3. /\ e \in Moors /\ e.flag = d.flag
      /\ \A q \in Players : q # p => e.docked[q] = d.docked[q] /\ e.port[q] = d.port[q]
      /\ isBase => e.docked[p] = 0 /\ e.port[p] = [k \in Ports |-> VACANT]
      /\ ~isBase => e = d
  <2>1. CASE ~isBase
    BY <2>1, <1>1 DEF get_ship_for_player
  <2>2. CASE isBase
    <3> DEFINE n == [d.docked EXCEPT ![p] = 0]
               r == [d.port EXCEPT ![p] = [k \in Ports |-> VACANT]]
    <3>1. e = [flag |-> d.flag, docked |-> n, port |-> r]
      BY <2>2 DEF get_ship_for_player
    <3>2. n \in [Players -> Int] /\ r \in [Players -> [Ports -> {VACANT, PDAMAGE} \cup Players \cup Ports]]
      BY <1>1, MoorType
    <3>3. /\ n[p] = 0 /\ r[p] = [k \in Ports |-> VACANT]
          /\ \A q \in Players : q # p => n[q] = d.docked[q] /\ r[q] = d.port[q]
      BY <1>1, MoorType
    <3> HIDE DEF e, n, r
    <3> QED
      BY <2>2, <3>1, <3>2, <3>3, <1>1, MoorType DEF Moors
  <2> QED
    BY <2>1, <2>2
<1> HIDE DEF e, C
<1>4. \A q \in G : d.flag[q] =>
        /\ q \in Players /\ e.docked[q] = d.docked[q] /\ e.port[q][0] = d.port[q][0]
        /\ d.docked[q] \in G \ {p} /\ B[d.docked[q]] /\ ~B[q] /\ ~C[q]
        /\ d.port[q][0] \in Ports /\ e.port[d.docked[q]][d.port[q][0]] = q
  <2> SUFFICES ASSUME NEW q \in G, d.flag[q]
               PROVE  /\ q \in Players /\ e.docked[q] = d.docked[q] /\ e.port[q][0] = d.port[q][0]
                      /\ d.docked[q] \in G \ {p} /\ B[d.docked[q]] /\ ~B[q] /\ ~C[q]
                      /\ d.port[q][0] \in Ports /\ e.port[d.docked[q]][d.port[q][0]] = q
    OBVIOUS
  <2>1. /\ d.docked[q] \in G \ {p} /\ B[d.docked[q]] /\ ~B[q]
        /\ d.port[q][0] \in Ports /\ d.port[d.docked[q]][d.port[q][0]] = q
    BY <1>2 DEF Sound, Agree
  <2>2. e.docked[q] = d.docked[q] /\ e.port[q][0] = d.port[q][0] /\ ~C[q]
    BY <2>1, <1>1, <1>3
  <2>3. e.port[d.docked[q]] = d.port[d.docked[q]]
    BY <2>1, <1>1, <1>3
  <2> QED
    BY <2>1, <2>2, <2>3, <1>1
<1>5. Agree(e, G, C)
  <2>1. ASSUME NEW q \in G, e.flag[q]
        PROVE  /\ e.docked[q] \in G /\ C[e.docked[q]] /\ ~C[q]
               /\ e.port[q][0] \in Ports
               /\ e.port[e.docked[q]][e.port[q][0]] = q
    BY <2>1, <1>1, <1>3, <1>4
  <2>2. ASSUME NEW b \in G, NEW k \in Ports, C[b], e.port[b][k] >= 0
        PROVE  LET q == e.port[b][k] IN q \in G /\ e.flag[q] /\ e.docked[q] = b /\ e.port[q][0] = k
    <3>1. b # p
      BY <2>2, <1>1, <1>3 DEF VACANT
    <3>2. PICK q : q = e.port[b][k]
      OBVIOUS
    <3>3. q = d.port[b][k] /\ B[b]
      BY <2>2, <3>1, <3>2, <1>1, <1>3
    <3>4. q \in G /\ d.flag[q] /\ d.docked[q] = b /\ d.port[q][0] = k
      BY <2>2, <3>2, <3>3 DEF Sound, Agree
    <3> QED
      BY <3>2, <3>4, <1>3, <1>4
  <2> QED
    BY <2>1, <2>2 DEF Agree
<1>6. Counted(e, G, C)
  <2> SUFFICES ASSUME NEW c \in G, C[c] PROVE e.docked[c] = Cardinality(Guests(e, G, c))
    BY DEF Counted
  <2>1. Guests(e, G, c) = Guests(d, G, c)
    BY <1>3, <1>4 DEF Guests
  <2>2. CASE c = p
    <3>1. Guests(d, G, p) = {}
      BY <1>2 DEF Guests
    <3> QED
      BY <2>1, <2>2, <3>1, <1>1, <1>3, FS_EmptySet
  <2>3. CASE c # p
    BY <2>1, <2>3, <1>1, <1>3 DEF Sound, Counted
  <2> QED
    BY <2>2, <2>3
<1>7. \A q \in Players : e.flag[q] => e.docked[q] \in Players /\ e.port[q][0] \in Ports
  <2>1. ASSUME NEW q \in Players, e.flag[q], q = p PROVE ~isBase
    BY <2>1, <1>3
  <2> QED
    BY <2>1, <1>3 DEF Sound
<1>8. Sound(e, G, C)
  BY <1>1, <1>3, <1>5, <1>6, <1>7 DEF Sound
<1>9. Keeps(d, e, G)
  BY <1>3, <1>4 DEF Keeps
<1> QED
  BY <1>8, <1>9 DEF e, C

(* A port that no ship holds is damaged or repaired.                       *)
LEMMA Damaging ==
  ASSUME NEW d, NEW G, NEW B, Sound(d, G, B), NEW b \in G, B[b], NEW k \in Ports,
         NEW v \in {VACANT, PDAMAGE}, d.port[b][k] \in {VACANT, PDAMAGE}
  PROVE  LET e == SetPort(d, b, k, v) IN Sound(e, G, B) /\ Keeps(d, e, G) /\ e.flag = d.flag
<1> DEFINE e == SetPort(d, b, k, v)
           r == [d.port EXCEPT ![b][k] = v]
<1> USE FirstPort
<1>1. /\ d \in Moors /\ G \subseteq Players /\ B \in [Players -> BOOLEAN] /\ b \in Players
  BY DEF Sound
<1>2. /\ r \in [Players -> [Ports -> {VACANT, PDAMAGE} \cup Players \cup Ports]]
      /\ \A q \in Players, j \in Ports : r[q][j] = IF q = b /\ j = k THEN v ELSE d.port[q][j]
  BY <1>1, MoorType
<1>3. e = [flag |-> d.flag, docked |-> d.docked, port |-> r]
  BY DEF SetPort
<1> HIDE DEF e, r
<1>4. /\ e \in Moors /\ e.flag = d.flag /\ e.docked = d.docked
      /\ \A q \in Players, j \in Ports : e.port[q][j] = IF q = b /\ j = k THEN v ELSE d.port[q][j]
  BY <1>1, <1>2, <1>3, MoorType DEF Moors
<1>5. ~(v >= 0) /\ ~(d.port[b][k] >= 0)
  BY DEF VACANT, PDAMAGE
<1>6. ASSUME NEW q \in Players, d.flag[q], q \in G \/ q # b PROVE e.port[q][0] = d.port[q][0]
  BY <1>6, <1>4 DEF Sound, Agree
<1>7. Agree(e, G, B)
  <2>1. ASSUME NEW q \in G, e.flag[q]
        PROVE  /\ e.docked[q] \in G /\ B[e.docked[q]] /\ ~B[q]
               /\ e.port[q][0] \in Ports
               /\ e.port[e.docked[q]][e.port[q][0]] = q
    <3>1. /\ d.flag[q] /\ d.docked[q] \in G /\ B[d.docked[q]] /\ ~B[q]
          /\ d.port[q][0] \in Ports /\ d.port[d.docked[q]][d.port[q][0]] = q
          /\ q \in Players /\ q >= 0
      BY <2>1, <1>1, <1>4 DEF Sound, Agree
    <3>2. ~(d.docked[q] = b /\ d.port[q][0] = k)
      BY <3>1, <1>5
    <3>3. e.port[q][0] = d.port[q][0]
      BY <3>1, <1>6
    <3>4. d.docked[q] \in Players
      BY <3>1, <1>1
    <3>5. e.port[d.docked[q]][d.port[q][0]] = q
      <4>1. PICK c \in Players, j \in Ports : c = d.docked[q] /\ j = d.port[q][0]
        BY <3>1, <3>4
      <4>2. e.port[c][j] = d.port[c][j]
        BY <3>2, <4>1, <1>4
      <4> QED
        BY <3>1, <4>1, <4>2
    <3> QED
      BY <3>1, <3>3, <3>5, <1>4
  <2>2. ASSUME NEW c \in G, NEW j \in Ports, B[c], e.port[c][j] >= 0
        PROVE  LET q == e.port[c][j] IN q \in G /\ e.flag[q] /\ e.docked[q] = c /\ e.port[q][0] = j
    <3>1. e.port[c][j] = d.port[c][j]
      BY <2>2, <1>1, <1>4, <1>5
    <3>2. PICK q : q = d.port[c][j]
      OBVIOUS
    <3>3. q \in G /\ d.flag[q] /\ d.docked[q] = c /\ d.port[q][0] = j
      BY <2>2, <3>1, <3>2 DEF Sound, Agree
    <3>4. e.port[q][0] = j
      BY <3>3, <1>1, <1>6
    <3> QED
      BY <3>1, <3>2, <3>3, <3>4, <1>4
  <2> QED
    BY <2>1, <2>2 DEF Agree
<1>8. Counted(e, G, B)
  <2>1. \A c : Guests(e, G, c) = Guests(d, G, c)
    BY <1>4 DEF Guests
  <2> QED
    BY <2>1, <1>4 DEF Sound, Counted
<1>9. \A q \in Players : e.flag[q] => e.docked[q] \in Players /\ e.port[q][0] \in Ports
  <2>1. ~d.flag[b]
    BY DEF Sound, Agree
  <2> QED
    BY <2>1, <1>4, <1>6 DEF Sound
<1>10. Sound(e, G, B)
  BY <1>1, <1>4, <1>7, <1>8, <1>9 DEF Sound
<1>11. Keeps(d, e, G)
  BY <1>1, <1>4, <1>6 DEF Keeps
<1> QED
  BY <1>4, <1>10, <1>11 DEF e

(* Away from the base, and ships away from me.                             *)
LEMMA CastingLoose ==
  ASSUME NEW d, NEW G, Sound(d, G, base), NEW p \in G
  PROVE  LET e == CastLoose(d, p) IN
         /\ Sound(e, G, base) /\ ~e.flag[p]
         /\ base[p] => Nobody(e, p)
         /\ Keeps(d, e, G)
<1> DEFINE u == undock_player(d, p)
           v == base_undock(u, p, Ports)
<1>1. Sound(u, G, base) /\ ~u.flag[p] /\ Keeps(d, u, G)
  BY Undocking
<1>2. CASE ~base[p]
  BY <1>1, <1>2 DEF CastLoose
<1>3. CASE base[p]
  <2> HIDE DEF u
  <2>1. /\ Sound(v, G, base) /\ Keeps(u, v, G)
        /\ \A k \in Ports : v.port[p][k] < 0
        /\ v.flag[p] = u.flag[p]
    BY <1>1, <1>3, BaseUndock DEF Sound
  <2> HIDE DEF v
  <2>2. Nobody(v, p)
    BY <2>1 DEF Nobody
  <2>3. SetDocked(v, p, 0) = v
    BY <2>1, <2>2, <1>3, NoGuests
  <2>4. CastLoose(d, p) = v
    BY <1>3, <2>3 DEF CastLoose, u, v
  <2>5. Keeps(d, v, G)
    BY <1>1, <2>1 DEF Keeps
  <2> QED
    BY <1>1, <2>1, <2>2, <2>4, <2>5
<1> QED
  BY <1>2, <1>3

-----------------------------------------------------------------------------
(* The steps *)

(* A ship that is about to dock aims at a vacant port of a base in the     *)
(* game, and nobody else is about to.                                      *)
Aims ==
  \A p \in Players : aim[p] # NoAim =>
    LET b == aim[p][1] k == aim[p][2] IN
    /\ p \in InGame /\ b \in InGame /\ k \in Ports
    /\ base[b] /\ ~base[p] /\ ~moor.flag[p]
    /\ moor.port[b][k] = VACANT
    /\ \A q \in Players \ {p} : aim[q] = NoAim

Types ==
  /\ pstatus \in [Players -> {"POUTFIT", "PALIVE", "PEXPLODE"}]
  /\ aim \in [Players -> (Players \X Ports) \cup {NoAim}]

Inv == Types /\ Sound(moor, InGame, base) /\ Aims

(* What a step does to the moorings of the players in the game: it loosens *)
(* some, or makes one at a vacant port.                                    *)
Loosens ==
  \A q \in InGame' : moor'.flag[q] =>
     /\ q \in InGame /\ moor.flag[q]
     /\ moor'.docked[q] = moor.docked[q] /\ moor'.port[q][0] = moor.port[q][0]

Moored1(p, b, k) ==
  /\ p \in InGame' /\ b \in InGame /\ base[b] /\ moor.port[b][k] = VACANT
  /\ moor'.flag[p] /\ moor'.docked[p] = b /\ moor'.port[p][0] = k
  /\ \A q \in Players \ {p} :
       /\ q \in InGame' <=> q \in InGame
       /\ q \in InGame => /\ moor'.flag[q] = moor.flag[q]
                          /\ moor.flag[q] => /\ moor'.docked[q] = moor.docked[q]
                                             /\ moor'.port[q][0] = moor.port[q][0]

StepIsSound ==
  /\ Types' /\ Sound(moor', InGame', base') /\ Aims'
  /\ Loosens \/ \E p, b \in Players, k \in Ports : Moored1(p, b, k)

LEMMA InvImplies == Inv => TypeOK /\ RecordsAgree /\ BerthsCounted
<1> SUFFICES ASSUME Inv PROVE TypeOK /\ RecordsAgree /\ BerthsCounted
  OBVIOUS
<1>1. TypeOK
  BY DEF Inv, Types, Sound, TypeOK
<1>2. RecordsAgree
  BY DEF Inv, Sound, Agree, RecordsAgree, MooredAt
<1>3. BerthsCounted
  BY DEF Inv, Sound, Counted, Guests, BerthsCounted
<1> QED
  BY <1>1, <1>2, <1>3

LEMMA Initially == Init => Inv
<1> SUFFICES ASSUME Init PROVE Inv
  OBVIOUS
<1> USE DEF Init
<1>1. Types /\ Aims
  BY DEF Types, Aims
<1>2. InGame = {}
  BY DEF InGame
<1>3. moor \in Moors
  BY FirstPort DEF Moors
<1>4. Sound(moor, InGame, base)
  BY <1>2, <1>3 DEF Sound, Agree, Counted
<1> QED
  BY <1>1, <1>4 DEF Inv

(* Without preemption nobody aims anywhere when another process runs.      *)
LEMMA NobodyAims ==
  ASSUME Preempt = FALSE, Quiet, UNCHANGED aim
  PROVE  Aims'
  BY DEF Quiet, Aims

(* A step of a player that leaves everybody in the game in his state.      *)
LEMMA QuietStep ==
  ASSUME Preempt = FALSE, Inv, Quiet, UNCHANGED <<pstatus, base, aim>>,
         Sound(moor', InGame, base), Keeps(moor, moor', InGame)
  PROVE  StepIsSound
<1>1. InGame' = InGame
  BY DEF InGame
<1>2. Types' /\ Aims'
  BY NobodyAims DEF Inv, Types
<1>3. Sound(moor', InGame', base')
  BY <1>1
<1>4. Loosens
  BY <1>1 DEF Loosens, Keeps
<1> QED
  BY <1>2, <1>3, <1>4 DEF StepIsSound

LEMMA UndockStep ==
  ASSUME Preempt = FALSE, Inv, NEW p \in Players, Undock(p) \/ DeclareWar(p) \/ DockingReq(p)
  PROVE  StepIsSound
<1>1. /\ Quiet /\ UNCHANGED <<pstatus, base, aim>> /\ p \in InGame /\ Sound(moor, InGame, base)
  BY DEF Undock, DeclareWar, DockingReq, Handles, InGame, Inv
<1>2. \/ moor' = undock_player(moor, p)
      \/ base[p] /\ \E K \in SUBSET Ports : moor' = base_undock(moor, p, K)
      \/ base[p] /\ moor' = SetDocked(base_undock(moor, p, Ports), p, 0)
  BY DEF Undock, DeclareWar, DockingReq
<1>3. CASE moor' = undock_player(moor, p)
  BY <1>1, <1>3, Undocking, QuietStep
<1>4. ASSUME base[p], NEW K \in SUBSET Ports, moor' = base_undock(moor, p, K)
      PROVE  StepIsSound
  BY <1>1, <1>4, BaseUndock, QuietStep
<1>5. CASE base[p] /\ moor' = SetDocked(base_undock(moor, p, Ports), p, 0)
  <2> DEFINE e == base_undock(moor, p, Ports)
  <2>1. Sound(e, InGame, base) /\ Keeps(moor, e, InGame) /\ \A k \in Ports : e.port[p][k] < 0
    BY <1>1, <1>5, BaseUndock
  <2> HIDE DEF e
  <2>2. SetDocked(e, p, 0) = e
    BY <2>1, <1>1, <1>5, NoGuests DEF Nobody
  <2> QED
    BY <2>1, <2>2, <1>1, <1>5, QuietStep DEF e
<1> QED
  BY <1>2, <1>3, <1>4, <1>5

LEMMA PortStep ==
  ASSUME Preempt = FALSE, Inv, NEW p \in Players, Tractor(p) \/ Repair(p)
  PROVE  StepIsSound
<1>1. /\ Quiet /\ UNCHANGED <<pstatus, base, aim>> /\ p \in InGame /\ Sound(moor, InGame, base)
  BY DEF Tractor, Repair, InGame, Inv
<1>2. CASE Tractor(p)
  <2> DEFINE e == undock_player(moor, p)
             b == moor.docked[p]
             k == moor.port[p][0]
  <2>1. moor.flag[p] /\ moor' = SetPort(e, b, k, PDAMAGE)
    BY <1>2 DEF Tractor
  <2>2. b \in InGame /\ base[b] /\ k \in Ports
    BY <1>1, <2>1 DEF Sound, Agree
  <2>3. Sound(e, InGame, base) /\ Keeps(moor, e, InGame) /\ e.port[b][k] = VACANT
    BY <1>1, <2>1, Undocking
  <2> HIDE DEF e, b, k
  <2>4. Sound(moor', InGame, base) /\ Keeps(e, moor', InGame) /\ moor'.flag = e.flag
    BY <2>1, <2>2, <2>3, Damaging
  <2>5. Keeps(moor, moor', InGame)
    BY <2>3, <2>4 DEF Keeps
  <2> QED
    BY <1>1, <2>4, <2>5, QuietStep
<1>3. CASE Repair(p)
  <2>1. PICK k \in Ports : moor.port[p][k] = PDAMAGE /\ moor' = SetPort(moor, p, k, VACANT)
    BY <1>3 DEF Repair
  <2>2. Sound(moor', InGame, base) /\ Keeps(moor, moor', InGame)
    BY <1>1, <1>3, <2>1, Damaging DEF Repair
  <2> QED
    BY <1>1, <2>2, QuietStep
<1> QED
  BY <1>2, <1>3

LEMMA RefitStep ==
  ASSUME Preempt = FALSE, Inv, NEW p \in Players, NEW isBase \in BOOLEAN, Refit(p, isBase)
  PROVE  StepIsSound
<1> DEFINE e == IF base[p] THEN base_undock(moor, p, Ports) ELSE moor
<1>1. /\ Quiet /\ UNCHANGED <<pstatus, aim>> /\ p \in InGame /\ Sound(moor, InGame, base)
      /\ moor.flag[p] => ~isBase
      /\ moor' = get_ship_for_player(e, p, isBase) /\ base' = [base EXCEPT ![p] = isBase]
  BY DEF Refit, Handles, InGame, Inv
<1>2. Sound(e, InGame, base) /\ Keeps(moor, e, InGame) /\ (base[p] => Nobody(e, p))
  <2>1. CASE base[p]
    BY <1>1, <2>1, BaseUndock DEF Nobody
  <2>2. CASE ~base[p]
    BY <1>1, <2>2 DEF Keeps
  <2> QED
    BY <2>1, <2>2
<1> HIDE DEF e
<1>3. e.flag[p] => ~isBase
  BY <1>1, <1>2 DEF Keeps
<1>4. Sound(moor', InGame, base') /\ Keeps(e, moor', InGame)
  BY <1>1, <1>2, <1>3, Refitting
<1>5. Keeps(moor, moor', InGame)
  BY <1>2, <1>4 DEF Keeps
<1>6. InGame' = InGame
  BY <1>1 DEF InGame
<1>7. Types' /\ Aims'
  BY <1>1, NobodyAims DEF Inv, Types
<1>8. Loosens
  BY <1>5, <1>6 DEF Loosens, Keeps
<1> QED
  BY <1>4, <1>6, <1>7, <1>8 DEF StepIsSound

(* Who leaves the game has cast off everybody.                             *)
LEMMA CastLooseStep ==
  ASSUME Preempt = FALSE, Inv, NEW p \in Players, Evaporate(p) \/ DoShipExplode(p)
  PROVE  StepIsSound
<1>1. /\ Quiet /\ UNCHANGED <<base, aim>> /\ p \in InGame /\ Sound(moor, InGame, base)
      /\ moor' = CastLoose(moor, p)
      /\ pstatus' = [pstatus EXCEPT ![p] = "POUTFIT"] \/ pstatus' = pstatus
  BY DEF Evaporate, DoShipExplode, Handles, InGame, Inv
<1>2. /\ Sound(moor', InGame, base) /\ ~moor'.flag[p] /\ (base[p] => Nobody(moor', p))
      /\ Keeps(moor, moor', InGame)
  BY <1>1, CastingLoose
<1>3. CASE pstatus' = pstatus
  BY <1>1, <1>2, <1>3, QuietStep
<1>4. CASE pstatus' = [pstatus EXCEPT ![p] = "POUTFIT"]
  <2>1. InGame' = InGame \ {p}
    BY <1>4 DEF InGame, Inv, Types
  <2>2. Sound(moor', InGame', base')
    BY <1>1, <1>2, <2>1, Leaving
  <2>3. Types' /\ Aims'
    BY <1>1, <1>4, NobodyAims DEF Inv, Types
  <2>4. Loosens
    BY <1>2, <2>1 DEF Loosens, Keeps
  <2> QED
    BY <2>2, <2>3, <2>4 DEF StepIsSound
<1> QED
  BY <1>1, <1>3, <1>4

LEMMA KillStep ==
  ASSUME Preempt = FALSE, Inv, NEW p \in Players, Kill(p)
  PROVE  StepIsSound
<1> USE DEF Kill
<1>1. InGame' = InGame
  BY DEF InGame, Inv, Types
<1>2. Types' /\ Aims' /\ Sound(moor', InGame', base')
  BY <1>1, NobodyAims DEF Inv, Types
<1>3. Loosens
  BY <1>1 DEF Loosens
<1> QED
  BY <1>2, <1>3 DEF StepIsSound

LEMMA EndGameStep ==
  ASSUME Preempt = FALSE, Inv, EndGame
  PROVE  StepIsSound
<1> USE DEF EndGame
<1>1. InGame' = {}
  BY DEF InGame
<1>2. Types' /\ Aims' /\ Sound(moor', InGame', base')
  BY <1>1, NobodyAims, EverybodyLeaves DEF Inv, Types
<1>3. Loosens
  BY <1>1 DEF Loosens
<1> QED
  BY <1>2, <1>3 DEF StepIsSound

LEMMA ComingIn ==
  ASSUME Sound(moor, InGame, base), NEW p \in Players, p \notin InGame, NEW isBase \in BOOLEAN
  PROVE  LET e == Entered(moor, p, isBase) IN
         /\ Sound(e, InGame \cup {p}, [base EXCEPT ![p] = isBase]) /\ ~e.flag[p]
         /\ \A q \in InGame : e.flag[q] = moor.flag[q] /\ e.docked[q] = moor.docked[q] /\ e.port[q] = moor.port[q]
  BY Joining

LEMMA EnterStep ==
  ASSUME Preempt = FALSE, Inv, NEW p \in Players, NEW isBase \in BOOLEAN, Enter(p, isBase)
  PROVE  StepIsSound
<1>1. /\ p \notin InGame /\ Sound(moor, InGame, base) /\ Quiet /\ UNCHANGED aim
      /\ base' = [base EXCEPT ![p] = isBase] /\ pstatus' = [pstatus EXCEPT ![p] = "PALIVE"]
      /\ moor' = Entered(moor, p, isBase)
  BY DEF Enter, InGame, Inv
<1>2. /\ Sound(moor', InGame \cup {p}, base') /\ ~moor'.flag[p]
      /\ \A q \in InGame : /\ moor'.flag[q] = moor.flag[q] /\ moor'.docked[q] = moor.docked[q]
                           /\ moor'.port[q] = moor.port[q]
  BY <1>1, ComingIn
<1>3. InGame' = InGame \cup {p}
  BY <1>1 DEF InGame, Inv, Types
<1>4. Types' /\ Aims'
  BY <1>1, NobodyAims DEF Inv, Types
<1>5. Loosens
  BY <1>2, <1>3 DEF Loosens
<1> QED
  BY <1>2, <1>3, <1>4, <1>5 DEF StepIsSound

LEMMA LaunchStep ==
  ASSUME Preempt = FALSE, Inv, NEW p \in Players, NEW b \in Players, Launch(p, b)
  PROVE  StepIsSound
<1>1. /\ p \notin InGame /\ b \in InGame /\ base[b] /\ p # b /\ Sound(moor, InGame, base)
      /\ Quiet /\ UNCHANGED aim
      /\ base' = [base EXCEPT ![p] = FALSE] /\ pstatus' = [pstatus EXCEPT ![p] = "PALIVE"]
  BY DEF Launch, InGame, Inv
<1>2. LET e == Entered(moor, p, FALSE) IN
      /\ Sound(e, InGame \cup {p}, [base EXCEPT ![p] = FALSE]) /\ ~e.flag[p]
      /\ \A q \in InGame : e.flag[q] = moor.flag[q] /\ e.docked[q] = moor.docked[q] /\ e.port[q] = moor.port[q]
  BY <1>1, ComingIn
<1> DEFINE e == Entered(moor, p, FALSE)
           H == InGame \cup {p}
<1>3. /\ Sound(e, H, base') /\ p \in H /\ b \in H /\ ~e.flag[p]
      /\ \A q \in InGame : /\ e.flag[q] = moor.flag[q] /\ e.docked[q] = moor.docked[q]
                           /\ e.port[q] = moor.port[q]
  BY <1>1, <1>2
<1>4. InGame' = InGame \cup {p}
  BY <1>1 DEF InGame, Inv, Types
<1>5. Types' /\ Aims'
  BY <1>1, NobodyAims DEF Inv, Types
<1>6. base'[b] /\ ~base'[p]
  BY <1>1 DEF Sound
<1>7. CASE moor' = e
  <2>1. Loosens
    BY <1>3, <1>4, <1>7 DEF Loosens
  <2> QED
    BY <1>3, <1>4, <1>5, <1>7, <2>1 DEF StepIsSound
<1>8. ASSUME NEW k \in VacantPorts(moor, b), moor' = dock_to(e, p, b, k) PROVE StepIsSound
  <2> HIDE DEF e
  <2>1. k \in Ports /\ moor.port[b][k] = VACANT
    BY DEF VacantPorts
  <2>2. e.port[b][k] = VACANT
    BY <1>1, <1>3, <2>1
  <2>3. /\ Sound(moor', InGame \cup {p}, base')
        /\ moor'.flag[p] /\ moor'.docked[p] = b /\ moor'.port[p][0] = k
        /\ \A q \in (InGame \cup {p}) \ {p} : moor'.flag[q] = e.flag[q]
        /\ \A q \in (InGame \cup {p}) \ {p} : e.flag[q] =>
              moor'.docked[q] = e.docked[q] /\ moor'.port[q][0] = e.port[q][0]
    <3> HIDE DEF H
    <3>1. LET d == dock_to(e, p, b, k) IN
          /\ Sound(d, H, base')
          /\ d.flag[p] /\ d.docked[p] = b /\ d.port[p][0] = k
          /\ \A q \in H \ {p} : d.flag[q] = e.flag[q]
          /\ \A q \in H \ {p} : e.flag[q] => d.docked[q] = e.docked[q] /\ d.port[q][0] = e.port[q][0]
      BY <1>3, <1>6, <2>1, <2>2, DockingAt
    <3> QED
      BY <1>8, <3>1 DEF H
  <2>4. Moored1(p, b, k)
    BY <1>1, <1>3, <1>4, <2>1, <2>3 DEF Moored1
  <2> QED
    BY <1>4, <1>5, <2>1, <2>3, <2>4 DEF StepIsSound
<1> QED
  BY <1>7, <1>8 DEF Launch

LEMMA OrbitStep ==
  ASSUME Preempt = FALSE, Inv, NEW p \in Players, Orbit(p)
  PROVE  StepIsSound
<1>1. /\ Quiet /\ UNCHANGED <<pstatus, base>> /\ p \in InGame /\ ~base[p]
      /\ Sound(moor, InGame, base) /\ moor' = undock_player(moor, p)
  BY DEF Orbit, Handles, InGame, Inv
<1>2. Sound(moor', InGame, base) /\ ~moor'.flag[p] /\ Keeps(moor, moor', InGame)
  BY <1>1, Undocking
<1>3. CASE UNCHANGED aim
  BY <1>1, <1>2, <1>3, QuietStep
<1>4. ASSUME NEW b \in Players, NEW k \in VacantPorts(moor', b),
             base[b], pstatus[b] = "PALIVE", aim' = [aim EXCEPT ![p] = <<b, k>>]
      PROVE  StepIsSound
  <2>1. InGame' = InGame /\ b \in InGame
    BY <1>1, <1>4 DEF InGame
  <2>2. k \in Ports /\ moor'.port[b][k] = VACANT
    BY DEF VacantPorts
  <2>3. Types'
    BY <1>1, <1>4, <2>2 DEF Inv, Types
  <2>4. \A q \in Players : aim[q] = NoAim
    BY <1>1 DEF Quiet
  <2>5. /\ aim'[p] = <<b, k>> /\ \A q \in Players \ {p} : aim'[q] = NoAim
    BY <1>4, <2>4 DEF Inv, Types
  <2>6. Aims'
    BY <1>1, <1>2, <1>4, <2>1, <2>2, <2>5 DEF Aims
  <2>7. Loosens
    BY <1>2, <2>1 DEF Loosens, Keeps
  <2> QED
    BY <1>1, <1>2, <2>1, <2>3, <2>6, <2>7 DEF StepIsSound
<1> QED
  BY <1>3, <1>4 DEF Orbit

LEMMA DockStep ==
  ASSUME Preempt = FALSE, Inv, NEW p \in Players, Dock(p)
  PROVE  StepIsSound
<1> DEFINE b == aim[p][1]
           k == aim[p][2]
<1>1. /\ p \in InGame /\ b \in InGame /\ k \in Ports /\ base[b] /\ ~base[p] /\ ~moor.flag[p]
      /\ moor.port[b][k] = VACANT
      /\ \A q \in Players \ {p} : aim[q] = NoAim
      /\ Sound(moor, InGame, base)
  BY DEF Dock, Inv, Aims
<1>2. /\ moor' = dock_to(moor, p, b, k) /\ UNCHANGED <<pstatus, base>>
      /\ aim' = [aim EXCEPT ![p] = NoAim]
  BY DEF Dock
<1> HIDE DEF b, k
<1>3. /\ Sound(moor', InGame, base)
      /\ moor'.flag[p] /\ moor'.docked[p] = b /\ moor'.port[p][0] = k
      /\ \A q \in InGame \ {p} : moor'.flag[q] = moor.flag[q]
      /\ \A q \in InGame \ {p} : moor.flag[q] =>
            moor'.docked[q] = moor.docked[q] /\ moor'.port[q][0] = moor.port[q][0]
  BY <1>1, <1>2, DockingAt
<1>4. InGame' = InGame
  BY <1>2 DEF InGame
<1>5. \A q \in Players : aim'[q] = NoAim
  BY <1>1, <1>2 DEF Inv, Types
<1>6. Types' /\ Aims'
  BY <1>2, <1>5 DEF Inv, Types, Aims
<1>7. b \in Players /\ Moored1(p, b, k)
  BY <1>1, <1>3, <1>4 DEF Moored1, Sound
<1> QED
  BY <1>1, <1>2, <1>3, <1>4, <1>6, <1>7 DEF StepIsSound

LEMMA Steps == ASSUME Preempt = FALSE, Inv, Next PROVE StepIsSound
  BY EndGameStep, OrbitStep, DockStep, UndockStep, CastLooseStep, KillStep, PortStep,
     EnterStep, RefitStep, LaunchStep DEF Next

LEMMA Inductive == Preempt = FALSE /\ Inv /\ [Next]_vars => Inv'
<1> SUFFICES ASSUME Preempt = FALSE, Inv, [Next]_vars PROVE Inv'
  OBVIOUS
<1>1. CASE Next
  BY <1>1, Steps DEF StepIsSound, Inv
<1>2. CASE UNCHANGED vars
  BY <1>2 DEF vars, Inv, Types, Aims, InGame
<1> QED
  BY <1>1, <1>2

-----------------------------------------------------------------------------
(* The results *)

(* The records of moorings are sound, whatever the players do.             *)
THEOREM MooringInvariant == Preempt = FALSE /\ Spec => []Inv
<1> SUFFICES ASSUME Preempt = FALSE PROVE Spec => []Inv
  OBVIOUS
<1>1. Init => Inv
  BY Initially
<1>2. Inv /\ [Next]_vars => Inv'
  BY Inductive
<1> QED
  BY <1>1, <1>2, PTL DEF Spec

(* What is left in the fields of the records is well typed.                *)
THEOREM DockingTyped == Preempt = FALSE /\ Spec => []TypeOK
<1>1. Inv => TypeOK
  BY InvImplies
<1> QED
  BY <1>1, MooringInvariant, PTL

(* The two records of a mooring agree, and both ends are in the game.      *)
THEOREM RecordsAlwaysAgree == Preempt = FALSE /\ Spec => []RecordsAgree
<1>1. Inv => RecordsAgree
  BY InvImplies
<1> QED
  BY <1>1, MooringInvariant, PTL

(* A base counts the ships at its ports.                                   *)
THEOREM BerthsAreCounted == Preempt = FALSE /\ Spec => []BerthsCounted
<1>1. Inv => BerthsCounted
  BY InvImplies
<1> QED
  BY <1>1, MooringInvariant, PTL

(* Docking implements the moorings: one ship to a port.                    *)
LEMMA BerthStep ==
  ASSUME Inv, StepIsSound
  PROVE  [Moored!Next]_Berth
<1>1. ASSUME Loosens PROVE Moored!Next
  <2> DEFINE Left == {q \in Players : Berth'[q] = NoAim}
  <2>1. Berth' = [q \in Players |-> IF q \in Left THEN NoAim ELSE Berth[q]]
    BY <1>1 DEF Loosens, Berth
  <2>2. Left \in SUBSET Players
    OBVIOUS
  <2> QED
    BY <2>1, <2>2 DEF Moored!Next, Moored!CastOff
<1>2. ASSUME NEW p \in Players, NEW b \in Players, NEW k \in Ports, Moored1(p, b, k)
      PROVE  Moored!Next
  <2>1. \A q \in Players \ {p} : Berth[q] # <<b, k>>
    <3> SUFFICES ASSUME NEW q \in Players \ {p}, Berth[q] = <<b, k>> PROVE FALSE
      OBVIOUS
    <3>1. q \in InGame /\ moor.flag[q] /\ moor.docked[q] = b /\ moor.port[q][0] = k
      BY DockingAssumption DEF Berth
    <3>2. moor.port[b][k] = q /\ q >= 0
      BY <3>1, FirstPort DEF Inv, Sound, Agree
    <3> QED
      BY <3>2, <1>2 DEF Moored1, VACANT
  <2>2. Berth' = [Berth EXCEPT ![p] = <<b, k>>]
    <3>1. Berth'[p] = <<b, k>>
      BY <1>2 DEF Moored1, Berth
    <3>2. \A q \in Players \ {p} : Berth'[q] = Berth[q]
      BY <1>2 DEF Moored1, Berth
    <3> QED
      BY <3>1, <3>2 DEF Berth
  <2>3. Moored!Moor(p, <<b, k>>)
    BY <2>1, <2>2 DEF Moored!Moor
  <2> QED
    BY <2>3 DEF Moored!Next
<1> QED
  BY <1>1, <1>2 DEF StepIsSound

(* One ship to a port, one port to a ship: Docking implements the moorings *)
(* that the fields p_docked and p_port of common/plutil.c stand for.       *)
THEOREM ImplementsMoorings == Preempt = FALSE /\ Spec => OneToAPort
<1> SUFFICES ASSUME Preempt = FALSE PROVE Spec => OneToAPort
  OBVIOUS
<1>1. Init => Moored!Init
  BY DEF Init, InGame, Berth, Moored!Init
<1>2. Inv /\ [Next]_vars => [Moored!Next]_Berth
  <2> SUFFICES ASSUME Inv, [Next]_vars PROVE [Moored!Next]_Berth
    OBVIOUS
  <2>1. CASE Next
    BY <2>1, Steps, BerthStep
  <2>2. CASE UNCHANGED vars
    BY <2>2 DEF vars, Berth, InGame
  <2> QED
    BY <2>1, <2>2
<1> QED
  BY <1>1, <1>2, MooringInvariant, PTL DEF Spec, OneToAPort, Moored!Spec

===============================================================================
