-------------------------- MODULE MessageRing_proofs --------------------------
(***************************************************************************)
(* Proofs about MessageRing, for any players, groups of messages, length   *)
(* of the ring and number of messages, when a writer may be interrupted    *)
(* only after it has cleared MVALID, and is not overtaken by a whole ring.  *)
(***************************************************************************)
EXTENDS MessageRing, FiniteSetTheorems, SequenceTheorems, TLAPS

(* The schedules the theorems are about: another process runs only after a  *)
(* writer has cleared MVALID, or has filled the slot and not set it again. *)
Sound == Preempt \subseteq {"fill", "valid"}

-----------------------------------------------------------------------------
(* Slots and sequences. *)

LEMMA SlotIs ==
  ASSUME NEW i \in Int, -MaxMessage <= i, i < 2 * MaxMessage
  PROVE  Slot(i) = IF i < 0 THEN i + MaxMessage
                   ELSE IF i < MaxMessage THEN i ELSE i - MaxMessage
BY MessageRingAssumption DEF Slot

(* The number of writers is a number, and the ring lies within the slots. *)
LEMMA Sizes ==
  /\ IsFiniteSet(Writers) /\ Cardinality(Writers) \in Nat
  /\ MaxMessage \in Nat /\ MaxMessage >= 2 /\ MaxMessage \in Slots
  /\ \A i \in 0 .. MaxMessage - 1 : i \in Slots
  /\ \A i \in Slots : i \in Nat
<1>1. IsFiniteSet(Writers)
  BY MessageRingAssumption, FS_AddElement DEF Writers
<1>2. Cardinality(Writers) \in Nat
  BY <1>1, FS_CardinalityType
<1>3. MaxMessage \in Nat /\ MaxMessage >= 2
  BY MessageRingAssumption
<1> DEFINE n == Cardinality(Writers)
<1> HIDE DEF n
<1>4. n \in Nat
  BY <1>2 DEF n
<1>5. Slots = 0 .. MaxMessage + n
  BY DEF Slots, n
<1> QED BY <1>1, <1>2, <1>3, <1>4, <1>5

(* A function on 1 .. n is a sequence of length n. *)
LEMMA MakeSeq ==
  ASSUME NEW S, NEW n \in Nat, NEW f \in [1 .. n -> S]
  PROVE  f \in Seq(S) /\ Len(f) = n
<1>1. f \in Seq(S)
  BY IsASeq
<1>2. DOMAIN f = 1 .. n
  OBVIOUS
<1>3. Len(f) \in Nat /\ DOMAIN f = 1 .. Len(f)
  BY <1>1, LenProperties
<1> QED BY <1>1, <1>2, <1>3

-----------------------------------------------------------------------------
(* Who is at work, and where the next message will be claimed. *)

(* At most one writer is between counting on and claiming. *)
LEMMA Counting ==
  ASSUME NEW f, NEW w \in Writers, \A v \in Writers \ {w} : f[v] \in Parked
  PROVE  Cardinality({v \in Writers : f[v] \in {"roll", "claim"}})
           = IF f[w] \in {"roll", "claim"} THEN 1 ELSE 0
<1> DEFINE C == {v \in Writers : f[v] \in {"roll", "claim"}}
<1>1. \A v \in Writers \ {w} : v \notin C
  BY DEF Parked
<1>2. CASE f[w] \in {"roll", "claim"}
  <2>1. C = {w}
    BY <1>1, <1>2
  <2> QED BY <1>2, <2>1, FS_Singleton
<1>3. CASE f[w] \notin {"roll", "claim"}
  <2>1. C = {}
    BY <1>1, <1>3
  <2> QED BY <1>3, <2>1, FS_EmptySet
<1> QED BY <1>2, <1>3

Lead == Slot(Claimed + 1)
LeadOf(c, s) == IF s \in {"roll", "claim"} THEN Slot(c) ELSE Slot(c + 1)

LEMMA LeadIs ==
  ASSUME NEW w \in Writers, mc_current \in 0 .. MaxMessage
  PROVE  /\ (\A v \in Writers \ {w} : pc[v] \in Parked) => Lead = LeadOf(mc_current, pc[w])
         /\ LeadOf(mc_current, pc[w]) \in 0 .. MaxMessage - 1
<1>1. ASSUME \A v \in Writers \ {w} : pc[v] \in Parked
      PROVE  Claimed = mc_current - (IF pc[w] \in {"roll", "claim"} THEN 1 ELSE 0)
  BY <1>1, Counting DEF Claimed
<1>2. /\ (mc_current - 1) + 1 = mc_current /\ (mc_current - 0) + 1 = mc_current + 1
  OBVIOUS
<1>3. LeadOf(mc_current, pc[w]) \in 0 .. MaxMessage - 1
  <2>1. Slot(mc_current) \in 0 .. MaxMessage - 1
    BY Sizes, SlotIs
  <2>2. Slot(mc_current + 1) \in 0 .. MaxMessage - 1
    BY Sizes, SlotIs
  <2> QED BY <2>1, <2>2 DEF LeadOf
<1>4. ASSUME \A v \in Writers \ {w} : pc[v] \in Parked
      PROVE  Lead = LeadOf(mc_current, pc[w])
  <2>1. CASE pc[w] \in {"roll", "claim"}
    BY <1>1, <1>2, <1>4, <2>1 DEF Lead, LeadOf
  <2>2. CASE pc[w] \notin {"roll", "claim"}
    BY <1>1, <1>2, <1>4, <2>2 DEF Lead, LeadOf
  <2> QED BY <2>1, <2>2
<1> QED BY <1>3, <1>4

(* What waits for a player, counted from where the next message goes. *)
Gap(l, m) == IF m <= l THEN l - m ELSE l - m + MaxMessage
LagOf(l, m, a) == IF l = m THEN (IF a THEN MaxMessage ELSE 0) ELSE Gap(l, m)
Calm == Types /\ \E w \in Writers : \A v \in Writers \ {w} : pc[v] \in Parked

LEMMA LagIs ==
  Calm =>
    /\ Lead \in 0 .. MaxMessage - 1
    /\ \A p \in Players :
         /\ Lag(p) = LagOf(Lead, msgCurrent[p], Answering(p))
         /\ Lag(p) \in 0 .. MaxMessage
<1> SUFFICES ASSUME Calm, NEW p \in Players
             PROVE  /\ Lead \in 0 .. MaxMessage - 1
                    /\ Lag(p) = LagOf(Lead, msgCurrent[p], Answering(p))
                    /\ Lag(p) \in 0 .. MaxMessage
  BY LeadIs DEF Calm, Types
<1>1. PICK w \in Writers : \A v \in Writers \ {w} : pc[v] \in Parked
  BY DEF Calm
<1> DEFINE c == Claimed + 1
           m == msgCurrent[p]
<1>2. Lead \in 0 .. MaxMessage - 1
  BY <1>1, LeadIs DEF Calm, Types
<1>3. c \in 0 .. MaxMessage + 1
  <2>1. mc_current \in 0 .. MaxMessage
    BY DEF Calm, Types
  <2>2. Claimed \in {mc_current, mc_current - 1}
    BY <1>1, <2>1, Counting DEF Claimed
  <2>3. ASSUME Claimed = mc_current - 1 PROVE c \in 0 .. MaxMessage + 1
    BY <2>1, <2>3, Sizes
  <2>4. ASSUME Claimed = mc_current PROVE c \in 0 .. MaxMessage + 1
    BY <2>1, <2>4, Sizes
  <2> QED BY <2>2, <2>3, <2>4
<1>4. m \in 0 .. MaxMessage - 1
  BY DEF Calm, Types
<1>5. Lead = Slot(c)
  BY DEF Lead
<1> HIDE DEF c, m
<1>6. Slot(c - m) = Gap(Lead, m)
  <2>1. Slot(c) = IF c < MaxMessage THEN c ELSE c - MaxMessage
    BY <1>3, SlotIs, Sizes
  <2>2. Slot(c - m) = IF c - m < 0 THEN (c - m) + MaxMessage
                      ELSE IF c - m < MaxMessage THEN c - m ELSE (c - m) - MaxMessage
    <3>1. c - m \in Int /\ -MaxMessage <= c - m /\ c - m < 2 * MaxMessage
      BY <1>3, <1>4, Sizes
    <3> QED BY <3>1, SlotIs
  <2>3. Lead = IF c < MaxMessage THEN c ELSE c - MaxMessage
    BY <1>5, <2>1
  <2> QED BY <1>3, <1>4, <2>2, <2>3, Sizes DEF Gap
<1>7. Gap(Lead, m) \in 0 .. MaxMessage /\ (Gap(Lead, m) = 0 <=> Lead = m)
  BY <1>2, <1>4, Sizes DEF Gap
<1>8. Lag(p) = LET d == Slot(c - m) IN
               IF d = 0 /\ Answering(p) THEN MaxMessage ELSE d
  <2>1. Claimed \in Int
    <3>1. mc_current \in Int
      BY DEF Calm, Types
    <3>2. Claimed \in {mc_current, mc_current - 1}
      BY <1>1, <3>1, Counting DEF Claimed
    <3> QED BY <3>1, <3>2
  <2>2. m \in Int
    BY <1>4
  <2>3. Claimed + 1 - m = c - m
    BY <2>1, <2>2 DEF c
  <2> QED BY <2>3, Zenon DEF Lag, m
<1>9. Lag(p) = LagOf(Lead, m, Answering(p))
  BY <1>6, <1>7, <1>8, Zenon DEF LagOf
<1>10. Lag(p) \in 0 .. MaxMessage
  BY <1>7, <1>9, Sizes DEF LagOf
<1> QED BY <1>2, <1>9, <1>10 DEF m

LEMMA LagIsNext ==
  ASSUME Calm'
  PROVE  /\ Lead' \in 0 .. MaxMessage - 1
         /\ \A p \in Players :
              /\ Lag(p)' = LagOf(Lead', msgCurrent'[p], Answering(p)')
              /\ Lag(p)' \in 0 .. MaxMessage
<1>1. (Calm =>
         /\ Lead \in 0 .. MaxMessage - 1
         /\ \A p \in Players :
              /\ Lag(p) = LagOf(Lead, msgCurrent[p], Answering(p))
              /\ Lag(p) \in 0 .. MaxMessage)'
  BY LagIs, PTL
<1> QED BY <1>1

LEMMA WaitingIs ==
  Calm => \A p \in Players :
    /\ Waiting(p) \in Seq({At(i) : i \in 0 .. MaxMessage - 1}) /\ Len(Waiting(p)) = Lag(p)
    /\ \A k \in 1 .. Lag(p) :
         /\ Slot(msgCurrent[p] + k - 1) \in 0 .. MaxMessage - 1
         /\ \A i \in 0 .. MaxMessage - 1 :
              i = Slot(msgCurrent[p] + k - 1) => Waiting(p)[k] = At(i)
<1> SUFFICES ASSUME Calm, NEW p \in Players
             PROVE  /\ Waiting(p) \in Seq({At(i) : i \in 0 .. MaxMessage - 1})
                    /\ Len(Waiting(p)) = Lag(p)
                    /\ \A k \in 1 .. Lag(p) :
                         /\ Slot(msgCurrent[p] + k - 1) \in 0 .. MaxMessage - 1
                         /\ \A i \in 0 .. MaxMessage - 1 :
                              i = Slot(msgCurrent[p] + k - 1) => Waiting(p)[k] = At(i)
  OBVIOUS
<1> DEFINE n == Lag(p)
           m == msgCurrent[p]
           A == {At(i) : i \in 0 .. MaxMessage - 1}
<1>1. n \in 0 .. MaxMessage /\ m \in 0 .. MaxMessage - 1
  BY LagIs DEF Calm, Types
<1>2. ASSUME NEW k \in 1 .. n
      PROVE  Slot(m + k - 1) \in 0 .. MaxMessage - 1
  <2> HIDE DEF n, m
  <2>1. m + k - 1 \in 0 .. 2 * MaxMessage - 1
    BY <1>1, Sizes
  <2> QED BY <2>1, SlotIs, Sizes
<1>3. Waiting(p) = [k \in 1 .. n |-> At(Slot(m + k - 1))]
  BY DEF Waiting
<1> HIDE DEF n, m
<1>4. \A k \in 1 .. n : At(Slot(m + k - 1)) \in A
  BY <1>2
<1>5. Waiting(p) \in [1 .. n -> A] /\ n \in Nat
  BY <1>1, <1>3, <1>4, Sizes
<1> HIDE DEF A
<1>6. Waiting(p) \in Seq(A) /\ Len(Waiting(p)) = n
  BY <1>5, MakeSeq
<1> QED BY <1>2, <1>3, <1>6 DEF A, m, n

LEMMA WaitingIsNext ==
  ASSUME Calm'
  PROVE  \A p \in Players :
    /\ Waiting(p)' \in Seq({At(i)' : i \in 0 .. MaxMessage - 1})
    /\ Len(Waiting(p)') = Lag(p)'
    /\ \A k \in 1 .. Lag(p)' :
         /\ Slot(msgCurrent'[p] + k - 1) \in 0 .. MaxMessage - 1
         /\ \A i \in 0 .. MaxMessage - 1 :
              i = Slot(msgCurrent'[p] + k - 1) => Waiting(p)'[k] = At(i)'
<1>1. (Calm => \A p \in Players :
        /\ Waiting(p) \in Seq({At(i) : i \in 0 .. MaxMessage - 1}) /\ Len(Waiting(p)) = Lag(p)
        /\ \A k \in 1 .. Lag(p) :
             /\ Slot(msgCurrent[p] + k - 1) \in 0 .. MaxMessage - 1
             /\ \A i \in 0 .. MaxMessage - 1 :
                  i = Slot(msgCurrent[p] + k - 1) => Waiting(p)[k] = At(i))'
  BY WaitingIs, PTL
<1> QED BY <1>1

(* Two sequences with the same elements are equal. *)
LEMMA SameSeq ==
  ASSUME NEW S, NEW T, NEW s \in Seq(S), NEW t \in Seq(T), Len(s) = Len(t),
         \A k \in 1 .. Len(s) : s[k] = t[k]
  PROVE  s = t
<1>1. s \in [1 .. Len(s) -> S] /\ t \in [1 .. Len(t) -> T]
  BY SeqDef, LenProperties
<1>2. s = [k \in 1 .. Len(s) |-> s[k]] /\ t = [k \in 1 .. Len(t) |-> t[k]]
  BY <1>1
<1> QED BY <1>2

-----------------------------------------------------------------------------
(* What a step makes of the messages that wait for p. *)

SameSlots == \A i \in Slots : At(i)' = At(i)

(* Nothing, when it moves neither the slots nor p. *)
LEMMA StillWaiting ==
  ASSUME Calm, Calm', SameSlots, Lead' = Lead, NEW p \in Players,
         msgCurrent'[p] = msgCurrent[p],
         Lead = msgCurrent[p] => (Answering(p)' <=> Answering(p))
  PROVE  Lag(p)' = Lag(p) /\ Waiting(p)' = Waiting(p)
<1>1. Lag(p)' = Lag(p)
  <2>1. /\ Lag(p) = LagOf(Lead, msgCurrent[p], Answering(p))
        /\ Lag(p)' = LagOf(Lead', msgCurrent'[p], Answering(p)')
    BY LagIs, LagIsNext
  <2>2. CASE Lead = msgCurrent[p]
    BY <2>1, <2>2, Zenon DEF LagOf
  <2>3. CASE Lead # msgCurrent[p]
    BY <2>1, <2>3, Zenon DEF LagOf
  <2> QED BY <2>2, <2>3
<1>2. ASSUME NEW k \in 1 .. Lag(p)
      PROVE  Waiting(p)'[k] = Waiting(p)[k]
  <2>1. PICK i \in 0 .. MaxMessage - 1 : i = Slot(msgCurrent[p] + k - 1)
    BY WaitingIs
  <2>2. Waiting(p)[k] = At(i) /\ i = Slot(msgCurrent'[p] + k - 1)
    BY <2>1, WaitingIs
  <2>3. Waiting(p)'[k] = At(i)'
    BY <1>1, <2>1, <2>2, WaitingIsNext
  <2> QED BY <2>1, <2>2, <2>3, Sizes DEF SameSlots
<1>3. Waiting(p)' = Waiting(p)
  <2>1. Waiting(p) \in Seq({At(i) : i \in 0 .. MaxMessage - 1}) /\ Len(Waiting(p)) = Lag(p)
    BY WaitingIs
  <2>2. /\ Waiting(p)' \in Seq({At(i)' : i \in 0 .. MaxMessage - 1})
        /\ Len(Waiting(p)') = Lag(p)'
    BY WaitingIsNext
  <2> HIDE DEF Waiting
  <2> QED BY <1>1, <1>2, <2>1, <2>2, SameSeq
<1> QED BY <1>1, <1>3

LEMMA SlotNext ==
  ASSUME NEW m \in 0 .. MaxMessage - 1
  PROVE  /\ Slot(m + 1) = IF m = MaxMessage - 1 THEN 0 ELSE m + 1
         /\ Slot(m + 1) \in 0 .. MaxMessage - 1 /\ Slot(m + 1) # m /\ Slot(m) = m
         /\ \A k \in 1 .. MaxMessage - 1 : Slot(Slot(m + 1) + k - 1) = Slot(m + (k + 1) - 1)
<1>1. Slot(m + 1) = IF m = MaxMessage - 1 THEN 0 ELSE m + 1
  <2>1. m + 1 \in 1 .. MaxMessage
    BY Sizes
  <2> QED BY <2>1, SlotIs, Sizes
<1>2. Slot(m) = m
  BY SlotIs, Sizes
<1>3. ASSUME NEW k \in 1 .. MaxMessage - 1
      PROVE  Slot(Slot(m + 1) + k - 1) = Slot(m + (k + 1) - 1)
  <2>1. m + (k + 1) - 1 = m + k
    BY Sizes
  <2>2. m + k \in 0 .. 2 * MaxMessage - 1
    BY Sizes
  <2>3. Slot(m + k) = IF m + k < MaxMessage THEN m + k ELSE m + k - MaxMessage
    BY <2>2, SlotIs, Sizes
  <2>4. CASE m = MaxMessage - 1
    <3>1. Slot(0 + k - 1) = k - 1
      BY SlotIs, Sizes
    <3>2. m + k - MaxMessage = k - 1 /\ ~(m + k < MaxMessage)
      BY <2>4, Sizes
    <3> QED BY <1>1, <2>1, <2>3, <2>4, <3>1, <3>2
  <2>5. CASE m # MaxMessage - 1
    <3>1. m + 1 + k - 1 = m + k
      BY Sizes
    <3>2. Slot(m + 1) = m + 1
      BY <1>1, <2>5
    <3> QED BY <2>1, <3>1, <3>2
  <2> QED BY <2>4, <2>5
<1> QED BY <1>1, <1>2, <1>3, Sizes

(* p passes a slot over. *)
LEMMA PassedOver ==
  ASSUME Calm, Calm', SameSlots, Lead' = Lead, NEW p \in Players,
         msgCurrent'[p] = Slot(msgCurrent[p] + 1),
         Lead = msgCurrent[p] => Answering(p), ~Answering(p)'
  PROVE  /\ Lag(p) \in Nat \ {0} /\ Lag(p)' = Lag(p) - 1
         /\ Waiting(p) # <<>> /\ Head(Waiting(p)) = At(msgCurrent[p])
         /\ Waiting(p)[1] = At(msgCurrent[p])
         /\ Waiting(p)' = Tail(Waiting(p))
         /\ \A k \in 1 .. Lag(p)' : Waiting(p)'[k] = Waiting(p)[k + 1]
<1> DEFINE n == Lag(p)
           m == msgCurrent[p]
           l == Lead
           w == Waiting(p)
<1>1. m \in 0 .. MaxMessage - 1 /\ l \in 0 .. MaxMessage - 1
  BY LagIs DEF Calm, Types
<1>2. n = LagOf(l, m, Answering(p)) /\ Lag(p)' = LagOf(l, Slot(m + 1), FALSE)
  <2>1. Lag(p)' = LagOf(Lead', msgCurrent'[p], Answering(p)')
    BY LagIsNext
  <2>2. LagOf(Lead', msgCurrent'[p], Answering(p)') = LagOf(Lead', msgCurrent'[p], FALSE)
    BY Zenon DEF LagOf
  <2> QED BY <2>1, <2>2, LagIs
<1>3. n = IF l = m THEN MaxMessage ELSE Gap(l, m)
  BY <1>2, Zenon DEF LagOf
<1>4. Lag(p)' = IF l = Slot(m + 1) THEN 0 ELSE Gap(l, Slot(m + 1))
  BY <1>2, Zenon DEF LagOf
<1>5. w \in Seq({At(i) : i \in 0 .. MaxMessage - 1}) /\ Len(w) = n
  BY WaitingIs
<1>6. w[1] = At(m) \/ n = 0
  <2>1. n \in 0 .. MaxMessage
    BY LagIs
  <2>2. n # 0 => 1 \in 1 .. n
    BY <2>1, Sizes
  <2>3. Slot(m + 1 - 1) = m
    <3>1. m + 1 - 1 = m
      BY <1>1
    <3> QED BY <1>1, <3>1, SlotNext
  <2> QED BY <1>1, <2>2, <2>3, WaitingIs
<1> HIDE DEF n, m, l, w
<1>7. n \in 1 .. MaxMessage /\ Lag(p)' = n - 1
  BY <1>1, <1>3, <1>4, SlotNext, Sizes DEF Gap
<1>8. ASSUME NEW k \in 1 .. n - 1
      PROVE  Waiting(p)'[k] = w[k + 1]
  <2>1. k \in 1 .. Lag(p)' /\ k + 1 \in 1 .. n /\ k \in 1 .. MaxMessage - 1
    BY <1>7, Sizes
  <2>2. PICK i \in 0 .. MaxMessage - 1 : i = Slot(m + (k + 1) - 1)
    BY <2>1, WaitingIs DEF n, m
  <2>3. w[k + 1] = At(i) /\ i = Slot(msgCurrent'[p] + k - 1)
    <3>1. w[k + 1] = At(i)
      BY <2>1, <2>2, WaitingIs DEF n, m, w
    <3>2. i = Slot(msgCurrent'[p] + k - 1)
      BY <1>1, <2>1, <2>2, SlotNext DEF m
    <3> QED BY <3>1, <3>2
  <2>4. Waiting(p)'[k] = At(i)'
    BY <2>1, <2>2, <2>3, WaitingIsNext
  <2> QED BY <2>2, <2>3, <2>4, Sizes DEF SameSlots
<1>9. w # <<>> /\ Head(w) = w[1] /\ Len(Tail(w)) = n - 1
      /\ Tail(w) \in Seq({At(i) : i \in 0 .. MaxMessage - 1})
      /\ \A k \in 1 .. n - 1 : Tail(w)[k] = w[k + 1]
  <2>1. w # <<>>
    <3>1. n # 0
      BY <1>7
    <3> QED BY <1>5, <3>1, EmptySeq
  <2> QED BY <1>5, <2>1, HeadTailProperties
<1>10. Waiting(p)' = Tail(w)
  <2>1. Waiting(p)' \in Seq({At(i)' : i \in 0 .. MaxMessage - 1}) /\ Len(Waiting(p)') = n - 1
    BY <1>7, WaitingIsNext
  <2>2. \A k \in 1 .. Len(Waiting(p)') : Waiting(p)'[k] = Tail(w)[k]
    BY <1>8, <1>9, <2>1
  <2> QED BY <1>9, <2>1, <2>2, SameSeq
<1> QED BY <1>6, <1>7, <1>8, <1>9, <1>10 DEF n, m, l, w

-----------------------------------------------------------------------------
(* Reading the slots. *)

LEMMA AtIs ==
  Types /\ Places =>
    /\ \A i \in Slots : Writing(i) = {} => At(i) = Text(messages[i])
    /\ \A i \in Slots : \A w \in Writers :
         w \in Writing(i) => Writing(i) = {w} /\ At(i) = Text(job[w])
    /\ \A i \in Slots : At(i) = [letter |-> At(i).letter, text |-> At(i).text]
<1> SUFFICES ASSUME Types, Places, NEW i \in Slots
             PROVE  /\ Writing(i) = {} => At(i) = Text(messages[i])
                    /\ \A w \in Writers :
                         w \in Writing(i) => Writing(i) = {w} /\ At(i) = Text(job[w])
                    /\ At(i) = [letter |-> At(i).letter, text |-> At(i).text]
  BY Zenon
<1>1. Writing(i) = {} => At(i) = Text(messages[i])
  BY DEF At
<1>2. ASSUME NEW w \in Writers, w \in Writing(i)
      PROVE  Writing(i) = {w} /\ At(i) = Text(job[w])
  <2>1. pc[w] \in {"fill", "valid"} /\ job[w].slot = i
    BY <1>2 DEF Writing
  <2>2. \A v \in Writing(i) : v = w
    BY <2>1, Zenon DEF Places
  <2>3. Writing(i) = {w}
    BY <1>2, <2>2
  <2>4. (CHOOSE v \in Writing(i) : TRUE) = w
    BY <1>2, <2>2
  <2> QED BY <2>3, <2>4 DEF At
<1>3. At(i) = [letter |-> At(i).letter, text |-> At(i).text]
  <2> DEFINE x == IF Writing(i) = {} THEN messages[i] ELSE job[CHOOSE w \in Writing(i) : TRUE]
  <2>1. At(i) = Text(x)
    BY DEF At
  <2> HIDE DEF x
  <2> QED BY <2>1 DEF Text
<1> QED BY <1>1, <1>2, <1>3

LEMMA AtIsNext ==
  ASSUME Types', Places'
  PROVE  /\ \A i \in Slots : Writing(i)' = {} => At(i)' = Text(messages'[i])
         /\ \A i \in Slots : \A w \in Writers :
              w \in Writing(i)' => Writing(i)' = {w} /\ At(i)' = Text(job'[w])
<1>1. (Types /\ Places =>
        /\ \A i \in Slots : Writing(i) = {} => At(i) = Text(messages[i])
        /\ \A i \in Slots : \A w \in Writers :
             w \in Writing(i) => Writing(i) = {w} /\ At(i) = Text(job[w])
        /\ \A i \in Slots : At(i) = [letter |-> At(i).letter, text |-> At(i).text])'
  BY AtIs, PTL
<1> QED BY <1>1

(* All but w stand still, and only w was at work. *)
Still(w) == \A v \in Writers \ {w} : pc[v] \in Parked /\ pc'[v] = pc[v] /\ job'[v] = job[v]

LEMMA StillCalm ==
  ASSUME Types, Types', NEW w \in Writers, Still(w)
  PROVE  Calm /\ Calm'
<1>1. \A v \in Writers \ {w} : pc[v] \in Parked
  BY DEF Still
<1>2. \A v \in Writers \ {w} : pc'[v] \in Parked
  BY DEF Still
<1> QED BY <1>1, <1>2 DEF Calm

LEMMA LeadOfAny ==
  \A u \in Writers : mc_current \in 0 .. MaxMessage =>
    /\ (\A v \in Writers \ {u} : pc[v] \in Parked) => Lead = LeadOf(mc_current, pc[u])
    /\ LeadOf(mc_current, pc[u]) \in 0 .. MaxMessage - 1
BY LeadIs

LEMMA LeadMoves ==
  ASSUME Types, Types', NEW w \in Writers, Still(w)
  PROVE  /\ Lead = LeadOf(mc_current, pc[w]) /\ Lead' = LeadOf(mc_current', pc'[w])
         /\ Lead \in 0 .. MaxMessage - 1 /\ Lead' \in 0 .. MaxMessage - 1
<1>1. Lead = LeadOf(mc_current, pc[w]) /\ Lead \in 0 .. MaxMessage - 1
  BY LeadIs DEF Types, Still
<1>2. \A v \in Writers \ {w} : pc'[v] \in Parked
  BY DEF Still
<1>3. (\A u \in Writers : mc_current \in 0 .. MaxMessage =>
        /\ (\A v \in Writers \ {u} : pc[v] \in Parked) => Lead = LeadOf(mc_current, pc[u])
        /\ LeadOf(mc_current, pc[u]) \in 0 .. MaxMessage - 1)'
  BY LeadOfAny, PTL
<1>4. mc_current' \in 0 .. MaxMessage
  BY DEF Types
<1> QED BY <1>1, <1>2, <1>3, <1>4

(* Who is not between "fill" and "valid" does not touch what is in a slot. *)
LEMMA Untouched ==
  ASSUME NEW w \in Writers, Still(w), messages' = messages,
         pc[w] \notin {"fill", "valid"}, pc'[w] \notin {"fill", "valid"}
  PROVE  SameSlots /\ \A i \in Slots : Writing(i)' = Writing(i)
<1> SUFFICES ASSUME NEW i \in Slots
             PROVE  At(i)' = At(i) /\ Writing(i)' = Writing(i)
  BY DEF SameSlots
<1>1. \A v \in Writers : /\ v \in Writing(i)' <=> v \in Writing(i)
                         /\ v \in Writing(i) => job'[v] = job[v]
  BY DEF Still, Writing
<1>2. Writing(i)' = Writing(i) /\ Writing(i) \subseteq Writers
  BY <1>1 DEF Writing
<1>3. CASE Writing(i) = {}
  BY <1>2, <1>3 DEF At
<1>4. CASE Writing(i) # {}
  <2>1. (CHOOSE v \in Writing(i) : TRUE) \in Writing(i)
    BY <1>4
  <2>2. PICK v \in Writing(i) : v = (CHOOSE u \in Writing(i) : TRUE)
    BY <2>1
  <2>3. job'[v] = job[v]
    BY <1>1, <1>2
  <2>4. At(i) = Text(job[v])
    BY <1>4, <2>2 DEF At
  <2>5. v = (CHOOSE u \in Writing(i)' : TRUE)
    BY <1>2, <2>2
  <2>6. At(i)' = Text(job'[v])
    BY <1>2, <1>4, <2>5 DEF At
  <2> QED BY <1>2, <2>3, <2>4, <2>6
<1> QED BY <1>2, <1>3, <1>4

-----------------------------------------------------------------------------
(* Types, and who acts. *)

LEMMA Acting ==
  ASSUME Sound, NEW w \in Writers, Running(w)
  PROVE  \A v \in Writers \ {w} : pc[v] \in Parked
BY DEF Sound, Running, Parked

LEMMA StillActs ==
  ASSUME Sound, Types
  PROVE  /\ \A w \in Writers : Post(w) \/ RollOver(w) \/ Claim(w) \/ Fill(w) \/ Validate(w)
                                 => Still(w)
         /\ \A p \in Players : Test(p) \/ Copy(p) \/ Bounce(p) \/ Answered(p) \/ Reconnect(p)
                                 => Still(p)
<1> USE DEF Types
<1>0. \A p \in Players : p \in Writers
  BY DEF Writers
<1>1. ASSUME NEW w \in Writers, Post(w) PROVE Still(w)
  BY <1>1, Acting DEF Post, Advance, Still
<1>2. ASSUME NEW w \in Writers, RollOver(w) PROVE Still(w)
  BY <1>2, Acting DEF RollOver, Still
<1>3. ASSUME NEW w \in Writers, Claim(w) PROVE Still(w)
  BY <1>3, Acting DEF Claim, Still
<1>4. ASSUME NEW w \in Writers, Fill(w) PROVE Still(w)
  BY <1>4, Acting DEF Fill, Still
<1>5. ASSUME NEW w \in Writers, Validate(w) PROVE Still(w)
  BY <1>5, Acting DEF Validate, Still
<1>6. ASSUME NEW p \in Players, Test(p) PROVE Still(p)
  BY <1>0, <1>6, Acting DEF Test, Onwards, Still
<1>7. ASSUME NEW p \in Players, Copy(p) PROVE Still(p)
  <2>1. Running(p) /\ job' = job /\ \A v \in Writers \ {p} : pc'[v] = pc[v]
    BY <1>0, <1>7 DEF Copy, Onwards
  <2> QED BY <1>0, <2>1, Acting DEF Still
<1>8. ASSUME NEW p \in Players, Bounce(p) PROVE Still(p)
  BY <1>0, <1>8, Acting DEF Bounce, Advance, Still
<1>9. ASSUME NEW p \in Players, Answered(p) PROVE Still(p)
  BY <1>0, <1>9, Acting DEF Answered, Onwards, Still
<1>10. ASSUME NEW p \in Players, Reconnect(p) PROVE Still(p)
  BY <1>0, <1>10, Acting DEF Reconnect, Still
<1> QED BY <1>1, <1>2, <1>3, <1>4, <1>5, <1>6, <1>7, <1>8, <1>9, <1>10

(* Before a writer counts on, mc_current is within the ring. *)
LEMMA CountWithin ==
  ASSUME Types, Places, NEW w \in Writers, pc[w] # "roll",
         \A v \in Writers \ {w} : pc[v] \in Parked
  PROVE  mc_current \in 0 .. MaxMessage - 1
<1>1. mc_current \in 0 .. MaxMessage
  BY DEF Types
<1>2. mc_current # MaxMessage
  <2>1. \A v \in Writers : pc[v] # "roll"
    BY DEF Parked
  <2> QED BY <2>1 DEF Places
<1> QED BY <1>1, <1>2, Sizes

LEMMA LettersPosted ==
  /\ \A l \in Letter : l \in Letters
  /\ \A p, q \in Players : Reply(p, q) \in Letters
<1>1. ASSUME NEW p \in Players, NEW q \in Players
      PROVE  Reply(p, q) \in Letters
  <2>1. Reply(p, q) = Reply(q, q)
    BY DEF Reply
  <2> QED BY <2>1 DEF Letters
<1> QED BY <1>1 DEF Letters

LEMMA MoreShown ==
  ASSUME Types, numbered' \in {numbered, numbered + 1}
  PROVE  Shown \subseteq Shown' /\ Shown' = [letter : Letters, text : 1 .. numbered']
<1>1. Shown' = [letter : Letters, text : 1 .. numbered']
  BY DEF Shown, Letters, Letter
<1>2. numbered \in Nat /\ \A t \in 1 .. numbered : t \in 1 .. numbered'
  BY DEF Types
<1> QED BY <1>1, <1>2 DEF Shown

LEMMA AdvanceTypes ==
  ASSUME Types, Places, NEW w \in Writers, pc[w] # "roll",
         \A v \in Writers \ {w} : pc[v] \in Parked,
         NEW l \in Letters, NEW a \in BOOLEAN, Advance(w, l, a),
         posted' \in 0 .. MaxPosts, replies' \in [Players -> Seq(Players)]
  PROVE  Types'
<1>1. mc_current \in 0 .. MaxMessage - 1
  BY CountWithin
<1>2. mc_current' \in 0 .. MaxMessage /\ mc_current + 1 \in 0 .. MaxMessage
  BY <1>1, Sizes DEF Advance
<1>3. numbered' \in Nat /\ numbered + 1 \in Nat
  BY DEF Advance, Types
<1>4. messages' \in [Slots -> [valid : BOOLEAN, letter : Letters \cup {None}, text : Nat]]
  BY DEF Advance, Types
<1>5. job' \in [Writers -> [letter : Letters \cup {None}, text : Nat,
                            slot : 0 .. MaxMessage, answer : BOOLEAN]]
  <2> DEFINE J == [letter : Letters \cup {None}, text : Nat,
                   slot : 0 .. MaxMessage, answer : BOOLEAN]
  <2>1. [letter |-> l, text |-> numbered + 1, slot |-> mc_current + 1, answer |-> a] \in J
    BY <1>2, <1>3
  <2>2. job \in [Writers -> J]
    BY DEF Types
  <2> HIDE DEF J
  <2>3. job' \in [Writers -> J]
    BY <2>1, <2>2 DEF Advance
  <2> QED BY <2>3 DEF J
<1>6. /\ pc' \in [Writers -> {"idle", "roll", "claim", "fill", "valid", "copy", "reply"}]
      /\ pc'[God] \notin {"copy", "reply"}
  BY DEF Advance, Types, Writers
<1>7. shown' \in [Players -> Shown' \cup {None}]
  <2>1. Shown \subseteq Shown'
    BY MoreShown DEF Advance
  <2> QED BY <2>1 DEF Advance, Types
<1>8. msgCurrent' \in [Players -> 0 .. MaxMessage - 1]
  BY DEF Advance, Types
<1> QED BY <1>2, <1>3, <1>4, <1>5, <1>6, <1>7, <1>8 DEF Types

LEMMA WriterTypes ==
  ASSUME RingInv, Sound, NEW w \in Writers,
         Post(w) \/ RollOver(w) \/ Claim(w) \/ Fill(w) \/ Validate(w)
  PROVE  Types'
<1> USE DEF RingInv
<1>0. \A v \in Writers \ {w} : pc[v] \in Parked
  BY StillActs DEF Still
<1> DEFINE J == [letter : Letters \cup {None}, text : Nat,
                 slot : 0 .. MaxMessage, answer : BOOLEAN]
           M == [valid : BOOLEAN, letter : Letters \cup {None}, text : Nat]
<1>a. job \in [Writers -> J] /\ messages \in [Slots -> M]
  BY DEF Types
<1>b. ASSUME numbered' = numbered, shown' = shown
      PROVE  shown' \in [Players -> Shown' \cup {None}] /\ numbered' \in Nat
  BY <1>b, MoreShown DEF Types
<1>c. 0 \in 0 .. MaxMessage /\ 0 \in Nat
  BY Sizes
<1>d. ASSUME mc_current' \in 0 .. MaxMessage, messages' \in [Slots -> M],
             pc' \in [Writers -> {"idle", "roll", "claim", "fill", "valid", "copy", "reply"}],
             pc'[God] \notin {"copy", "reply"},
             job' \in [Writers -> J], UNCHANGED <<reader, posted, numbered>>
      PROVE  Types'
  <2>1. shown' \in [Players -> Shown' \cup {None}] /\ numbered' \in Nat
    BY <1>b, <1>d DEF reader
  <2> QED BY <1>d, <2>1 DEF Types, reader
<1>1. CASE Post(w)
  <2>1. PICK l \in Letter : Advance(w, l, FALSE)
    BY <1>1 DEF Post
  <2>2. l \in Letters
    BY LettersPosted
  <2>3. pc[w] # "roll" /\ posted' \in 0 .. MaxPosts /\ replies' \in [Players -> Seq(Players)]
    <3>1. posted \in 0 .. MaxPosts /\ posted < MaxPosts /\ posted' = posted + 1
      BY <1>1 DEF Post, Types
    <3>2. posted' \in 0 .. MaxPosts
      BY <3>1, MessageRingAssumption
    <3> QED BY <1>1, <3>2 DEF Post, Types
  <2> QED BY <1>0, <2>1, <2>2, <2>3, AdvanceTypes
<1>2. CASE RollOver(w)
  <2>1. mc_current' \in 0 .. MaxMessage
    BY <1>2, <1>c DEF RollOver, Types
  <2>2. job' \in [Writers -> J]
    <3>1. job' = [job EXCEPT ![w].slot = IF job[w].slot >= MaxMessage THEN 0 ELSE @]
      BY <1>2, Zenon DEF RollOver
    <3> QED BY <1>a, <1>c, <3>1
  <2> HIDE DEF J, M
  <2>3. messages' \in [Slots -> M]
    BY <1>2, <1>a DEF RollOver
  <2>4. /\ pc' \in [Writers -> {"idle", "roll", "claim", "fill", "valid", "copy", "reply"}]
        /\ pc'[God] \notin {"copy", "reply"}
    BY <1>2 DEF RollOver, Types, Writers
  <2>5. UNCHANGED <<reader, posted, numbered>>
    BY <1>2 DEF RollOver
  <2> QED BY <2>1, <2>2, <2>3, <2>4, <2>5, <1>d DEF J, M
<1>3. CASE Claim(w)
  <2> DEFINE i == IF w = God /\ job[w].letter.group = "MINDIV" THEN mc_current ELSE job[w].slot
  <2>1. i \in 0 .. MaxMessage
    BY <1>a DEF Types
  <2>2. /\ messages' = [messages EXCEPT ![i].valid = FALSE]
        /\ job' = [job EXCEPT ![w].slot = i]
    BY <1>3 DEF Claim
  <2> HIDE DEF i
  <2>3. job' \in [Writers -> J] /\ messages' \in [Slots -> M]
    BY <1>a, <2>1, <2>2
  <2> HIDE DEF J, M
  <2>4. /\ pc' \in [Writers -> {"idle", "roll", "claim", "fill", "valid", "copy", "reply"}]
        /\ pc'[God] \notin {"copy", "reply"}
    BY <1>3 DEF Claim, Types, Writers
  <2>5. UNCHANGED <<mc_current, reader, posted, numbered>>
    BY <1>3 DEF Claim
  <2> QED BY <2>3, <2>4, <2>5, <1>d DEF J, M, Types
<1>4. CASE Fill(w)
  <2>1. messages' = [messages EXCEPT ![job[w].slot].letter = job[w].letter,
                                     ![job[w].slot].text = job[w].text]
    BY <1>4 DEF Fill
  <2>2. job[w] \in J
    BY <1>a
  <2>3. messages' \in [Slots -> M]
    <3>1. job[w].letter \in Letters \cup {None} /\ job[w].text \in Nat
      BY <2>2
    <3>2. [messages EXCEPT ![job[w].slot].letter = job[w].letter] \in [Slots -> M]
      BY <1>a, <3>1
    <3>3. messages' = [[messages EXCEPT ![job[w].slot].letter = job[w].letter]
                         EXCEPT ![job[w].slot].text = job[w].text]
      BY <2>1
    <3> QED BY <3>1, <3>2, <3>3
  <2> HIDE DEF J, M
  <2>4. /\ pc' \in [Writers -> {"idle", "roll", "claim", "fill", "valid", "copy", "reply"}]
        /\ pc'[God] \notin {"copy", "reply"}
    BY <1>4 DEF Fill, Types, Writers
  <2>5. UNCHANGED <<mc_current, reader, job, posted, numbered>>
    BY <1>4 DEF Fill
  <2> QED BY <1>a, <2>3, <2>4, <2>5, <1>d DEF J, M, Types
<1>5. CASE Validate(w)
  <2>1. /\ messages' = [messages EXCEPT ![job[w].slot].valid = TRUE]
        /\ job' = [job EXCEPT ![w] = NoJob]
    BY <1>5 DEF Validate
  <2>2. messages' \in [Slots -> M]
    BY <1>a, <2>1
  <2>3. job' \in [Writers -> J]
    BY <1>a, <1>c, <2>1 DEF NoJob
  <2> HIDE DEF J, M
  <2>4. /\ pc' \in [Writers -> {"idle", "roll", "claim", "fill", "valid", "copy", "reply"}]
        /\ pc'[God] \notin {"copy", "reply"}
    <3>1. w = God => ~job[w].answer
      BY <1>5, MessageRingAssumption DEF Places, Validate
    <3> QED BY <1>5, <3>1 DEF Validate, Types, Writers
  <2>5. UNCHANGED <<mc_current, reader, posted, numbered>>
    BY <1>5 DEF Validate
  <2> QED BY <2>2, <2>3, <2>4, <2>5, <1>d DEF J, M, Types
<1> QED BY <1>1, <1>2, <1>3, <1>4, <1>5

(* What a reader in "copy" has before him is whole, posted, and for him. *)
LEMMA CopyingIs ==
  ASSUME Types, Places, Contents, Copying, NEW p \in Players, pc[p] = "copy"
  PROVE  /\ msgCurrent[p] \in 0 .. MaxMessage - 1 /\ msgCurrent[p] \in Slots
         /\ Pending(p) /\ Current(p).valid /\ For(p, Current(p).letter)
         /\ Writing(msgCurrent[p]) = {}
         /\ At(msgCurrent[p]) = Text(Current(p)) /\ Text(Current(p)) \in Shown
         /\ Text(Current(p)) = [letter |-> Current(p).letter, text |-> Current(p).text]
         /\ Current(p).letter \in Letters
         /\ At(msgCurrent[p]).letter = Current(p).letter
<1>1. msgCurrent[p] \in 0 .. MaxMessage - 1 /\ msgCurrent[p] \in Slots
  BY Sizes DEF Types
<1>2. Pending(p) /\ Current(p).valid /\ For(p, Current(p).letter)
  BY DEF Copying
<1>3. PICK i \in Slots : i = msgCurrent[p]
  BY <1>1
<1>4. messages[i].valid /\ Current(p) = messages[i]
  BY <1>2, <1>3 DEF Current
<1>5. Writing(i) = {} /\ messages[i] # Empty
  BY <1>4 DEF Contents, Empty
<1>6. Text(messages[i]) \in Shown
  BY <1>5 DEF Contents
<1>7. At(i) = Text(messages[i])
  BY <1>5, AtIs
<1>8. Text(messages[i]) = [letter |-> messages[i].letter, text |-> messages[i].text]
  BY DEF Text
<1>9. messages[i].letter \in Letters
  <2>1. Text(messages[i]).letter \in Letters
    BY <1>6 DEF Shown
  <2> QED BY <1>8, <2>1
<1> QED BY <1>1, <1>2, <1>3, <1>4, <1>5, <1>6, <1>7, <1>8, <1>9

(* A player with an answer of his own to post posts from God. *)
LEMMA SendersAre ==
  ASSUME NEW l \in Letters
  PROVE  /\ l.from \in Writers /\ l.recpt \in Players
         /\ l.group \in {"MALL", "MINDIV", "MGOD"}
         /\ l.query => l.group = "MINDIV" /\ l.from # God
         /\ l.query \in BOOLEAN
<1>1. CASE l \in Letter
  BY <1>1, MessageRingAssumption DEF Letter
<1>2. CASE l \notin Letter
  <2>1. PICK p \in Players : l = Reply(p, p)
    BY <1>2 DEF Letters
  <2> QED BY <2>1 DEF Reply, Writers
<1> QED BY <1>1, <1>2

LEMMA OnwardsTypes ==
  ASSUME Types, NEW p \in Players, Onwards(p)
  PROVE  /\ msgCurrent' \in [Players -> 0 .. MaxMessage - 1]
         /\ msgCurrent'[p] = Slot(msgCurrent[p] + 1)
         /\ \A q \in Players \ {p} : msgCurrent'[q] = msgCurrent[q]
         /\ pc' \in [Writers -> {"idle", "roll", "claim", "fill", "valid", "copy", "reply"}]
         /\ pc'[God] \notin {"copy", "reply"} /\ pc'[p] = "idle"
<1>1. msgCurrent[p] \in 0 .. MaxMessage - 1
  BY DEF Types
<1>2. Slot(msgCurrent[p] + 1) \in 0 .. MaxMessage - 1
  BY <1>1, SlotNext
<1>3. msgCurrent' = [msgCurrent EXCEPT ![p] = Slot(msgCurrent[p] + 1)]
  BY DEF Onwards
<1>4. /\ pc' \in [Writers -> {"idle", "roll", "claim", "fill", "valid", "copy", "reply"}]
      /\ pc'[God] \notin {"copy", "reply"} /\ pc'[p] = "idle"
  BY DEF Onwards, Types, Writers
<1> QED BY <1>2, <1>3, <1>4 DEF Types

LEMMA ReaderTypes ==
  ASSUME RingInv, Sound, NEW p \in Players,
         Test(p) \/ Copy(p) \/ Bounce(p) \/ Answered(p) \/ Reconnect(p)
  PROVE  Types'
<1> USE DEF RingInv
<1>0. p \in Writers /\ p # God /\ \A v \in Writers \ {p} : pc[v] \in Parked
  BY StillActs, MessageRingAssumption DEF Still, Writers
<1> DEFINE P == {"idle", "roll", "claim", "fill", "valid", "copy", "reply"}
<1>1. ASSUME UNCHANGED <<ring, job, posted, numbered>>,
             msgCurrent' \in [Players -> 0 .. MaxMessage - 1],
             shown' \in [Players -> Shown \cup {None}],
             pc' \in [Writers -> P], pc'[God] \notin {"copy", "reply"},
             replies' \in [Players -> Seq(Players)]
      PROVE  Types'
  <2>1. Shown \subseteq Shown'
    BY <1>1, MoreShown
  <2>2. shown' \in [Players -> Shown' \cup {None}]
    BY <1>1, <2>1
  <2> QED BY <1>1, <2>2 DEF Types, ring
<1>2. /\ shown \in [Players -> Shown \cup {None}]
      /\ replies \in [Players -> Seq(Players)]
      /\ msgCurrent \in [Players -> 0 .. MaxMessage - 1]
      /\ pc \in [Writers -> P] /\ pc[God] \notin {"copy", "reply"}
  BY DEF Types
<1>3. CASE Test(p)
  <2>1. CASE pc' = [pc EXCEPT ![p] = "copy"] /\ UNCHANGED msgCurrent
    <3>1. pc' \in [Writers -> P] /\ pc'[God] \notin {"copy", "reply"}
      BY <1>0, <1>2, <2>1
    <3> QED BY <1>1, <1>2, <1>3, <2>1, <3>1 DEF Test
  <2>2. CASE Onwards(p)
    BY <1>1, <1>2, <1>3, <2>2, OnwardsTypes DEF Test
  <2> QED BY <1>3, <2>1, <2>2 DEF Test
<1>4. CASE Copy(p)
  <2> DEFINE l == Current(p).letter
             x == [letter |-> l, text |-> Current(p).text]
  <2>1. pc[p] = "copy" /\ x \in Shown /\ l \in Letters
    BY <1>4, CopyingIs DEF Copy
  <2>2. UNCHANGED <<ring, job, posted, numbered>>
    BY <1>4 DEF Copy
  <2>3. CASE /\ shown' = [shown EXCEPT ![p] = x]
             /\ Onwards(p)
             /\ UNCHANGED replies
    <3> HIDE DEF x
    <3>1. shown' \in [Players -> Shown \cup {None}]
      BY <1>2, <2>1, <2>3
    <3> QED BY <1>1, <1>2, <2>2, <2>3, <3>1, OnwardsTypes
  <2>4. CASE Onwards(p) /\ UNCHANGED <<shown, replies>>
    BY <1>1, <1>2, <2>2, <2>4, OnwardsTypes
  <2>5. CASE /\ l.group = "MINDIV" /\ l.from # God
             /\ l.query \/ Refuses(p, l)
             /\ \E n \in IF l.query THEN Replies ELSE {1} :
                  replies' = [replies EXCEPT ![p] = [i \in 1 .. n |-> l.from]]
             /\ pc' = [pc EXCEPT ![p] = "reply"]
             /\ UNCHANGED <<msgCurrent, shown>>
    <3>1. PICK n \in IF l.query THEN Replies ELSE {1} :
            replies' = [replies EXCEPT ![p] = [i \in 1 .. n |-> l.from]]
      BY <2>5
    <3>2. n \in Nat
      BY <3>1, MessageRingAssumption
    <3>3. l.from \in Players
      BY <2>1, <2>5, SendersAre DEF Writers
    <3>4. [i \in 1 .. n |-> l.from] \in Seq(Players)
      BY <3>2, <3>3, MakeSeq
    <3>5. replies' \in [Players -> Seq(Players)]
      BY <1>2, <3>1, <3>4
    <3>6. pc' \in [Writers -> P] /\ pc'[God] \notin {"copy", "reply"}
      BY <1>0, <1>2, <2>5
    <3> QED BY <1>1, <1>2, <2>2, <2>5, <3>5, <3>6
  <2> QED BY <1>4, <2>3, <2>4, <2>5 DEF Copy
<1>5. CASE Bounce(p)
  <2>1. replies[p] \in Seq(Players) /\ replies[p] # <<>>
    BY <1>2, <1>5 DEF Bounce
  <2>2. Head(replies[p]) \in Players /\ Tail(replies[p]) \in Seq(Players)
    BY <2>1, HeadTailProperties
  <2>3. Reply(p, Head(replies[p])) \in Letters
    BY <2>2, LettersPosted
  <2>4. replies' \in [Players -> Seq(Players)] /\ posted' \in 0 .. MaxPosts
    BY <1>2, <1>5, <2>2 DEF Bounce, Types
  <2>5. pc[p] # "roll" /\ Advance(p, Reply(p, Head(replies[p])), TRUE)
    BY <1>5 DEF Bounce
  <2> QED BY <1>0, <2>3, <2>4, <2>5, AdvanceTypes
<1>6. CASE Answered(p)
  BY <1>1, <1>2, <1>6, OnwardsTypes DEF Answered
<1>7. CASE Reconnect(p)
  <2>1. Slot(mc_current + 1) \in 0 .. MaxMessage - 1
    <3>1. mc_current \in 0 .. MaxMessage
      BY DEF Types
    <3>2. mc_current + 1 \in 0 .. MaxMessage + 1
      BY <3>1, Sizes
    <3> QED BY <3>2, SlotIs, Sizes
  <2>2. msgCurrent' \in [Players -> 0 .. MaxMessage - 1]
    BY <1>2, <1>7, <2>1 DEF Reconnect
  <2> QED BY <1>1, <1>2, <1>7, <2>2 DEF Reconnect
<1> QED BY <1>3, <1>4, <1>5, <1>6, <1>7

-----------------------------------------------------------------------------
(* Places. *)

(* Who acts must find his own place; the others keep theirs. *)
Placed(w) ==
  /\ pc[w] \in AtWork \/ job[w] = NoJob
  /\ pc[w] = "roll" => job[w].slot = mc_current
  /\ pc[w] = "claim" => job[w].slot = mc_current
  /\ pc[w] \in {"fill", "valid"} => job[w].slot \in 0 .. MaxMessage - 1
  /\ pc[w] \in AtWork => Text(job[w]) \in Shown
  /\ job[w].answer => w \in Players /\ job[w].letter.from = God
Apart(w) ==
  pc[w] \in {"fill", "valid"} =>
    \A v \in Writers \ {w} : pc[v] \in {"fill", "valid"} => job[v].slot # job[w].slot

LEMMA PlacedIs ==
  Places <=>
    /\ \A w \in Writers : \A v \in Writers \ {w} : pc[v] \in Parked \/ pc[w] \in Parked
    /\ \A w \in Writers : Placed(w) /\ Apart(w)
    /\ mc_current = MaxMessage => \E w \in Writers : pc[w] = "roll"
    /\ \A w \in Writers : pc[w] = "roll" => mc_current # 0
    /\ \A p \in Players : replies[p] # <<>> => pc[p] = "reply" \/ job[p].answer
<1>1. ASSUME NEW w \in Writers
      PROVE  Apart(w) <=> (pc[w] \in {"fill", "valid"} =>
                             \A v \in Writing(job[w].slot) : v = w)
  BY DEF Apart, Writing
<1> QED BY <1>1, Zenon DEF Places, Placed

LEMMA PlacedIsNext ==
  ASSUME /\ \A w \in Writers : \A v \in Writers \ {w} : pc'[v] \in Parked \/ pc'[w] \in Parked
         /\ \A w \in Writers : Placed(w)' /\ Apart(w)'
         /\ mc_current' = MaxMessage => \E w \in Writers : pc'[w] = "roll"
         /\ \A w \in Writers : pc'[w] = "roll" => mc_current' # 0
         /\ \A p \in Players : replies'[p] # <<>> => pc'[p] = "reply" \/ job'[p].answer
  PROVE  Places'
<1>1. (Places <=>
    /\ \A w \in Writers : \A v \in Writers \ {w} : pc[v] \in Parked \/ pc[w] \in Parked
    /\ \A w \in Writers : Placed(w) /\ Apart(w)
    /\ mc_current = MaxMessage => \E w \in Writers : pc[w] = "roll"
    /\ \A w \in Writers : pc[w] = "roll" => mc_current # 0
    /\ \A p \in Players : replies[p] # <<>> => pc[p] = "reply" \/ job[p].answer)'
  BY PlacedIs, PTL
<1> HIDE DEF Places, Placed, Apart
<1>2. (/\ \A w \in Writers : \A v \in Writers \ {w} : pc[v] \in Parked \/ pc[w] \in Parked
       /\ \A w \in Writers : Placed(w) /\ Apart(w)
       /\ mc_current = MaxMessage => \E w \in Writers : pc[w] = "roll"
       /\ \A w \in Writers : pc[w] = "roll" => mc_current # 0
       /\ \A p \in Players : replies[p] # <<>> => pc[p] = "reply" \/ job[p].answer)'
  OBVIOUS
<1> QED BY <1>1, <1>2

LEMMA PlacesStep ==
  ASSUME Types, Places, NEW w \in Writers, Still(w),
         numbered' \in {numbered, numbered + 1},
         Placed(w)', Apart(w)',
         mc_current' = MaxMessage => pc'[w] = "roll",
         pc'[w] = "roll" => mc_current' # 0,
         \A p \in Players : replies'[p] # <<>> => pc'[p] = "reply" \/ job'[p].answer
  PROVE  Places'
<1>1. \A v \in Writers \ {w} : pc'[v] \in Parked /\ pc'[v] = pc[v] /\ job'[v] = job[v]
  BY DEF Still
<1>2. \A u \in Writers : \A v \in Writers \ {u} : pc'[v] \in Parked \/ pc'[u] \in Parked
  BY <1>1
<1>3. ASSUME NEW v \in Writers
      PROVE  Placed(v)' /\ Apart(v)'
  <2>1. CASE v = w
    BY <2>1
  <2>2. CASE v # w
    <3>1. Placed(v) /\ Apart(v)
      BY PlacedIs
    <3>2. pc'[v] = pc[v] /\ job'[v] = job[v] /\ pc[v] \in Parked
      BY <1>1, <2>2
    <3>3. Shown \subseteq Shown'
      BY MoreShown
    <3>4. Placed(v)'
      <4>1. pc[v] \notin {"roll", "claim"}
        BY <3>2 DEF Parked
      <4>2. pc[v] \in AtWork => Text(job[v]) \in Shown'
        BY <3>1, <3>3, Zenon DEF Placed
      <4>3. Text(job[v])' = Text(job[v])
        BY <3>2 DEF Text
      <4> HIDE DEF Text
      <4> QED BY <3>1, <3>2, <4>1, <4>2, <4>3 DEF Placed
    <3>5. Apart(v)'
      <4> SUFFICES ASSUME pc[v] \in {"fill", "valid"}, NEW u \in Writers \ {v},
                          pc'[u] \in {"fill", "valid"}
                   PROVE  job'[u].slot # job[v].slot
        BY <3>2 DEF Apart
      <4>1. CASE u = w
        BY <2>2, <3>2, <4>1 DEF Apart
      <4>2. CASE u # w
        BY <1>1, <3>1, <4>2 DEF Apart
      <4> QED BY <4>1, <4>2
    <3> QED BY <3>4, <3>5
  <2> QED BY <2>1, <2>2
<1>4. \A v \in Writers : pc'[v] = "roll" => mc_current' # 0
  <2>1. \A v \in Writers \ {w} : pc'[v] # "roll"
    BY <1>1 DEF Parked
  <2> QED BY <2>1
<1> QED BY <1>2, <1>3, <1>4, PlacedIsNext

(* The step of a process that has no job before or after. *)
LEMMA IdlePlaces ==
  ASSUME Types, Places, NEW p \in Players, Still(p), p \in Writers,
         pc[p] \in {"idle", "copy", "reply"}, pc'[p] \in {"idle", "copy", "reply"},
         UNCHANGED <<ring, job, numbered>>,
         \A q \in Players \ {p} : replies'[q] = replies[q],
         replies'[p] # <<>> => pc'[p] = "reply"
  PROVE  Places'
<1>1. job'[p] = NoJob
  <2>1. Placed(p)
    BY PlacedIs
  <2> QED BY <2>1 DEF Placed, AtWork
<1>2. Placed(p)' /\ Apart(p)'
  BY <1>1 DEF Placed, Apart, AtWork, NoJob
<1>3. mc_current' # MaxMessage
  BY CountWithin DEF Still, ring
<1>4. ASSUME NEW q \in Players, replies'[q] # <<>>
      PROVE  pc'[q] = "reply" \/ job'[q].answer
  <2>1. CASE q = p
    BY <1>4, <2>1
  <2>2. CASE q # p
    <3>1. replies[q] # <<>>
      BY <1>4, <2>2
    <3>2. pc[q] = "reply" \/ job[q].answer
      BY <3>1, PlacedIs
    <3>3. q \in Writers \ {p}
      BY <2>2 DEF Writers
    <3> QED BY <3>2, <3>3 DEF Still
  <2> QED BY <2>1, <2>2
<1>5. pc'[p] # "roll"
  OBVIOUS
<1> QED BY <1>2, <1>3, <1>4, <1>5, PlacesStep

LEMMA ReaderPlaces ==
  ASSUME RingInv, Sound, NEW p \in Players,
         Test(p) \/ Copy(p) \/ Answered(p) \/ Reconnect(p)
  PROVE  Places'
<1> USE DEF RingInv
<1>1. p \in Writers /\ Still(p) /\ Types'
  BY StillActs, ReaderTypes DEF Writers
<1>2. \A q \in Players : replies[q] # <<>> => pc[q] = "reply" \/ job[q].answer
  BY DEF Places
<1>3. pc[p] \in {"idle", "copy"} => replies[p] = <<>>
  <2>1. pc[p] \in {"idle", "copy"} => ~job[p].answer
    BY <1>1 DEF Places, AtWork, NoJob
  <2> QED BY <1>2, <2>1
<1>4. CASE Test(p)
  <2>1. pc'[p] \in {"idle", "copy"} /\ pc[p] = "idle"
    BY <1>1, <1>4, OnwardsTypes DEF Test, Types
  <2>2. UNCHANGED <<ring, job, numbered, replies>>
    BY <1>4 DEF Test
  <2> QED BY <1>1, <1>3, <2>1, <2>2, IdlePlaces
<1>5. CASE Copy(p)
  <2>1. pc[p] = "copy" /\ UNCHANGED <<ring, job, numbered>>
    BY <1>5 DEF Copy
  <2>2. CASE pc' = [pc EXCEPT ![p] = "reply"] /\ \A q \in Players \ {p} : replies'[q] = replies[q]
    <3>1. pc'[p] = "reply"
      BY <1>1, <2>2 DEF Types
    <3> QED BY <1>1, <2>1, <2>2, <3>1, IdlePlaces
  <2>3. CASE Onwards(p) /\ UNCHANGED replies
    <3>1. pc'[p] = "idle"
      BY <2>3, OnwardsTypes
    <3> QED BY <1>1, <1>3, <2>1, <2>3, <3>1, IdlePlaces
  <2>4. \/ pc' = [pc EXCEPT ![p] = "reply"] /\ \A q \in Players \ {p} : replies'[q] = replies[q]
        \/ Onwards(p) /\ UNCHANGED replies
    <3>1. replies \in [Players -> Seq(Players)]
      BY DEF Types
    <3> QED BY <1>5, <3>1 DEF Copy
  <2> QED BY <2>2, <2>3, <2>4
<1>6. CASE Answered(p)
  <2>1. pc'[p] = "idle" /\ pc[p] = "reply" /\ replies'[p] = <<>>
    BY <1>6, OnwardsTypes DEF Answered
  <2>2. UNCHANGED <<ring, job, numbered, replies>>
    BY <1>6 DEF Answered
  <2> QED BY <1>1, <2>1, <2>2, IdlePlaces
<1>7. CASE Reconnect(p)
  <2>1. pc'[p] = "idle" /\ pc[p] = "idle"
    BY <1>7 DEF Reconnect
  <2>2. UNCHANGED <<ring, job, numbered, replies>>
    BY <1>7 DEF Reconnect
  <2> QED BY <1>1, <1>3, <2>1, <2>2, IdlePlaces
<1> QED BY <1>4, <1>5, <1>6, <1>7

(* Counting on: the slot is new, the number is new. *)
LEMMA AdvancePlaces ==
  ASSUME Types, Places, NEW w \in Writers, Still(w), pc[w] \in {"idle", "reply"},
         NEW l \in Letters, NEW a \in BOOLEAN, Advance(w, l, a),
         a => w \in Players /\ l.from = God,
         \A p \in Players : replies'[p] # <<>> => pc'[p] = "reply" \/ job'[p].answer
  PROVE  Places'
<1>1. mc_current \in 0 .. MaxMessage - 1
  BY CountWithin DEF Still
<1>2. job'[w] = [letter |-> l, text |-> numbered + 1, slot |-> mc_current + 1, answer |-> a]
      /\ pc'[w] = "roll" /\ mc_current' = mc_current + 1 /\ numbered' = numbered + 1
  BY DEF Advance, Types
<1>3. Shown' = [letter : Letters, text : 1 .. numbered'] /\ numbered + 1 \in 1 .. numbered'
  BY <1>2, MoreShown DEF Types
<1>4. Text(job[w])' \in Shown'
  BY <1>2, <1>3 DEF Text
<1>5. Placed(w)' /\ Apart(w)'
  <2>1. pc'[w] \in AtWork
    BY <1>2 DEF AtWork
  <2> HIDE DEF Text
  <2> QED BY <1>2, <1>4, <2>1 DEF Placed, Apart
<1>6. mc_current' # 0
  BY <1>1, <1>2, Sizes
<1> QED BY <1>2, <1>5, <1>6, PlacesStep

(* A writer's next place. *)
LEMMA WorkPlaces ==
  ASSUME Types, Places, NEW w \in Writers, Still(w), pc[w] \in AtWork,
         pc'[w] \in AtWork \ {"roll"}, job'[w].letter = job[w].letter,
         job'[w].text = job[w].text, job'[w].answer = job[w].answer,
         UNCHANGED <<reader, numbered>>, mc_current' \in 0 .. MaxMessage - 1,
         pc'[w] = "claim" => job'[w].slot = mc_current',
         pc'[w] \in {"fill", "valid"} => job'[w].slot \in 0 .. MaxMessage - 1,
         pc'[w] \in {"fill", "valid"} =>
            \A v \in Writers \ {w} : pc[v] \in {"fill", "valid"} => job[v].slot # job'[w].slot
  PROVE  Places'
<1>1. Placed(w)
  BY PlacedIs
<1>2. Text(job[w])' \in Shown'
  <2>1. Text(job[w])' = Text(job[w])
    BY DEF Text
  <2>2. Shown \subseteq Shown'
    BY MoreShown
  <2>3. Text(job[w]) \in Shown
    BY <1>1 DEF Placed
  <2> QED BY <2>1, <2>2, <2>3
<1>3. Placed(w)'
  BY <1>1, <1>2 DEF Placed
<1>4. Apart(w)'
  BY DEF Apart, Still
<1>5. ASSUME NEW q \in Players, replies'[q] # <<>>
      PROVE  pc'[q] = "reply" \/ job'[q].answer
  <2>1. pc[q] = "reply" \/ job[q].answer
    BY <1>5, PlacedIs DEF reader
  <2>2. q \in Writers
    BY DEF Writers
  <2>3. CASE q = w
    BY <2>1, <2>3 DEF AtWork
  <2>4. CASE q # w
    BY <2>1, <2>2, <2>4 DEF Still
  <2> QED BY <2>3, <2>4
<1>6. mc_current' # MaxMessage
  BY Sizes
<1> QED BY <1>3, <1>4, <1>5, <1>6, PlacesStep

LEMMA BouncePlaces ==
  ASSUME RingInv, Sound, NEW p \in Players, Bounce(p)
  PROVE  Places'
<1> USE DEF RingInv
<1>1. p \in Writers /\ Still(p)
  BY StillActs DEF Writers
<1>2. /\ pc[p] = "reply" /\ Advance(p, Reply(p, Head(replies[p])), TRUE)
      /\ replies' = [replies EXCEPT ![p] = Tail(@)]
  BY DEF Bounce
<1>3. Reply(p, Head(replies[p])) \in Letters
  <2>1. replies[p] \in Seq(Players) /\ replies[p] # <<>>
    BY DEF Bounce, Types
  <2>2. Head(replies[p]) \in Players
    BY <2>1, HeadTailProperties
  <2> QED BY <2>2, LettersPosted
<1>4. ASSUME NEW q \in Players, replies'[q] # <<>>
      PROVE  pc'[q] = "reply" \/ job'[q].answer
  <2>1. CASE q = p
    BY <1>1, <1>2, <2>1 DEF Advance, Types
  <2>2. CASE q # p
    <3>1. replies[q] # <<>> /\ q \in Writers
      BY <1>2, <1>4, <2>2 DEF Types, Writers
    <3>2. pc[q] = "reply" \/ job[q].answer
      BY <3>1, PlacedIs
    <3> QED BY <2>2, <3>1, <3>2, <1>1 DEF Still
  <2> QED BY <2>1, <2>2
<1>5. Reply(p, Head(replies[p])).from = God
  BY DEF Reply
<1> QED BY <1>1, <1>2, <1>3, <1>4, <1>5, AdvancePlaces

(* The slot that a writer claims is the one it has counted to. *)
LEMMA ClaimIs ==
  ASSUME RingInv, Sound, NEW w \in Writers, Claim(w)
  PROVE  /\ mc_current \in 0 .. MaxMessage - 1 /\ mc_current' = mc_current
         /\ Lead = mc_current /\ Lead' = Slot(mc_current + 1)
         /\ pc[w] = "claim" /\ pc'[w] = "fill" /\ ~(job'[w].answer /\ job'[w].letter.from # God)
         /\ messages' = [messages EXCEPT ![mc_current].valid = FALSE]
         /\ job' = job /\ job[w].slot = mc_current
         /\ \A v \in Writers \ {w} : pc[v] \in {"fill", "valid"} => job[v].slot # mc_current
         /\ Text(job[w]) \in Shown
<1> USE DEF RingInv
<1>1. Still(w) /\ Types'
  BY StillActs, WriterTypes
<1>2. pc[w] = "claim" /\ pc'[w] = "fill" /\ mc_current' = mc_current
  BY DEF Claim, Types
<1>3. mc_current \in 0 .. MaxMessage - 1
  BY <1>1, <1>2, CountWithin DEF Still
<1>4. job[w].slot = mc_current /\ Text(job[w]) \in Shown
      /\ (job[w].answer => job[w].letter.from = God)
  <2>1. Placed(w)
    BY PlacedIs
  <2> QED BY <1>2, <2>1 DEF Placed, AtWork
<1>5. /\ messages' = [messages EXCEPT ![mc_current].valid = FALSE]
      /\ job' = [job EXCEPT ![w].slot = mc_current]
      /\ \A v \in Writers \ {w} : pc[v] \in {"fill", "valid"} => job[v].slot # mc_current
  BY <1>4 DEF Claim, Sound
<1>6. job' = job
  <2>1. job \in [Writers -> [letter : Letters \cup {None}, text : Nat,
                             slot : 0 .. MaxMessage, answer : BOOLEAN]]
    BY DEF Types
  <2>2. [job[w] EXCEPT !.slot = mc_current] = job[w]
    BY <1>4, <2>1
  <2> QED BY <1>5, <2>1, <2>2
<1>7. Lead = Slot(mc_current) /\ Lead' = Slot(mc_current + 1)
  BY <1>1, <1>2, LeadMoves DEF LeadOf
<1>8. Slot(mc_current) = mc_current
  BY <1>3, SlotNext
<1> QED BY <1>2, <1>3, <1>4, <1>5, <1>6, <1>7, <1>8

LEMMA WriterPlaces ==
  ASSUME RingInv, Sound, NEW w \in Writers,
         Post(w) \/ RollOver(w) \/ Claim(w) \/ Fill(w) \/ Validate(w)
  PROVE  Places'
<1> USE DEF RingInv
<1>1. Still(w) /\ Types'
  BY StillActs, WriterTypes
<1>2. Placed(w) /\ Apart(w)
  BY PlacedIs
<1>3. CASE Post(w)
  <2>1. PICK l \in Letter : Advance(w, l, FALSE)
    BY <1>3 DEF Post
  <2>2. pc[w] = "idle" /\ replies' = replies /\ l \in Letters
    BY <1>3, LettersPosted DEF Post
  <2>3. ASSUME NEW q \in Players, replies'[q] # <<>>
        PROVE  pc'[q] = "reply" \/ job'[q].answer
    <3>1. pc[q] = "reply" \/ job[q].answer
      BY <2>2, <2>3, PlacedIs
    <3>2. job[w] = NoJob
      BY <1>2, <2>2 DEF Placed, AtWork
    <3>3. q # w
      BY <2>2, <3>1, <3>2 DEF NoJob
    <3> QED BY <1>1, <3>1, <3>3 DEF Still, Writers
  <2> QED BY <1>1, <2>1, <2>2, <2>3, AdvancePlaces
<1>4. CASE RollOver(w)
  <2>1. pc[w] = "roll" /\ pc'[w] = "claim" /\ UNCHANGED <<reader, numbered>>
    BY <1>4 DEF RollOver, Types
  <2>2. job[w].slot = mc_current /\ mc_current \in 0 .. MaxMessage
    BY <1>2, <2>1 DEF Placed, Types
  <2>3. /\ mc_current' = IF mc_current >= MaxMessage THEN 0 ELSE mc_current
        /\ job' = [job EXCEPT ![w].slot = IF mc_current >= MaxMessage THEN 0 ELSE mc_current]
    BY <1>4, <2>2, Zenon DEF RollOver
  <2>4. /\ job'[w].slot = mc_current' /\ mc_current' \in 0 .. MaxMessage - 1
        /\ job'[w].letter = job[w].letter
        /\ job'[w].text = job[w].text /\ job'[w].answer = job[w].answer
    BY <2>2, <2>3, Sizes DEF Types
  <2> QED BY <1>1, <2>1, <2>4, WorkPlaces DEF AtWork
<1>5. CASE Claim(w)
  <2>1. /\ pc[w] = "claim" /\ pc'[w] = "fill" /\ mc_current \in 0 .. MaxMessage - 1
        /\ mc_current' = mc_current
        /\ job' = job /\ job[w].slot = mc_current
        /\ \A v \in Writers \ {w} : pc[v] \in {"fill", "valid"} => job[v].slot # mc_current
    BY <1>5, ClaimIs
  <2>2. UNCHANGED <<reader, numbered>>
    BY <1>5 DEF Claim
  <2> QED BY <1>1, <2>1, <2>2, WorkPlaces DEF AtWork
<1>6. CASE Fill(w)
  <2>1. /\ pc[w] = "fill" /\ pc'[w] = "valid" /\ job' = job /\ mc_current' = mc_current
        /\ UNCHANGED <<reader, numbered>>
    BY <1>6 DEF Fill, Types
  <2>2. mc_current \in 0 .. MaxMessage - 1
    BY <1>1, <2>1, CountWithin DEF Still
  <2>3. job[w].slot \in 0 .. MaxMessage - 1
    BY <1>2, <2>1 DEF Placed
  <2>4. \A v \in Writers \ {w} : pc[v] \in {"fill", "valid"} => job[v].slot # job[w].slot
    BY <1>2, <2>1 DEF Apart
  <2> QED BY <1>1, <2>1, <2>2, <2>3, <2>4, WorkPlaces DEF AtWork
<1>7. CASE Validate(w)
  <2>1. /\ pc[w] = "valid" /\ pc'[w] = (IF job[w].answer THEN "reply" ELSE "idle")
        /\ job'[w] = NoJob /\ mc_current' = mc_current
        /\ UNCHANGED <<reader, numbered>>
    BY <1>7 DEF Validate, Types
  <2>2. mc_current' # MaxMessage
    BY <1>1, <2>1, CountWithin, Sizes DEF Still
  <2>3. Placed(w)' /\ Apart(w)'
    BY <2>1 DEF Placed, Apart, AtWork, NoJob
  <2>4. ASSUME NEW q \in Players, replies'[q] # <<>>
        PROVE  pc'[q] = "reply" \/ job'[q].answer
    <3>1. pc[q] = "reply" \/ job[q].answer
      BY <2>1, <2>4, PlacedIs DEF reader
    <3>2. CASE q = w
      BY <2>1, <3>1, <3>2
    <3>3. CASE q # w
      BY <1>1, <3>1, <3>3 DEF Still, Writers
    <3> QED BY <3>2, <3>3
  <2> QED BY <1>1, <2>1, <2>2, <2>3, <2>4, PlacesStep
<1> QED BY <1>3, <1>4, <1>5, <1>6, <1>7

-----------------------------------------------------------------------------
(* What each step makes of the slots and of what waits. *)

LEMMA OthersWait ==
  ASSUME Types, Types', NEW w \in Writers, Still(w), SameSlots, Lead' = Lead,
         NEW p \in Players, msgCurrent'[p] = msgCurrent[p],
         p = w => (Lead = msgCurrent[p] => (Answering(p)' <=> Answering(p)))
  PROVE  Lag(p)' = Lag(p) /\ Waiting(p)' = Waiting(p)
<1>1. Calm /\ Calm'
  BY StillCalm
<1>2. p # w => (Answering(p)' <=> Answering(p))
  BY DEF Still, Answering, Writers
<1>3. Lead = msgCurrent[p] => (Answering(p)' <=> Answering(p))
  BY <1>2
<1> QED BY <1>1, <1>3, StillWaiting

AllWait == \A p \in Players : Lag(p)' = Lag(p) /\ Waiting(p)' = Waiting(p)

LEMMA AdvanceWaits ==
  ASSUME RingInv, Types', NEW w \in Writers, Still(w), pc[w] \in {"idle", "reply"},
         NEW l, NEW a \in BOOLEAN, a <=> pc[w] = "reply", Advance(w, l, a)
  PROVE  SameSlots /\ AllWait /\ \A i \in Slots : Writing(i)' = Writing(i)
<1> USE DEF RingInv
<1>1. /\ pc'[w] = "roll" /\ mc_current' = mc_current + 1 /\ job'[w].answer = a
      /\ messages' = messages /\ msgCurrent' = msgCurrent
  BY DEF Advance, Types
<1>2. SameSlots /\ \A i \in Slots : Writing(i)' = Writing(i)
  BY <1>1, Untouched
<1>3. Lead' = Lead
  BY <1>1, LeadMoves DEF LeadOf
<1>4. ASSUME NEW p \in Players, p = w
      PROVE  Answering(p)' <=> Answering(p)
  <2>1. ~job[w].answer
    BY PlacedIs DEF Placed, AtWork, NoJob
  <2> QED BY <1>1, <1>4, <2>1 DEF Answering
<1> QED BY <1>1, <1>2, <1>3, <1>4, OthersWait DEF AllWait

LEMMA RollOverWaits ==
  ASSUME RingInv, Sound, NEW w \in Writers, RollOver(w)
  PROVE  SameSlots /\ AllWait /\ \A i \in Slots : Writing(i)' = Writing(i)
<1> USE DEF RingInv
<1>0. Still(w) /\ Types'
  BY StillActs, WriterTypes
<1>1. /\ pc[w] = "roll" /\ pc'[w] = "claim" /\ messages' = messages /\ msgCurrent' = msgCurrent
      /\ job'[w].answer = job[w].answer
  BY DEF RollOver, Types, reader
<1>2. SameSlots /\ \A i \in Slots : Writing(i)' = Writing(i)
  BY <1>0, <1>1, Untouched
<1>3. Lead' = Lead
  <2>1. mc_current \in 0 .. MaxMessage /\ job[w].slot = mc_current
    BY <1>1, PlacedIs DEF Placed, Types
  <2>2. mc_current' = IF mc_current >= MaxMessage THEN 0 ELSE mc_current
    BY <2>1, Zenon DEF RollOver
  <2>3. Slot(mc_current) = Slot(mc_current')
    <3>1. CASE mc_current = MaxMessage
      <4>1. mc_current' = 0
        BY <2>2, <3>1, Sizes
      <4>2. Slot(MaxMessage) = 0 /\ Slot(0) = 0
        BY SlotIs, Sizes
      <4> QED BY <3>1, <4>1, <4>2
    <3>2. CASE mc_current # MaxMessage
      BY <2>1, <2>2, <3>2, Sizes
    <3> QED BY <3>1, <3>2
  <2> QED BY <1>0, <1>1, <2>3, LeadMoves DEF LeadOf
<1>4. ASSUME NEW p \in Players, p = w
      PROVE  Answering(p)' <=> Answering(p)
  BY <1>1, <1>4 DEF Answering
<1> QED BY <1>0, <1>1, <1>2, <1>3, <1>4, OthersWait DEF AllWait

LEMMA FillWaits ==
  ASSUME RingInv, Sound, NEW w \in Writers, Fill(w), Types', Places'
  PROVE  /\ SameSlots /\ AllWait /\ \A i \in Slots : Writing(i)' = Writing(i)
         /\ job[w].slot \in 0 .. MaxMessage - 1 /\ Writing(job[w].slot) = {w}
<1> USE DEF RingInv
<1>0. Still(w) /\ Placed(w) /\ Apart(w)
  BY StillActs, PlacedIs
<1>1. /\ pc[w] = "fill" /\ pc'[w] = "valid" /\ job' = job /\ msgCurrent' = msgCurrent
      /\ mc_current' = mc_current
  BY DEF Fill, Types, reader
<1>2. job[w].slot \in 0 .. MaxMessage - 1
  BY <1>0, <1>1 DEF Placed
<1>3. PICK s \in Slots : s = job[w].slot
  BY <1>2, Sizes
<1>4. \A i \in Slots \ {s} : messages'[i] = messages[i]
  BY <1>3 DEF Fill, Types
<1>5. ASSUME NEW i \in Slots PROVE Writing(i)' = Writing(i)
  <2>1. \A v \in Writers : v \in Writing(i)' <=> v \in Writing(i)
    BY <1>0, <1>1 DEF Writing, Still
  <2> QED BY <2>1 DEF Writing
<1>6. w \in Writing(s)
  BY <1>1, <1>3 DEF Writing
<1>7. ASSUME NEW i \in Slots PROVE At(i)' = At(i)
  <2>1. CASE Writing(i) = {}
    <3>1. messages'[i] = messages[i]
      BY <1>4, <1>6, <2>1
    <3> QED BY <1>5, <2>1, <3>1 DEF At
  <2>2. CASE Writing(i) # {}
    <3>1. PICK v \in Writers : v \in Writing(i)
      BY <2>2 DEF Writing
    <3>2. At(i) = Text(job[v])
      BY <3>1, AtIs
    <3>3. At(i)' = Text(job'[v])
      BY <1>5, <3>1, AtIsNext
    <3> QED BY <1>1, <3>2, <3>3
  <2> QED BY <2>1, <2>2
<1>8. Lead' = Lead
  BY <1>0, <1>1, LeadMoves DEF LeadOf
<1>9. ASSUME NEW p \in Players, p = w
      PROVE  Answering(p)' <=> Answering(p)
  BY <1>1, <1>9 DEF Answering
<1>10. Writing(s) = {w}
  BY <1>6, AtIs
<1>11. SameSlots
  BY <1>7 DEF SameSlots
<1> QED BY <1>0, <1>1, <1>2, <1>3, <1>5, <1>8, <1>9, <1>10, <1>11, OthersWait DEF AllWait

LEMMA ValidateWaits ==
  ASSUME RingInv, Sound, NEW w \in Writers, Validate(w), Types', Places'
  PROVE  /\ SameSlots /\ AllWait
         /\ job[w].slot \in 0 .. MaxMessage - 1 /\ Writing(job[w].slot) = {w}
         /\ \A i \in Slots : Writing(i)' = IF i = job[w].slot THEN {} ELSE Writing(i)
<1> USE DEF RingInv
<1>0. Still(w) /\ Placed(w)
  BY StillActs, PlacedIs
<1>1. /\ pc[w] = "valid" /\ pc'[w] = (IF job[w].answer THEN "reply" ELSE "idle")
      /\ msgCurrent' = msgCurrent /\ mc_current' = mc_current /\ job'[w] = NoJob
  BY DEF Validate, Types, reader
<1>2. job[w].slot \in 0 .. MaxMessage - 1
  BY <1>0, <1>1 DEF Placed
<1>3. PICK s \in Slots : s = job[w].slot
  BY <1>2, Sizes
<1>4. /\ \A i \in Slots \ {s} : messages'[i] = messages[i]
      /\ Text(messages'[s]) = Text(messages[s])
  BY <1>3 DEF Validate, Types, Text
<1>5. Writing(s) = {w} /\ At(s) = Text(job[w])
  <2>1. w \in Writing(s)
    BY <1>1, <1>3 DEF Writing
  <2> QED BY <2>1, AtIs
<1>6. ASSUME NEW i \in Slots PROVE Writing(i)' = IF i = s THEN {} ELSE Writing(i)
  <2>1. \A v \in Writers : v \in Writing(i)' <=> v \in Writing(i) /\ v # w
    BY <1>0, <1>1 DEF Writing, Still
  <2>2. \A v \in Writing(i) : v = w <=> i = s
    <3>1. w \in Writing(i) => i = s
      BY <1>3 DEF Writing
    <3>2. \A v \in Writing(s) : v = w
      BY <1>5
    <3> QED BY <3>1, <3>2
  <2>3. Writing(i)' \subseteq Writers /\ Writing(i) \subseteq Writers
    BY DEF Writing
  <2> QED BY <2>1, <2>2, <2>3
<1>7. ASSUME NEW i \in Slots PROVE At(i)' = At(i)
  <2>1. CASE i = s
    <3>1. At(i)' = Text(messages'[i])
      BY <1>6, <2>1, AtIsNext
    <3>2. Text(messages[s]) = Text(job[w])
      BY <1>1, <1>3 DEF Contents
    <3> QED BY <1>4, <1>5, <2>1, <3>1, <3>2
  <2>2. CASE i # s /\ Writing(i) = {}
    BY <1>4, <1>6, <2>2 DEF At
  <2>3. CASE i # s /\ Writing(i) # {}
    <3>1. PICK v \in Writers : v \in Writing(i)
      BY <2>3 DEF Writing
    <3>2. At(i) = Text(job[v])
      BY <3>1, AtIs
    <3>3. At(i)' = Text(job'[v])
      BY <1>6, <2>3, <3>1, AtIsNext
    <3>4. v # w
      BY <1>3, <2>3, <3>1 DEF Writing
    <3> QED BY <1>0, <3>2, <3>3, <3>4 DEF Still
  <2> QED BY <2>1, <2>2, <2>3
<1>8. Lead' = Lead
  BY <1>0, <1>1, LeadMoves DEF LeadOf
<1>9. ASSUME NEW p \in Players, p = w
      PROVE  Answering(p)' <=> Answering(p)
  BY <1>1, <1>9 DEF Answering, NoJob
<1>10. SameSlots
  BY <1>7 DEF SameSlots
<1> QED BY <1>0, <1>1, <1>2, <1>3, <1>5, <1>6, <1>8, <1>9, <1>10, OthersWait DEF AllWait

(* p has come to a slot that waits for him, and passes it. *)
Passed(p) ==
  /\ Lag(p) \in Nat \ {0} /\ Lag(p)' = Lag(p) - 1
  /\ Waiting(p) # <<>> /\ Head(Waiting(p)) = At(msgCurrent[p])
  /\ Waiting(p)[1] = At(msgCurrent[p])
  /\ Waiting(p)' = Tail(Waiting(p))
  /\ \A k \in 1 .. Lag(p)' : Waiting(p)'[k] = Waiting(p)[k + 1]
OthersLeft(p) ==
  \A q \in Players \ {p} : Lag(q)' = Lag(q) /\ Waiting(q)' = Waiting(q)

LEMMA ReaderStands ==
  ASSUME RingInv, Sound, NEW p \in Players,
         Test(p) \/ Copy(p) \/ Answered(p) \/ Reconnect(p)
  PROVE  /\ p \in Writers /\ Still(p) /\ Types' /\ Lead' = Lead /\ SameSlots
         /\ \A i \in Slots : Writing(i)' = Writing(i)
         /\ pc[p] \in {"idle", "copy", "reply"} /\ pc'[p] \in {"idle", "copy", "reply"}
         /\ Lead = Slot(mc_current + 1) /\ UNCHANGED <<ring, job, posted, numbered>>
         /\ job[p] = NoJob
         /\ \A q \in Players \ {p} : msgCurrent'[q] = msgCurrent[q]
<1> USE DEF RingInv
<1>1. p \in Writers /\ Still(p) /\ Types'
  BY StillActs, ReaderTypes DEF Writers
<1>2. UNCHANGED <<ring, job, posted, numbered>>
  BY DEF Test, Copy, Answered, Reconnect
<1>3. pc[p] \in {"idle", "copy", "reply"}
  BY DEF Test, Copy, Answered, Reconnect
<1>4. pc'[p] \in {"idle", "copy", "reply"} /\ \A q \in Players \ {p} : msgCurrent'[q] = msgCurrent[q]
  <2>1. CASE Onwards(p)
    BY <2>1, OnwardsTypes
  <2>2. CASE /\ pc' = [pc EXCEPT ![p] = "copy"] \/ pc' = [pc EXCEPT ![p] = "reply"]
             /\ UNCHANGED msgCurrent
    BY <1>1, <2>2 DEF Types
  <2>3. CASE Reconnect(p)
    BY <1>1, <2>3 DEF Reconnect, Types
  <2> QED BY <2>1, <2>2, <2>3 DEF Test, Copy, Answered
<1>5. SameSlots /\ \A i \in Slots : Writing(i)' = Writing(i)
  <2>1. messages' = messages
    BY <1>2 DEF ring
  <2> QED BY <1>1, <1>3, <1>4, <2>1, Untouched
<1>6. Lead' = Lead /\ Lead = Slot(mc_current + 1)
  BY <1>1, <1>2, <1>3, <1>4, LeadMoves DEF LeadOf, ring
<1>7. job[p] = NoJob
  BY <1>1, <1>3, PlacedIs DEF Placed, AtWork
<1> QED BY <1>1, <1>2, <1>3, <1>4, <1>5, <1>6, <1>7

LEMMA OnwardsWaits ==
  ASSUME RingInv, Sound, NEW p \in Players,
         Test(p) \/ Copy(p) \/ Answered(p), Onwards(p)
  PROVE  Passed(p) /\ OthersLeft(p)
<1> USE DEF RingInv
<1>1. /\ p \in Writers /\ Still(p) /\ Types' /\ Lead' = Lead /\ SameSlots
      /\ Lead = Slot(mc_current + 1) /\ UNCHANGED job /\ job[p] = NoJob
      /\ \A q \in Players \ {p} : msgCurrent'[q] = msgCurrent[q]
  BY ReaderStands
<1>2. msgCurrent'[p] = Slot(msgCurrent[p] + 1) /\ pc'[p] = "idle"
  BY OnwardsTypes
<1>3. Lead = msgCurrent[p] => Answering(p)
  BY <1>1 DEF Test, Copy, Answered, Pending, Answering
<1>4. ~Answering(p)'
  BY <1>1, <1>2 DEF Answering, NoJob
<1>5. Calm /\ Calm'
  BY <1>1, StillCalm
<1>6. Passed(p)
  BY <1>1, <1>2, <1>3, <1>4, <1>5, PassedOver DEF Passed
<1>7. OthersLeft(p)
  BY <1>1, OthersWait DEF OthersLeft
<1> QED BY <1>6, <1>7

(* p begins to copy or to answer. *)
LEMMA StaysWaits ==
  ASSUME RingInv, Sound, NEW p \in Players, Test(p) \/ Copy(p), UNCHANGED msgCurrent,
         pc' = [pc EXCEPT ![p] = "copy"] \/ pc' = [pc EXCEPT ![p] = "reply"]
  PROVE  AllWait
<1> USE DEF RingInv
<1>1. /\ p \in Writers /\ Still(p) /\ Types' /\ Lead' = Lead /\ SameSlots
      /\ Lead = Slot(mc_current + 1)
  BY ReaderStands
<1>2. pc'[p] \in {"copy", "reply"}
  BY <1>1 DEF Types
<1>3. Lead = msgCurrent[p] => (Answering(p)' <=> Answering(p))
  BY <1>1, <1>2 DEF Test, Copy, Pending, Answering
<1> QED BY <1>1, <1>3, OthersWait DEF AllWait

LEMMA ReconnectWaits ==
  ASSUME RingInv, Sound, NEW p \in Players, Reconnect(p)
  PROVE  /\ Lag(p)' = 0 /\ Waiting(p)' = <<>> /\ OthersLeft(p)
<1> USE DEF RingInv
<1>1. /\ p \in Writers /\ Still(p) /\ Types' /\ Lead' = Lead /\ SameSlots
      /\ Lead = Slot(mc_current + 1) /\ UNCHANGED job /\ job[p] = NoJob
      /\ \A q \in Players \ {p} : msgCurrent'[q] = msgCurrent[q]
  BY ReaderStands
<1>2. msgCurrent'[p] = Lead' /\ pc'[p] = "idle"
  BY <1>1 DEF Reconnect, Types
<1>3. ~Answering(p)'
  BY <1>1, <1>2 DEF Answering, NoJob
<1>4. Calm'
  BY <1>1, StillCalm
<1>5. Lag(p)' = 0
  <2>1. Lag(p)' = LagOf(Lead', msgCurrent'[p], Answering(p)')
    BY <1>4, LagIsNext
  <2> QED BY <1>2, <1>3, <2>1, Zenon DEF LagOf
<1>6. Waiting(p)' = <<>>
  <2>1. Waiting(p)' \in Seq({At(i)' : i \in 0 .. MaxMessage - 1}) /\ Len(Waiting(p)') = 0
    BY <1>4, <1>5, WaitingIsNext
  <2> QED BY <2>1, EmptySeq
<1>7. OthersLeft(p)
  BY <1>1, OthersWait DEF OthersLeft
<1> QED BY <1>5, <1>6, <1>7

LEMMA GapIs ==
  ASSUME NEW l \in 0 .. MaxMessage - 1, NEW m \in 0 .. MaxMessage - 1
  PROVE  /\ l # m => Gap(l, m) \in 1 .. MaxMessage - 1
         /\ l # m => Slot(m + Gap(l, m)) = l
         /\ l # m => \A k \in 1 .. Gap(l, m) : Slot(m + k - 1) # l
         /\ l # m /\ Slot(l + 1) # m => Gap(Slot(l + 1), m) = Gap(l, m) + 1
         /\ l # m /\ Slot(l + 1) = m => Gap(l, m) = MaxMessage - 1
         /\ l = m => Gap(Slot(l + 1), m) = 1
<1>1. Slot(l + 1) = IF l = MaxMessage - 1 THEN 0 ELSE l + 1
  BY SlotNext
<1>2. l # m => Gap(l, m) \in 1 .. MaxMessage - 1
  BY Sizes DEF Gap
<1>3. ASSUME l # m PROVE Slot(m + Gap(l, m)) = l
  <2>1. m + Gap(l, m) = IF m <= l THEN l ELSE l + MaxMessage
    BY Sizes DEF Gap
  <2>2. Slot(l) = l /\ Slot(l + MaxMessage) = l
    BY SlotIs, Sizes
  <2> QED BY <2>1, <2>2
<1>4. ASSUME l # m, NEW k \in 1 .. Gap(l, m) PROVE Slot(m + k - 1) # l
  <2>1. Gap(l, m) \in 1 .. MaxMessage - 1
    BY <1>2, <1>4
  <2>2. m + k - 1 \in 0 .. 2 * MaxMessage - 1
    BY <2>1, Sizes
  <2>3. Slot(m + k - 1) = IF m + k - 1 < MaxMessage THEN m + k - 1 ELSE m + k - 1 - MaxMessage
    BY <2>2, SlotIs, Sizes
  <2> QED BY <1>4, <2>3, Sizes DEF Gap
<1>5. l # m /\ Slot(l + 1) # m => Gap(Slot(l + 1), m) = Gap(l, m) + 1
  BY <1>1, Sizes DEF Gap
<1>6. l # m /\ Slot(l + 1) = m => Gap(l, m) = MaxMessage - 1
  BY <1>1, Sizes DEF Gap
<1>7. l = m => Gap(Slot(l + 1), m) = 1
  BY <1>1, Sizes DEF Gap
<1> QED BY <1>2, <1>3, <1>4, <1>5, <1>6, <1>7

LEMMA ClaimSlots ==
  ASSUME RingInv, Sound, NEW w \in Writers, Claim(w), Types', Places'
  PROVE  \A i \in Slots :
           /\ i = mc_current =>
                At(i)' = Text(job[w]) /\ Writing(i)' = {w} /\ Writing(i) = {}
           /\ i # mc_current =>
                At(i)' = At(i) /\ Writing(i)' = Writing(i) /\ messages'[i] = messages[i]
<1> USE DEF RingInv
<1>1. /\ Still(w) /\ mc_current \in 0 .. MaxMessage - 1
      /\ pc[w] = "claim" /\ pc'[w] = "fill" /\ job' = job /\ job[w].slot = mc_current
      /\ messages' = [messages EXCEPT ![mc_current].valid = FALSE]
      /\ \A v \in Writers \ {w} : pc[v] \in {"fill", "valid"} => job[v].slot # mc_current
  BY ClaimIs, StillActs
<1>2. ASSUME NEW i \in Slots, i = mc_current
      PROVE  At(i)' = Text(job[w]) /\ Writing(i)' = {w} /\ Writing(i) = {}
  <2>1. w \in Writing(i)'
    BY <1>1, <1>2 DEF Writing
  <2>2. Writing(i)' = {w} /\ At(i)' = Text(job'[w])
    BY <2>1, AtIsNext
  <2>3. \A v \in Writers : v \notin Writing(i)
    BY <1>1, <1>2 DEF Writing
  <2>4. Writing(i) = {}
    BY <2>3 DEF Writing
  <2> QED BY <1>1, <2>2, <2>4
<1>3. ASSUME NEW i \in Slots, i # mc_current
      PROVE  At(i)' = At(i) /\ Writing(i)' = Writing(i) /\ messages'[i] = messages[i]
  <2>1. \A v \in Writers : v \in Writing(i)' <=> v \in Writing(i)
    BY <1>1, <1>3 DEF Writing, Still
  <2>2. Writing(i)' = Writing(i)
    BY <2>1 DEF Writing
  <2>3. messages'[i] = messages[i]
    BY <1>1, <1>3 DEF Types
  <2>4. CASE Writing(i) = {}
    BY <2>2, <2>3, <2>4 DEF At
  <2>5. CASE Writing(i) # {}
    <3>1. PICK v \in Writers : v \in Writing(i)
      BY <2>5 DEF Writing
    <3>2. At(i) = Text(job[v]) /\ At(i)' = Text(job'[v])
      BY <2>2, <3>1, AtIs, AtIsNext
    <3> QED BY <1>1, <2>2, <2>3, <3>2
  <2> QED BY <2>2, <2>3, <2>4, <2>5
<1> QED BY <1>2, <1>3

(* A message more waits for p, or p has missed a ring of them. *)
Joined(q, r, x) ==
  \/ r = Append(q, x)
  \/ r = <<x>> /\ Len(q) + 1 >= MaxMessage
  \/ r = <<>> /\ Len(q) + 1 >= MaxMessage

LEMMA OneElement ==
  ASSUME NEW S, NEW q \in Seq(S), Len(q) = 1, NEW x, q[1] = x
  PROVE  q = <<x>>
<1>1. q \in [1 .. 1 -> S] /\ x \in S
  <2>1. q \in [1 .. Len(q) -> S]
    BY SeqDef, LenProperties
  <2> QED BY <2>1
<1>2. <<x>> \in Seq(S) /\ Len(<<x>>) = 1 /\ <<x>>[1] = x
  BY <1>1
<1> HIDE DEF Joined
<1>3. \A k \in 1 .. Len(q) : q[k] = <<x>>[k]
  BY <1>2
<1> QED BY <1>2, <1>3, SameSeq

LEMMA OneMore ==
  ASSUME NEW S, NEW T, NEW q \in Seq(S), NEW r \in Seq(T), NEW x, Len(r) = Len(q) + 1,
         r[Len(q) + 1] = x, \A k \in 1 .. Len(q) : r[k] = q[k]
  PROVE  r = Append(q, x)
<1> DEFINE n == Len(q)
           U == S \cup {x}
           a == Append(q, x)
<1>1. n \in Nat /\ q \in Seq(U) /\ x \in U
  <2>1. q \in [1 .. Len(q) -> S] /\ Len(q) \in Nat
    BY SeqDef, LenProperties
  <2>2. q \in [1 .. Len(q) -> U]
    BY <2>1
  <2> QED BY <2>1, <2>2, MakeSeq
<1>2. a \in Seq(U) /\ Len(a) = n + 1 /\ a[n + 1] = x /\ \A k \in 1 .. n : a[k] = q[k]
  BY <1>1, AppendProperties
<1> HIDE DEF a, U
<1>3. \A k \in 1 .. Len(r) : r[k] = a[k]
  <2> SUFFICES ASSUME NEW k \in 1 .. n + 1 PROVE r[k] = a[k]
    OBVIOUS
  <2>1. k = n + 1 \/ k \in 1 .. n
    BY <1>1
  <2> QED BY <1>2, <2>1
<1>4. Len(r) = Len(a)
  BY <1>2
<1>5. r = a
  BY <1>2, <1>3, <1>4, SameSeq
<1> QED BY <1>5 DEF a

LEMMA ClaimWaits ==
  ASSUME RingInv, Sound, NEW w \in Writers, Claim(w), Types', Places', NEW p \in Players
  PROVE  /\ Joined(Waiting(p), Waiting(p)', Text(job[w]))
         /\ \A k \in 1 .. Lag(p)' :
              \/ Waiting(p)'[k] = Text(job[w])
              \/ k \in 1 .. Lag(p) /\ Waiting(p)'[k] = Waiting(p)[k]
         /\ Waiting(p)' # <<>> => Waiting(p)'[Len(Waiting(p)')] = Text(job[w])
<1> USE DEF RingInv
<1>0. /\ Still(w) /\ mc_current \in 0 .. MaxMessage - 1 /\ Lead = mc_current
      /\ Lead' = Slot(mc_current + 1) /\ pc[w] = "claim" /\ pc'[w] = "fill" /\ job' = job
  BY ClaimIs, StillActs
<1>1. Calm /\ Calm'
  BY <1>0, StillCalm
<1>2. msgCurrent' = msgCurrent
  BY DEF Claim, reader
<1>3. Answering(p)' <=> Answering(p)
  BY <1>0 DEF Answering, Still, Writers
<1>4. PICK l \in 0 .. MaxMessage - 1 : l = mc_current
  BY <1>0
<1>5. PICK m \in 0 .. MaxMessage - 1 : m = msgCurrent[p]
  BY DEF Types
<1>6. PICK x : x = Text(job[w])
  OBVIOUS
<1> DEFINE n == Lag(p)
           q == Waiting(p)
           N == Lag(p)'
           r == Waiting(p)'
           S == {At(i) : i \in 0 .. MaxMessage - 1}
           T == {At(i)' : i \in 0 .. MaxMessage - 1}
<1>7. n = LagOf(l, m, Answering(p)) /\ N = LagOf(Slot(l + 1), m, Answering(p))
  <2>1. n = LagOf(Lead, msgCurrent[p], Answering(p))
    BY <1>1, LagIs
  <2>2. N = LagOf(Lead', msgCurrent'[p], Answering(p)')
    BY <1>1, LagIsNext
  <2>3. LagOf(Lead', msgCurrent'[p], Answering(p)') = LagOf(Slot(l + 1), m, Answering(p))
    BY <1>0, <1>2, <1>3, <1>4, <1>5, Zenon DEF LagOf
  <2> QED BY <1>0, <1>4, <1>5, <2>1, <2>2, <2>3
<1>8. q \in Seq(S) /\ Len(q) = n /\ r \in Seq(T) /\ Len(r) = N
  BY <1>1, WaitingIs, WaitingIsNext
<1>9. ASSUME NEW k \in 1 .. N, Slot(m + k - 1) = l
      PROVE  r[k] = x
  <2>1. r[k] = At(l)'
    BY <1>1, <1>2, <1>5, <1>9, WaitingIsNext
  <2> QED BY <1>4, <1>6, <2>1, ClaimSlots, Sizes
<1>10. ASSUME NEW k \in 1 .. N, k \in 1 .. n, Slot(m + k - 1) # l
       PROVE  r[k] = q[k]
  <2>1. PICK i \in 0 .. MaxMessage - 1 : i = Slot(m + k - 1)
    BY <1>1, <1>5, <1>10, WaitingIs
  <2>2. q[k] = At(i)
    BY <1>1, <1>5, <1>10, <2>1, WaitingIs
  <2>3. r[k] = At(i)'
    BY <1>1, <1>2, <1>5, <1>10, <2>1, WaitingIsNext
  <2> QED BY <1>4, <1>10, <2>1, <2>2, <2>3, ClaimSlots, Sizes
<1> HIDE DEF n, q, N, r, S, T
<1>11. n \in Nat /\ N \in Nat
  BY <1>8, LenProperties
<1>12. ASSUME N = n + 1, Slot(m + n) = l, \A k \in 1 .. n : Slot(m + k - 1) # l
       PROVE  /\ r = Append(q, x) /\ r[Len(r)] = x
              /\ \A k \in 1 .. N : r[k] = x \/ (k \in 1 .. n /\ r[k] = q[k])
  <2>1. r[n + 1] = x
    <3>1. n + 1 \in 1 .. N /\ m + (n + 1) - 1 = m + n
      BY <1>11, <1>12, Sizes
    <3> QED BY <1>9, <1>12, <3>1
  <2>2. \A k \in 1 .. n : r[k] = q[k]
    <3>1. \A k \in 1 .. n : k \in 1 .. N
      BY <1>11, <1>12
    <3> QED BY <1>10, <1>12, <3>1
  <2>3. r = Append(q, x)
    BY <1>8, <1>12, <2>1, <2>2, OneMore
  <2>4. \A k \in 1 .. N : k = n + 1 \/ k \in 1 .. n
    BY <1>11, <1>12
  <2> QED BY <1>8, <1>12, <2>1, <2>2, <2>3, <2>4
<1>13. ASSUME N = 1, n + 1 >= MaxMessage, l = m
       PROVE  /\ r = <<x>> /\ r[Len(r)] = x
              /\ \A k \in 1 .. N : r[k] = x
  <2>1. r[1] = x
    <3>1. m + 1 - 1 = m /\ Slot(m) = m
      BY SlotNext
    <3> QED BY <1>9, <1>13, <3>1
  <2>2. r = <<x>>
    BY <1>8, <1>13, <2>1, OneElement
  <2> QED BY <1>8, <1>13, <2>1, <2>2
<1>14. ASSUME N = 0
       PROVE  r = <<>> /\ 1 .. N = {}
  BY <1>8, <1>14, EmptySeq
<1>15. CASE l = m
  <2>1. N = 1
    <3>1. Slot(l + 1) # m
      BY <1>15, SlotNext
    <3>2. N = Gap(Slot(l + 1), m)
      BY <1>7, <3>1, Zenon DEF LagOf
    <3> QED BY <1>15, <3>2, GapIs
  <2>2. n \in {0, MaxMessage}
    BY <1>7, <1>15 DEF LagOf
  <2>3. CASE n = MaxMessage
    <3>1. n + 1 >= MaxMessage
      BY <2>3, Sizes
    <3> QED BY <1>6, <1>8, <1>13, <1>15, <2>1, <3>1 DEF Joined, n, q, N, r
  <2>4. CASE n = 0
    <3>1. Slot(m + n) = l
      <4>1. m + 0 = m /\ Slot(m) = m
        BY SlotNext
      <4> QED BY <1>15, <2>4, <4>1
    <3>2. N = n + 1 /\ 1 .. n = {}
      BY <2>1, <2>4
    <3> QED BY <1>6, <1>12, <3>1, <3>2 DEF Joined, n, q, N, r
  <2> QED BY <2>2, <2>3, <2>4
<1>16. CASE l # m
  <2>1. n = Gap(l, m)
    BY <1>7, <1>16, Zenon DEF LagOf
  <2>2. Slot(m + n) = l /\ \A k \in 1 .. n : Slot(m + k - 1) # l
    BY <1>16, <2>1, GapIs
  <2>3. CASE Slot(l + 1) # m
    <3>1. N = Gap(Slot(l + 1), m)
      BY <1>7, <2>3, Zenon DEF LagOf
    <3>2. N = n + 1
      BY <1>16, <2>1, <2>3, <3>1, GapIs
    <3> QED BY <1>6, <1>12, <2>2, <3>2 DEF Joined, n, q, N, r
  <2>4. CASE Slot(l + 1) = m
    <3>1. n = MaxMessage - 1
      BY <1>16, <2>1, <2>4, GapIs
    <3>2. N = IF Answering(p) THEN MaxMessage ELSE 0
      BY <1>7, <2>4, Zenon DEF LagOf
    <3>3. CASE N = MaxMessage
      <4>1. N = n + 1
        BY <3>1, <3>3, Sizes
      <4> QED BY <1>6, <1>12, <2>2, <4>1 DEF Joined, n, q, N, r
    <3>4. CASE N = 0
      <4>1. n + 1 >= MaxMessage
        BY <3>1, Sizes
      <4> QED BY <1>8, <1>14, <3>4, <4>1 DEF Joined, n, q, N, r
    <3> QED BY <3>2, <3>3, <3>4
  <2> QED BY <2>3, <2>4
<1> QED BY <1>15, <1>16

-----------------------------------------------------------------------------
(* Contents, texts, copies and windows. *)

LEMMA TextsPosted ==
  ASSUME Types, Places, Contents
  PROVE  \A i \in Slots : At(i).text \in 0 .. numbered
<1> SUFFICES ASSUME NEW i \in Slots PROVE At(i).text \in 0 .. numbered
  OBVIOUS
<1>0. \A x \in Shown : x.text \in 0 .. numbered
  BY DEF Shown, Types
<1>1. CASE Writing(i) = {}
  <2>1. At(i) = Text(messages[i])
    BY <1>1, AtIs
  <2>2. CASE messages[i] = Empty
    BY <2>1, <2>2 DEF Empty, Text, Types
  <2>3. CASE messages[i] # Empty
    <3>1. Text(messages[i]) \in Shown
      BY <2>3 DEF Contents
    <3> QED BY <1>0, <2>1, <3>1
  <2> QED BY <2>2, <2>3
<1>2. CASE Writing(i) # {}
  <2>1. PICK v \in Writers : v \in Writing(i)
    BY <1>2 DEF Writing
  <2>2. At(i) = Text(job[v]) /\ pc[v] \in AtWork
    BY <2>1, AtIs DEF Writing, AtWork
  <2>3. Text(job[v]) \in Shown
    BY <2>2, PlacedIs DEF Placed
  <2> QED BY <1>0, <2>2, <2>3
<1> QED BY <1>1, <1>2

LEMMA SameOnce ==
  ASSUME Types, Places, Contents, Once, NEW w \in Writers, Still(w), SameSlots,
         pc'[w] \in {"roll", "claim"} =>
           \/ pc[w] \in {"roll", "claim"} /\ job'[w].text = job[w].text
           \/ job'[w].text = numbered + 1
  PROVE  Once'
<1>1. \A i, j \in Slots : i # j /\ At(i)'.text = At(j)'.text => At(i)'.text = 0
  BY DEF Once, SameSlots
<1>2. ASSUME NEW v \in Writers, pc'[v] \in {"roll", "claim"}, NEW i \in Slots
      PROVE  At(i)'.text # job'[v].text
  <2>1. v = w
    BY <1>2 DEF Still, Parked
  <2>2. At(i)' = At(i) /\ At(i).text \in 0 .. numbered /\ numbered \in Nat
    BY TextsPosted DEF SameSlots, Types
  <2>3. CASE pc[w] \in {"roll", "claim"} /\ job'[w].text = job[w].text
    BY <2>1, <2>2, <2>3 DEF Once
  <2>4. CASE job'[w].text = numbered + 1
    BY <2>1, <2>2, <2>4
  <2> QED BY <1>2, <2>1, <2>3, <2>4
<1> QED BY <1>1, <1>2, Zenon DEF Once

LEMMA SameContents ==
  ASSUME Types, Contents, NEW w \in Writers, Still(w), messages' = messages,
         \A i \in Slots : Writing(i)' = Writing(i), pc'[w] # "valid",
         numbered' \in {numbered, numbered + 1}
  PROVE  Contents'
<1>1. \A i \in Slots : messages'[i].valid => Writing(i)' = {}
  BY DEF Contents
<1>2. \A i \in Slots : Writing(i)' = {} => messages'[i].valid \/ messages'[i] = Empty
  BY DEF Contents
<1>3. \A i \in Slots : messages'[i] # Empty => i < MaxMessage /\ Text(messages[i])' \in Shown'
  <2>1. Shown \subseteq Shown'
    BY MoreShown
  <2>2. \A i \in Slots : Text(messages[i])' = Text(messages[i])
    BY DEF Text
  <2> QED BY <2>1, <2>2 DEF Contents
<1>4. ASSUME NEW v \in Writers, pc'[v] = "valid"
      PROVE  Text(messages'[job'[v].slot]) = Text(job'[v])
  <2>1. v # w /\ pc[v] = "valid" /\ job'[v] = job[v]
    BY <1>4 DEF Still
  <2> QED BY <2>1 DEF Contents
<1> QED BY <1>1, <1>2, <1>3, <1>4, Zenon DEF Contents

LEMMA NoCopying ==
  ASSUME NEW w \in Writers, Still(w), pc'[w] # "copy"
  PROVE  Copying'
<1>1. \A p \in Players : p \in Writers
  BY DEF Writers
<1>2. \A p \in Players : pc'[p] # "copy"
  BY <1>1 DEF Still, Parked
<1> QED BY <1>2 DEF Copying

LEMMA SameWindows ==
  ASSUME Types, Windows, AllWait, numbered' \in {numbered, numbered + 1}
  PROVE  Windows'
<1>1. Shown \subseteq Shown'
  BY MoreShown
<1> HIDE DEF Lag, Waiting
<1> QED BY <1>1 DEF Windows, AllWait

LEMMA PassedWindows ==
  ASSUME Types, Windows, NEW p \in Players, Passed(p) \/ (Lag(p)' = 0 /\ Waiting(p)' = <<>>),
         OthersLeft(p), numbered' = numbered
  PROVE  Windows'
<1>1. Shown \subseteq Shown'
  BY MoreShown
<1> HIDE DEF Lag, Waiting
<1>2. ASSUME NEW q \in Players, NEW k \in 1 .. Lag(q)'
      PROVE  Waiting(q)'[k] \in Shown
  <2>1. CASE q # p
    BY <1>2, <2>1 DEF OthersLeft, Windows
  <2>2. CASE q = p /\ Passed(p)
    <3>1. Lag(p) \in Nat \ {0} /\ Lag(p)' = Lag(p) - 1 /\ k \in 1 .. Lag(p)'
      BY <1>2, <2>2, Zenon DEF Passed
    <3>2. Waiting(p)'[k] = Waiting(p)[k + 1]
      BY <2>2, <3>1, Zenon DEF Passed
    <3>3. k + 1 \in 1 .. Lag(p)
      BY <3>1
    <3>4. Waiting(p)[k + 1] \in Shown
      BY <3>3 DEF Windows
    <3> QED BY <2>2, <3>2, <3>4, Zenon
  <2>3. CASE q = p /\ Lag(p)' = 0
    BY <1>2, <2>3
  <2> QED BY <2>1, <2>2, <2>3
<1> QED BY <1>1, <1>2 DEF Windows

Data == Contents /\ Once /\ Copying /\ Windows

LEMMA AdvanceData ==
  ASSUME RingInv, Types', NEW w \in Writers, Still(w), pc[w] \in {"idle", "reply"},
         NEW l, NEW a \in BOOLEAN, a <=> pc[w] = "reply", Advance(w, l, a)
  PROVE  Data' /\ AllWait
<1> USE DEF RingInv
<1>1. SameSlots /\ AllWait /\ \A i \in Slots : Writing(i)' = Writing(i)
  BY AdvanceWaits
<1>2. /\ pc'[w] = "roll" /\ job'[w].text = numbered + 1 /\ numbered' = numbered + 1
      /\ messages' = messages
  BY DEF Advance, Types
<1>3. Contents'
  BY <1>1, <1>2, SameContents
<1>4. Once'
  BY <1>1, <1>2, SameOnce
<1>5. Copying'
  BY <1>2, NoCopying
<1>6. Windows'
  BY <1>1, <1>2, SameWindows
<1> QED BY <1>1, <1>3, <1>4, <1>5, <1>6 DEF Data

LEMMA RollOverData ==
  ASSUME RingInv, Sound, NEW w \in Writers, RollOver(w)
  PROVE  Data' /\ AllWait
<1> USE DEF RingInv
<1>1. SameSlots /\ AllWait /\ (\A i \in Slots : Writing(i)' = Writing(i)) /\ Still(w)
  BY RollOverWaits, StillActs
<1>2. /\ pc[w] = "roll" /\ pc'[w] = "claim" /\ job'[w].text = job[w].text
      /\ numbered' = numbered /\ messages' = messages
  BY DEF RollOver, Types
<1>3. Contents'
  BY <1>1, <1>2, SameContents
<1>4. Once'
  BY <1>1, <1>2, SameOnce
<1>5. Copying'
  BY <1>1, <1>2, NoCopying
<1>6. Windows'
  BY <1>1, <1>2, SameWindows
<1> QED BY <1>1, <1>3, <1>4, <1>5, <1>6 DEF Data

LEMMA ClaimData ==
  ASSUME RingInv, Sound, NEW w \in Writers, Claim(w), Types', Places'
  PROVE  Data'
<1> USE DEF RingInv
<1>1. /\ mc_current \in 0 .. MaxMessage - 1 /\ pc[w] = "claim" /\ pc'[w] = "fill"
      /\ messages' = [messages EXCEPT ![mc_current].valid = FALSE]
      /\ job' = job /\ job[w].slot = mc_current /\ Text(job[w]) \in Shown
      /\ \A v \in Writers \ {w} : pc[v] \in {"fill", "valid"} => job[v].slot # mc_current
      /\ Still(w)
  BY ClaimIs, StillActs
<1>2. \A i \in Slots :
        /\ i = mc_current =>
             At(i)' = Text(job[w]) /\ Writing(i)' = {w} /\ Writing(i) = {}
        /\ i # mc_current =>
             At(i)' = At(i) /\ Writing(i)' = Writing(i) /\ messages'[i] = messages[i]
  BY ClaimSlots
<1>3. numbered' = numbered
  BY DEF Claim
<1>4. PICK c \in Slots : c = mc_current /\ c < MaxMessage
  BY <1>1, Sizes
<1>5. /\ messages'[c].valid = FALSE /\ messages'[c].letter = messages[c].letter
      /\ messages'[c].text = messages[c].text
      /\ (messages[c] = Empty => messages'[c] = Empty)
  <2>1. messages'[c] = [messages[c] EXCEPT !.valid = FALSE]
    BY <1>1, <1>4 DEF Types
  <2>2. messages[c] \in [valid : BOOLEAN, letter : Letters \cup {None}, text : Nat]
    BY DEF Types
  <2>3. messages'[c] = [valid |-> FALSE, letter |-> messages[c].letter,
                        text |-> messages[c].text]
    BY <2>1, <2>2
  <2>4. ASSUME messages[c] = Empty PROVE messages'[c] = Empty
    <3>1. Empty.letter = None /\ Empty.text = 0
      BY DEF Empty
    <3>2. messages'[c] = [valid |-> FALSE, letter |-> None, text |-> 0]
      BY <2>3, <2>4, <3>1, Zenon
    <3> QED BY <3>2, Zenon DEF Empty
  <2>5. messages'[c].valid = FALSE /\ messages'[c].letter = messages[c].letter
        /\ messages'[c].text = messages[c].text
    BY <2>3
  <2> QED BY <2>4, <2>5, Zenon
<1>6. Shown \subseteq Shown'
  BY <1>3, MoreShown
<1>7. Contents'
  <2>1. \A i \in Slots : messages'[i].valid => Writing(i)' = {}
    BY <1>2, <1>4, <1>5 DEF Contents
  <2>2. \A i \in Slots : Writing(i)' = {} => messages'[i].valid \/ messages'[i] = Empty
    BY <1>2, <1>4 DEF Contents
  <2>3. ASSUME NEW i \in Slots, messages'[i] # Empty
        PROVE  i < MaxMessage /\ Text(messages[i])' \in Shown'
    <3>1. messages[i] # Empty
      BY <1>2, <1>4, <1>5, <2>3
    <3>2. Text(messages[i])' = Text(messages[i])
      BY <1>2, <1>4, <1>5 DEF Text
    <3>3. i < MaxMessage /\ Text(messages[i]) \in Shown
      BY <3>1 DEF Contents
    <3> QED BY <1>6, <3>2, <3>3
  <2>4. ASSUME NEW v \in Writers, pc'[v] = "valid"
        PROVE  Text(messages'[job'[v].slot]) = Text(job'[v])
    <3>1. v # w /\ pc[v] = "valid"
      BY <1>1, <2>4 DEF Still
    <3>2. job[v].slot # mc_current /\ job[v].slot \in 0 .. MaxMessage - 1
      BY <1>1, <3>1, PlacedIs DEF Placed
    <3>3. messages'[job[v].slot] = messages[job[v].slot]
      BY <1>2, <3>2, Sizes
    <3> QED BY <1>1, <3>1, <3>3 DEF Contents
  <2> QED BY <2>1, <2>2, <2>3, <2>4, Zenon DEF Contents
<1>8. Once'
  <2>1. At(c)' = Text(job[w]) /\ \A i \in Slots : i # c => At(i)' = At(i)
    BY <1>2, <1>4
  <2>2. \A i \in Slots : At(i).text # job[w].text
    BY <1>1 DEF Once
  <2>3. \A i \in Slots : i # c => At(i)'.text # At(c)'.text
    BY <2>1, <2>2 DEF Text
  <2>4. \A i, j \in Slots : i # j /\ At(i)'.text = At(j)'.text => At(i)'.text = 0
    BY <2>1, <2>3 DEF Once
  <2>5. \A v \in Writers : pc'[v] \notin {"roll", "claim"}
    BY <1>1 DEF Still, Parked
  <2> QED BY <2>4, <2>5, Zenon DEF Once
<1>9. Copying'
  BY <1>1, NoCopying
<1>10. Windows'
  <2> HIDE DEF Lag, Waiting
  <2>1. ASSUME NEW p \in Players, NEW k \in 1 .. Lag(p)'
        PROVE  Waiting(p)'[k] \in Shown
    <3>1. \/ Waiting(p)'[k] = Text(job[w])
          \/ k \in 1 .. Lag(p) /\ Waiting(p)'[k] = Waiting(p)[k]
      BY ClaimWaits
    <3> QED BY <1>1, <3>1 DEF Windows
  <2> QED BY <1>6, <2>1 DEF Windows
<1> QED BY <1>7, <1>8, <1>9, <1>10 DEF Data

LEMMA FillData ==
  ASSUME RingInv, Sound, NEW w \in Writers, Fill(w), Types', Places'
  PROVE  Data' /\ AllWait
<1> USE DEF RingInv
<1>1. /\ SameSlots /\ AllWait /\ (\A i \in Slots : Writing(i)' = Writing(i)) /\ Still(w)
      /\ job[w].slot \in 0 .. MaxMessage - 1 /\ Writing(job[w].slot) = {w}
  BY FillWaits, StillActs
<1>2. /\ pc[w] = "fill" /\ pc'[w] = "valid" /\ job' = job /\ numbered' = numbered
  BY DEF Fill, Types
<1>3. PICK s \in Slots : s = job[w].slot /\ s < MaxMessage
  BY <1>1, Sizes
<1>4. /\ \A i \in Slots \ {s} : messages'[i] = messages[i]
      /\ Text(messages'[s]) = Text(job[w]) /\ messages'[s].valid = messages[s].valid
  BY <1>3 DEF Fill, Types, Text
<1>5. Text(job[w]) \in Shown
  BY <1>2, PlacedIs DEF Placed, AtWork
<1>6. Shown \subseteq Shown'
  BY <1>2, MoreShown
<1>7. Contents'
  <2>1. \A i \in Slots : messages'[i].valid => Writing(i)' = {}
    BY <1>1, <1>4 DEF Contents
  <2>2. ASSUME NEW i \in Slots, Writing(i)' = {}
        PROVE  messages'[i].valid \/ messages'[i] = Empty
    <3>1. i # s
      BY <1>1, <1>3, <2>2
    <3> QED BY <1>1, <1>4, <2>2, <3>1 DEF Contents
  <2>3. ASSUME NEW i \in Slots, messages'[i] # Empty
        PROVE  i < MaxMessage /\ Text(messages[i])' \in Shown'
    <3>1. CASE i = s
      BY <1>3, <1>4, <1>5, <1>6, <3>1
    <3>2. CASE i # s
      BY <1>4, <1>6, <2>3, <3>2 DEF Contents, Text
    <3> QED BY <3>1, <3>2
  <2>4. ASSUME NEW v \in Writers, pc'[v] = "valid"
        PROVE  Text(messages'[job'[v].slot]) = Text(job'[v])
    <3>1. CASE v = w
      BY <1>2, <1>3, <1>4, <3>1
    <3>2. CASE v # w
      <4>1. pc[v] = "valid"
        BY <1>1, <2>4, <3>2 DEF Still
      <4>2. job[v].slot # s /\ job[v].slot \in Slots
        BY <1>2, <1>3, <3>2, <4>1, PlacedIs, Sizes DEF Placed, Apart
      <4> QED BY <1>2, <1>4, <4>1, <4>2 DEF Contents
    <3> QED BY <3>1, <3>2
  <2> QED BY <2>1, <2>2, <2>3, <2>4, Zenon DEF Contents
<1>8. Once'
  BY <1>1, <1>2, SameOnce
<1>9. Copying'
  BY <1>1, <1>2, NoCopying
<1>10. Windows'
  BY <1>1, <1>2, SameWindows
<1> QED BY <1>1, <1>7, <1>8, <1>9, <1>10 DEF Data

LEMMA ValidateData ==
  ASSUME RingInv, Sound, NEW w \in Writers, Validate(w), Types', Places'
  PROVE  Data' /\ AllWait
<1> USE DEF RingInv
<1>1. /\ SameSlots /\ AllWait /\ Still(w)
      /\ \A i \in Slots : Writing(i)' = IF i = job[w].slot THEN {} ELSE Writing(i)
      /\ job[w].slot \in 0 .. MaxMessage - 1 /\ Writing(job[w].slot) = {w}
  BY ValidateWaits, StillActs
<1>2. /\ pc[w] = "valid" /\ pc'[w] \in {"idle", "reply"} /\ numbered' = numbered
  BY DEF Validate, Types
<1>3. PICK s \in Slots : s = job[w].slot /\ s < MaxMessage
  BY <1>1, Sizes
<1>4. /\ \A i \in Slots \ {s} : messages'[i] = messages[i]
      /\ Text(messages'[s]) = Text(messages[s]) /\ messages'[s].valid = TRUE
  BY <1>3 DEF Validate, Types, Text
<1>5. Text(messages[s]) = Text(job[w])
  BY <1>2, <1>3 DEF Contents
<1>6. Shown \subseteq Shown' /\ Text(job[w]) \in Shown
  BY <1>2, MoreShown, PlacedIs DEF Placed, AtWork
<1>7. Contents'
  <2>1. \A i \in Slots : messages'[i].valid => Writing(i)' = {}
    BY <1>1, <1>3, <1>4 DEF Contents
  <2>2. \A i \in Slots : Writing(i)' = {} => messages'[i].valid \/ messages'[i] = Empty
    BY <1>1, <1>3, <1>4 DEF Contents
  <2>3. ASSUME NEW i \in Slots, messages'[i] # Empty
        PROVE  i < MaxMessage /\ Text(messages[i])' \in Shown'
    <3>1. CASE i = s
      BY <1>3, <1>4, <1>5, <1>6, <3>1
    <3>2. CASE i # s
      BY <1>4, <1>6, <2>3, <3>2 DEF Contents, Text
    <3> QED BY <3>1, <3>2
  <2>4. ASSUME NEW v \in Writers, pc'[v] = "valid"
        PROVE  Text(messages'[job'[v].slot]) = Text(job'[v])
    <3>1. v # w /\ pc[v] = "valid" /\ job'[v] = job[v]
      BY <1>1, <1>2, <2>4 DEF Still
    <3>2. job[v].slot # s /\ job[v].slot \in Slots
      BY <1>2, <1>3, <3>1, PlacedIs, Sizes DEF Placed, Apart
    <3> QED BY <1>4, <3>1, <3>2 DEF Contents
  <2> QED BY <2>1, <2>2, <2>3, <2>4, Zenon DEF Contents
<1>8. Once'
  BY <1>1, <1>2, SameOnce
<1>9. Copying'
  BY <1>1, <1>2, NoCopying
<1>10. Windows'
  BY <1>1, <1>2, SameWindows
<1> QED BY <1>1, <1>7, <1>8, <1>9, <1>10 DEF Data

LEMMA ReaderData ==
  ASSUME RingInv, Sound, NEW p \in Players,
         Test(p) \/ Copy(p) \/ Answered(p) \/ Reconnect(p)
  PROVE  Data'
<1> USE DEF RingInv
<1>1. /\ p \in Writers /\ Still(p) /\ Types' /\ Lead' = Lead /\ SameSlots
      /\ \A i \in Slots : Writing(i)' = Writing(i)
      /\ pc'[p] \in {"idle", "copy", "reply"}
      /\ UNCHANGED <<ring, job, posted, numbered>>
  BY ReaderStands
<1>2. Contents'
  BY <1>1, SameContents DEF ring
<1>3. Once'
  BY <1>1, SameOnce
<1>4. Copying'
  <2>1. CASE pc'[p] # "copy"
    BY <1>1, <2>1, NoCopying
  <2>2. CASE pc'[p] = "copy"
    <3>1. ~Onwards(p) /\ ~Reconnect(p) /\ ~Copy(p)
      <4>1. Onwards(p) => pc'[p] = "idle"
        BY OnwardsTypes
      <4>2. Reconnect(p) => pc'[p] = "idle"
        BY DEF Reconnect
      <4>3. pc' = [pc EXCEPT ![p] = "reply"] => pc'[p] = "reply"
        BY <1>1 DEF Types
      <4> QED BY <2>2, <4>1, <4>2, <4>3 DEF Copy
    <3>2. /\ Test(p) /\ Pending(p) /\ Current(p).valid /\ For(p, Current(p).letter)
          /\ UNCHANGED msgCurrent
      BY <3>1 DEF Test, Answered
    <3>3. Pending(p)' /\ Current(p)' = Current(p)
      BY <1>1, <3>2 DEF Pending, Current, ring
    <3>4. \A q \in Players \ {p} : pc'[q] # "copy"
      BY <1>1 DEF Still, Parked, Writers
    <3> QED BY <3>2, <3>3, <3>4 DEF Copying, For
  <2> QED BY <2>1, <2>2
<1>5. Windows'
  <2>1. CASE Onwards(p) /\ ~Reconnect(p)
    <3>1. Passed(p) /\ OthersLeft(p)
      BY <2>1, OnwardsWaits
    <3> QED BY <1>1, <3>1, PassedWindows
  <2>2. CASE Reconnect(p)
    <3>1. Lag(p)' = 0 /\ Waiting(p)' = <<>> /\ OthersLeft(p)
      BY <2>2, ReconnectWaits
    <3> QED BY <1>1, <3>1, PassedWindows
  <2>3. CASE ~Onwards(p) /\ ~Reconnect(p)
    <3>1. AllWait
      <4>1. /\ Test(p) \/ (Copy(p) /\ UNCHANGED msgCurrent)
            /\ pc' = [pc EXCEPT ![p] = "copy"] \/ pc' = [pc EXCEPT ![p] = "reply"]
        BY <2>3 DEF Test, Copy, Answered
      <4>2. UNCHANGED msgCurrent
        BY <2>3, <4>1 DEF Test
      <4> QED BY <4>1, <4>2, StaysWaits
    <3> QED BY <1>1, <3>1, SameWindows
  <2> QED BY <2>1, <2>2, <2>3
<1> QED BY <1>2, <1>3, <1>4, <1>5 DEF Data

-----------------------------------------------------------------------------
(* What may still be answered. *)

LEMMA MostRepliesIs ==
  MostReplies \in {1, 2} /\ \A n \in Replies \cup {1} : n \in Nat /\ n <= MostReplies
<1>1. Replies \cup {1} \subseteq 0 .. 2
  BY MessageRingAssumption
<1>2. \E n \in Replies \cup {1} : \A m \in Replies \cup {1} : m <= n
  <2>1. CASE 2 \in Replies
    <3>1. \A m \in Replies \cup {1} : m <= 2
      BY <1>1
    <3> QED BY <2>1, <3>1
  <2>2. CASE 2 \notin Replies
    <3>1. \A m \in Replies \cup {1} : m <= 1
      <4>1. \A m \in 0 .. 2 : m # 2 => m <= 1
        OBVIOUS
      <4> QED BY <1>1, <2>2, <4>1
    <3> QED BY <3>1
  <2> QED BY <2>1, <2>2
<1>3. /\ MostReplies \in Replies \cup {1}
      /\ \A m \in Replies \cup {1} : m <= MostReplies
  BY <1>2 DEF MostReplies
<1>4. MostReplies \in 0 .. 2 /\ 1 <= MostReplies
  BY <1>1, <1>3
<1> QED BY <1>1, <1>3, <1>4

LEMMA ImageFinite ==
  ASSUME NEW S, IsFiniteSet(S), NEW T, NEW f \in [S -> T],
         \A t \in T : \E s \in S : f[s] = t
  PROVE  IsFiniteSet(T)
<1>1. f \in Surjection(S, T)
  BY DEF Surjection
<1> QED BY <1>1, FS_Surjection

OwedBy(p) == {<<p, k>> : k \in 1 .. Len(replies[p])}

LEMMA OwingIs ==
  Types =>
    /\ IsFiniteSet(Owing) /\ Cardinality(Owing) \in Nat
    /\ \A p \in Players : \A k : <<p, k>> \in Owing <=> k \in 1 .. Len(replies[p])
    /\ \A o \in Owing : \E p \in Players : \E k \in 1 .. Len(replies[p]) : o = <<p, k>>
<1> HAVE Types
<1> DEFINE T == {OwedBy(p) : p \in Players}
<1>1. Owing = UNION T
  BY DEF Owing, OwedBy
<1>2. ASSUME NEW p \in Players PROVE IsFiniteSet(OwedBy(p))
  <2> DEFINE n == Len(replies[p])
  <2>1. n \in Nat
    BY LenProperties DEF Types
  <2>2. IsFiniteSet(1 .. n)
    BY <2>1, FS_Interval
  <2> DEFINE f == [k \in 1 .. n |-> <<p, k>>]
  <2>3. OwedBy(p) = {<<p, k>> : k \in 1 .. n}
    BY DEF OwedBy
  <2> HIDE DEF n
  <2>4. f \in [1 .. n -> OwedBy(p)] /\ \A t \in OwedBy(p) : \E k \in 1 .. n : f[k] = t
    BY <2>3
  <2> HIDE DEF f
  <2> QED BY <2>2, <2>4, ImageFinite
<1>3. IsFiniteSet(T)
  <2> DEFINE f == [p \in Players |-> OwedBy(p)]
  <2>1. f \in [Players -> T] /\ \A t \in T : \E p \in Players : f[p] = t
    OBVIOUS
  <2>2. IsFiniteSet(Players)
    BY MessageRingAssumption
  <2> HIDE DEF f, T
  <2> QED BY <2>1, <2>2, ImageFinite
<1>4. IsFiniteSet(Owing)
  <2>1. \A t \in T : IsFiniteSet(t)
    BY <1>2
  <2> HIDE DEF T
  <2> QED BY <1>1, <1>3, <2>1, FS_UNION
<1>5. \A p \in Players : \A k : <<p, k>> \in Owing <=> k \in 1 .. Len(replies[p])
  BY DEF Owing
<1>6. \A o \in Owing : \E p \in Players : \E k \in 1 .. Len(replies[p]) : o = <<p, k>>
  BY DEF Owing
<1> QED BY <1>4, <1>5, <1>6, FS_CardinalityType

LEMMA OwingIsNext ==
  ASSUME Types'
  PROVE  /\ IsFiniteSet(Owing') /\ Cardinality(Owing') \in Nat
         /\ \A p \in Players : \A k : <<p, k>> \in Owing' <=> k \in 1 .. Len(replies'[p])
         /\ \A o \in Owing' : \E p \in Players : \E k \in 1 .. Len(replies'[p]) : o = <<p, k>>
<1>1. (Types =>
    /\ IsFiniteSet(Owing) /\ Cardinality(Owing) \in Nat
    /\ \A p \in Players : \A k : <<p, k>> \in Owing <=> k \in 1 .. Len(replies[p])
    /\ \A o \in Owing : \E p \in Players : \E k \in 1 .. Len(replies[p]) : o = <<p, k>>)'
  BY OwingIs, PTL
<1> QED BY <1>1

(* The letters of which a writer has not yet claimed the slot. *)
Unclaimed(w) == pc[w] \in {"roll", "claim"} /\ ~job[w].answer
Answerable(p, k) == k \in 1 .. Lag(p) /\ Direct(p, Waiting(p)[k]) /\ (k = 1 => ~InReply(p))

LEMMA OpenIs ==
  \A t : t \in Open <=>
    \/ \E p \in Players : \E k : Answerable(p, k) /\ t = Waiting(p)[k].text
    \/ \E w \in Writers : Unclaimed(w) /\ t = job[w].text
<1> HIDE DEF Lag, Waiting, Direct, InReply
<1>1. \A p \in Players : \A t : t \in Unanswered(p) <=>
        \E k : Answerable(p, k) /\ t = Waiting(p)[k].text
  BY Zenon DEF Unanswered, Answerable
<1>2. \A t : t \in Open <=>
        \/ \E p \in Players : t \in Unanswered(p)
        \/ \E w \in Writers : Unclaimed(w) /\ t = job[w].text
  <2>1. \A t : t \in UNION {Unanswered(p) : p \in Players}
                <=> \E p \in Players : t \in Unanswered(p)
    BY Zenon
  <2>2. \A t : t \in {job[w].text : w \in {v \in Writers : pc[v] \in {"roll", "claim"}
                                                          /\ ~job[v].answer}}
                <=> \E w \in Writers : Unclaimed(w) /\ t = job[w].text
    BY Zenon DEF Unclaimed
  <2> DEFINE A == UNION {Unanswered(p) : p \in Players}
             B == {job[w].text : w \in {v \in Writers : pc[v] \in {"roll", "claim"}
                                                         /\ ~job[v].answer}}
  <2>3. Open = A \cup B
    BY DEF Open
  <2> HIDE DEF A, B
  <2>4. \A t : t \in Open <=> (t \in A \/ t \in B)
    BY <2>3
  <2> QED BY <2>1, <2>2, <2>4, Zenon DEF A, B
<1> HIDE DEF Answerable, Unclaimed, Unanswered
<1> SUFFICES ASSUME NEW t
             PROVE  t \in Open <=>
                      \/ \E p \in Players : \E k : Answerable(p, k) /\ t = Waiting(p)[k].text
                      \/ \E w \in Writers : Unclaimed(w) /\ t = job[w].text
  BY Zenon
<1>3. ASSUME NEW p \in Players
      PROVE  t \in Unanswered(p) <=> \E k : Answerable(p, k) /\ t = Waiting(p)[k].text
  BY <1>1, ZenonT(60)
<1>4. (\E p \in Players : t \in Unanswered(p))
        <=> \E p \in Players : \E k : Answerable(p, k) /\ t = Waiting(p)[k].text
  <2>1. ASSUME NEW p \in Players, t \in Unanswered(p)
        PROVE  \E q \in Players : \E k : Answerable(q, k) /\ t = Waiting(q)[k].text
    BY <1>3, <2>1, Zenon
  <2>2. ASSUME NEW p \in Players, \E k : Answerable(p, k) /\ t = Waiting(p)[k].text
        PROVE  \E q \in Players : t \in Unanswered(q)
    BY <1>3, <2>2, Zenon
  <2> QED BY <2>1, <2>2, Zenon
<1> QED BY <1>2, <1>4, Zenon

LEMMA OpenIsNext ==
  \A t : t \in Open' <=>
    \/ \E p \in Players : \E k : Answerable(p, k)' /\ t = Waiting(p)'[k].text
    \/ \E w \in Writers : Unclaimed(w)' /\ t = job'[w].text
<1>1. (\A t : t \in Open <=>
    \/ \E p \in Players : \E k : Answerable(p, k) /\ t = Waiting(p)[k].text
    \/ \E w \in Writers : Unclaimed(w) /\ t = job[w].text)'
  BY OpenIs, PTL
<1> QED BY <1>1

LEMMA OpenFinite ==
  Types /\ Places /\ Windows =>
     /\ Open \subseteq 1 .. numbered
     /\ IsFiniteSet(Open) /\ Cardinality(Open) \in Nat
<1> SUFFICES ASSUME Types, Places, Windows
             PROVE  /\ Open \subseteq 1 .. numbered
                    /\ IsFiniteSet(Open) /\ Cardinality(Open) \in Nat
  OBVIOUS
<1> HIDE DEF Lag, Waiting
<1>1. \A x \in Shown : x.text \in 1 .. numbered
  BY DEF Shown
<1>2. \A p \in Players : \A k \in 1 .. Lag(p) : Waiting(p)[k].text \in 1 .. numbered
  BY <1>1 DEF Windows
<1>3. \A w \in Writers : Unclaimed(w) => job[w].text \in 1 .. numbered
  <2> SUFFICES ASSUME NEW w \in Writers, Unclaimed(w) PROVE job[w].text \in 1 .. numbered
    OBVIOUS
  <2>1. Text(job[w]) \in Shown
    BY PlacedIs DEF Placed, AtWork, Unclaimed
  <2>2. Text(job[w]).text = job[w].text
    BY DEF Text
  <2> QED BY <1>1, <2>1, <2>2
<1>4. Open \subseteq 1 .. numbered
  BY <1>2, <1>3, OpenIs DEF Answerable
<1>5. numbered \in Int
  BY DEF Types
<1>6. IsFiniteSet(Open)
  <2>1. IsFiniteSet(1 .. numbered)
    BY <1>5, FS_Interval
  <2>2. Open \in SUBSET (1 .. numbered)
    BY <1>4
  <2> QED BY <2>1, <2>2, FS_Subset
<1> QED BY <1>4, <1>6, FS_CardinalityType

LEMMA OpenFiniteNext ==
  ASSUME Types', Places', Windows'
  PROVE  IsFiniteSet(Open') /\ Cardinality(Open') \in Nat
<1>1. (Types /\ Places /\ Windows =>
       /\ Open \subseteq 1 .. numbered
       /\ IsFiniteSet(Open) /\ Cardinality(Open) \in Nat)'
  BY OpenFinite, PTL
<1> QED BY <1>1

(* What may still be answered could be answered before. *)
Covered(p) ==
  \A k : Answerable(p, k)' =>
    \E j : Answerable(p, j) /\ Waiting(p)'[k].text = Waiting(p)[j].text

LEMMA CoveredSame ==
  ASSUME NEW p \in Players, Lag(p)' = Lag(p), Waiting(p)' = Waiting(p),
         InReply(p) => InReply(p)'
  PROVE  Covered(p)
<1> HIDE DEF Lag, Waiting, InReply
<1> SUFFICES ASSUME NEW k, Answerable(p, k)'
             PROVE  Answerable(p, k) /\ Waiting(p)'[k].text = Waiting(p)[k].text
  BY Zenon DEF Covered
<1>1. k \in 1 .. Lag(p) /\ (k = 1 => ~InReply(p))
  BY DEF Answerable
<1>2. Direct(p, Waiting(p)[k])
  BY DEF Answerable, Direct
<1> QED BY <1>1, <1>2 DEF Answerable

LEMMA CoveredPassed ==
  ASSUME NEW p \in Players, Passed(p)
  PROVE  Covered(p)
<1> HIDE DEF Lag, Waiting, InReply
<1> SUFFICES ASSUME NEW k, Answerable(p, k)'
             PROVE  Answerable(p, k + 1) /\ Waiting(p)'[k].text = Waiting(p)[k + 1].text
  BY Zenon DEF Covered
<1>1. k \in 1 .. Lag(p)'
  BY DEF Answerable
<1>2. Lag(p) \in Nat \ {0} /\ Lag(p)' = Lag(p) - 1 /\ Waiting(p)'[k] = Waiting(p)[k + 1]
  BY <1>1, Zenon DEF Passed
<1>3. k + 1 \in 1 .. Lag(p) /\ k + 1 # 1
  BY <1>1, <1>2
<1>4. Direct(p, Waiting(p)'[k])
  BY DEF Answerable, Direct
<1>5. Direct(p, Waiting(p)[k + 1])
  BY <1>2, <1>4
<1> QED BY <1>2, <1>3, <1>5 DEF Answerable

LEMMA CoveredGone ==
  ASSUME NEW p \in Players, Lag(p)' = 0
  PROVE  Covered(p)
<1> HIDE DEF Lag, Waiting, InReply
<1>1. \A k : ~Answerable(p, k)'
  BY DEF Answerable
<1> QED BY <1>1 DEF Covered

(* X is what else may be answered now. *)
LEMMA OpenWithin ==
  ASSUME NEW X,
         \A p \in Players : \A k : Answerable(p, k)' =>
           \/ Waiting(p)'[k].text \in X
           \/ \E j : Answerable(p, j) /\ Waiting(p)'[k].text = Waiting(p)[j].text,
         \A w \in Writers : Unclaimed(w)' =>
           \/ job'[w].text \in X
           \/ Unclaimed(w) /\ job'[w].text = job[w].text
  PROVE  Open' \subseteq Open \cup X
<1> HIDE DEF Lag, Waiting, InReply, Answerable, Unclaimed
<1> SUFFICES ASSUME NEW t, t \in Open', t \notin X
             PROVE  t \in Open
  OBVIOUS
<1>1. CASE \E p \in Players : \E k : Answerable(p, k)' /\ t = Waiting(p)'[k].text
  <2>0. PICK p \in Players : \E k : Answerable(p, k)' /\ t = Waiting(p)'[k].text
    BY <1>1, Zenon
  <2>1. PICK k : Answerable(p, k)' /\ t = Waiting(p)'[k].text
    BY <2>0, Zenon
  <2>2. PICK j : Answerable(p, j) /\ Waiting(p)'[k].text = Waiting(p)[j].text
    BY <2>1
  <2>3. t = Waiting(p)[j].text
    BY <2>1, <2>2, Zenon
  <2> QED BY <2>2, <2>3, OpenIs, Zenon
<1>2. CASE \E w \in Writers : Unclaimed(w)' /\ t = job'[w].text
  <2>1. PICK w \in Writers : Unclaimed(w)' /\ t = job'[w].text
    BY <1>2, Zenon
  <2>2. Unclaimed(w) /\ t = job[w].text
    BY <2>1
  <2> QED BY <2>2, OpenIs, Zenon
<1> QED BY <1>1, <1>2, OpenIsNext, Zenon

LEMMA OpenShrinks ==
  ASSUME \A p \in Players : Covered(p), \A w \in Writers : Unclaimed(w)' =>
           Unclaimed(w) /\ job'[w].text = job[w].text
  PROVE  Open' \subseteq Open
<1> HIDE DEF Lag, Waiting, InReply, Answerable, Unclaimed
<1>1. Open' \subseteq Open \cup {}
  <2>1. \A p \in Players : \A k : Answerable(p, k)' =>
           \E j : Answerable(p, j) /\ Waiting(p)'[k].text = Waiting(p)[j].text
    BY Zenon DEF Covered
  <2> QED BY <2>1, OpenWithin
<1> QED BY <1>1

LEMMA OthersUnclaimed ==
  ASSUME NEW w \in Writers, Still(w),
         Unclaimed(w)' => Unclaimed(w) /\ job'[w].text = job[w].text
  PROVE  \A v \in Writers : Unclaimed(v)' => Unclaimed(v) /\ job'[v].text = job[v].text
BY DEF Still, Unclaimed, Parked

(* The accounts. *)
Within(n, o, u, b) == n + o + MostReplies * u <= b * (1 + MostReplies)
Deal(n, o, u, b, n2, o2, u2, b2) ==
  \/ n2 = n /\ o2 <= o /\ u2 <= u /\ b2 = b
  \/ n2 = n + 1 /\ o2 <= o /\ u2 <= u + 1 /\ b2 = b + 1
  \/ n2 = n + 1 /\ o2 <= o - 1 /\ u2 <= u /\ b2 = b
  \/ n2 = n /\ o2 <= o + MostReplies /\ u2 <= u - 1 /\ b2 = b

LEMMA BudgetStep ==
  ASSUME RingInv, Types', Places', Windows',
         \/ /\ UNCHANGED <<numbered, posted>> /\ Open' \subseteq Open /\ Owing' \subseteq Owing
         \/ /\ numbered' = numbered + 1 /\ posted' = posted + 1 /\ Owing' \subseteq Owing
            /\ \E x : Open' \subseteq Open \cup {x}
         \/ /\ numbered' = numbered + 1 /\ posted' = posted /\ Open' \subseteq Open
            /\ \E x \in Owing : Owing' \subseteq Owing \ {x}
         \/ /\ UNCHANGED <<numbered, posted>>
            /\ \E x \in Open : Open' \subseteq Open \ {x}
            /\ Cardinality(Owing') <= Cardinality(Owing) + MostReplies
  PROVE  Budget'
<1> USE DEF RingInv
<1>1. /\ IsFiniteSet(Owing) /\ Cardinality(Owing) \in Nat
      /\ IsFiniteSet(Owing') /\ Cardinality(Owing') \in Nat
      /\ IsFiniteSet(Open) /\ Cardinality(Open) \in Nat
      /\ IsFiniteSet(Open') /\ Cardinality(Open') \in Nat
  BY OwingIs, OwingIsNext, OpenFinite, OpenFiniteNext
<1>2. /\ numbered \in Nat /\ posted \in Nat /\ numbered' \in Nat /\ posted' \in Nat
  BY MessageRingAssumption DEF Types
<1>3. numbered + Cardinality(Owing) + MostReplies * Cardinality(Open)
        <= posted * (1 + MostReplies)
  BY DEF Budget
<1> DEFINE n == numbered
           o == Cardinality(Owing)
           u == Cardinality(Open)
           b == posted
           n2 == numbered'
           o2 == Cardinality(Owing')
           u2 == Cardinality(Open')
           b2 == posted'
<1> HIDE DEF n, o, u, b, n2, o2, u2, b2
<1>4. ASSUME Open' \subseteq Open PROVE u2 <= u
  BY <1>1, <1>4, FS_Subset DEF u, u2
<1>5. ASSUME Owing' \subseteq Owing PROVE o2 <= o
  BY <1>1, <1>5, FS_Subset DEF o, o2
<1>6. ASSUME NEW x, Open' \subseteq Open \cup {x} PROVE u2 <= u + 1
  <2>1. IsFiniteSet(Open \cup {x}) /\ Cardinality(Open \cup {x}) <= u + 1
    <3>1. /\ IsFiniteSet(Open \cup {x})
          /\ Cardinality(Open \cup {x}) = IF x \in Open THEN u ELSE u + 1
      BY <1>1, FS_AddElement DEF u
    <3>2. u \in Nat
      BY <1>1 DEF u
    <3> QED BY <3>1, <3>2
  <2>2. u2 <= Cardinality(Open \cup {x})
    BY <1>6, <2>1, FS_Subset DEF u2
  <2>3. u \in Nat /\ u2 \in Nat /\ Cardinality(Open \cup {x}) \in Nat
    BY <1>1, <2>1, FS_CardinalityType DEF u, u2
  <2> QED BY <2>1, <2>2, <2>3
<1>7. ASSUME NEW x \in Open, Open' \subseteq Open \ {x} PROVE u2 <= u - 1
  <2>1. IsFiniteSet(Open \ {x}) /\ Cardinality(Open \ {x}) = u - 1
    BY <1>1, FS_RemoveElement DEF u
  <2> QED BY <1>7, <2>1, FS_Subset DEF u2
<1>8. ASSUME NEW x \in Owing, Owing' \subseteq Owing \ {x} PROVE o2 <= o - 1
  <2>1. IsFiniteSet(Owing \ {x}) /\ Cardinality(Owing \ {x}) = o - 1
    BY <1>1, FS_RemoveElement DEF o
  <2> QED BY <1>8, <2>1, FS_Subset DEF o2
<1>9. /\ n \in Nat /\ o \in Nat /\ u \in Nat /\ b \in Nat
      /\ n2 \in Nat /\ o2 \in Nat /\ u2 \in Nat /\ b2 \in Nat
      /\ Within(n, o, u, b)
  BY <1>1, <1>2, <1>3 DEF n, o, u, b, n2, o2, u2, b2, Within
<1>10. Deal(n, o, u, b, n2, o2, u2, b2)
  <2> USE DEF Deal
  <2>1. CASE /\ UNCHANGED <<numbered, posted>> /\ Open' \subseteq Open /\ Owing' \subseteq Owing
    BY <1>4, <1>5, <2>1 DEF n, n2, b, b2
  <2>2. CASE /\ numbered' = numbered + 1 /\ posted' = posted + 1 /\ Owing' \subseteq Owing
             /\ \E x : Open' \subseteq Open \cup {x}
    BY <1>5, <1>6, <2>2 DEF n, n2, b, b2
  <2>3. CASE /\ numbered' = numbered + 1 /\ posted' = posted /\ Open' \subseteq Open
             /\ \E x \in Owing : Owing' \subseteq Owing \ {x}
    BY <1>4, <1>8, <2>3 DEF n, n2, b, b2
  <2>4. CASE /\ UNCHANGED <<numbered, posted>>
             /\ \E x \in Open : Open' \subseteq Open \ {x}
             /\ Cardinality(Owing') <= Cardinality(Owing) + MostReplies
    BY <1>7, <2>4 DEF n, n2, b, b2, o, o2
  <2> QED BY <2>1, <2>2, <2>3, <2>4
<1>11. Within(n2, o2, u2, b2)
  <2>1. CASE MostReplies = 1
    BY <1>9, <1>10, <2>1 DEF Within, Deal
  <2>2. CASE MostReplies = 2
    <3>1. 1 + 2 = 3 /\ n + o + 2 * u <= b * 3
      BY <1>9, <2>2 DEF Within
    <3>2. n2 + o2 + 2 * u2 <= b2 * 3
      BY <1>9, <1>10, <2>2, <3>1 DEF Deal
    <3> QED BY <2>2, <3>1, <3>2 DEF Within
  <2> QED BY <2>1, <2>2, MostRepliesIs
<1> QED BY <1>11 DEF Within, Budget, n2, o2, u2, b2

-----------------------------------------------------------------------------
(* What each step does to the accounts. *)

LEMMA InReplyKept ==
  ASSUME NEW w \in Writers, Still(w), w \in Players /\ InReply(w) => InReply(w)'
  PROVE  \A p \in Players : InReply(p) => InReply(p)'
<1> SUFFICES ASSUME NEW p \in Players, p # w, InReply(p) PROVE InReply(p)'
  BY Zenon
<1>1. p \in Writers \ {w}
  BY DEF Writers
<1> QED BY <1>1 DEF Still, InReply

LEMMA SameOwing ==
  ASSUME replies' = replies
  PROVE  Owing' = Owing
BY DEF Owing

(* A step after which the same waits, and the same answers are due. *)
LEMMA QuietBudget ==
  ASSUME RingInv, Types', Places', Windows', NEW w \in Writers, Still(w), AllWait,
         w \in Players /\ InReply(w) => InReply(w)',
         Unclaimed(w)' => Unclaimed(w) /\ job'[w].text = job[w].text,
         UNCHANGED <<numbered, posted, replies>>
  PROVE  Budget'
<1> HIDE DEF Lag, Waiting, InReply, Answerable, Unclaimed
<1>1. \A p \in Players : Covered(p)
  BY InReplyKept, CoveredSame DEF AllWait
<1>2. Open' \subseteq Open
  BY <1>1, OthersUnclaimed, OpenShrinks
<1>3. Owing' \subseteq Owing
  BY SameOwing
<1> QED BY <1>2, <1>3, BudgetStep

LEMMA PostBudget ==
  ASSUME RingInv, Sound, NEW w \in Writers, Post(w), Types', Places', Windows', AllWait
  PROVE  Budget'
<1> USE DEF RingInv
<1> HIDE DEF Lag, Waiting, Answerable
<1>1. Still(w)
  BY StillActs
<1>2. /\ pc[w] = "idle" /\ pc'[w] = "roll" /\ job'[w].text = numbered + 1
      /\ numbered' = numbered + 1 /\ posted' = posted + 1 /\ replies' = replies
  BY DEF Post, Advance, Types
<1>3. ~InReply(w)
  BY <1>2, PlacedIs DEF InReply, Placed, AtWork, NoJob
<1>4. \A p \in Players : Covered(p)
  BY <1>1, <1>3, InReplyKept, CoveredSame DEF AllWait
<1>n. PICK x : x = numbered + 1
  OBVIOUS
<1>5. \A v \in Writers : Unclaimed(v)' => job'[v].text \in {x}
  BY <1>1, <1>2, <1>n DEF Unclaimed, Still, Parked
<1>6. Open' \subseteq Open \cup {x}
  <2>1. PICK X : X = {x}
    OBVIOUS
  <2>2. \A p \in Players : \A k : Answerable(p, k)' =>
           \/ Waiting(p)'[k].text \in X
           \/ \E j : Answerable(p, j) /\ Waiting(p)'[k].text = Waiting(p)[j].text
    BY <1>4, ZenonT(60) DEF Covered
  <2> HIDE DEF Unclaimed
  <2>3. \A v \in Writers : Unclaimed(v)' =>
          \/ job'[v].text \in X
          \/ Unclaimed(v) /\ job'[v].text = job[v].text
    BY <1>5, <2>1
  <2>4. Open' \subseteq Open \cup X
    BY <2>2, <2>3, OpenWithin, Zenon
  <2> QED BY <2>1, <2>4
<1>7. Owing' \subseteq Owing
  BY <1>2, SameOwing
<1> QED BY <1>2, <1>6, <1>7, BudgetStep

LEMMA BounceBudget ==
  ASSUME RingInv, Sound, NEW p \in Players, Bounce(p), Types', Places', Windows', AllWait
  PROVE  Budget'
<1> USE DEF RingInv
<1> HIDE DEF Lag, Waiting, Answerable
<1>1. Still(p) /\ p \in Writers
  BY StillActs DEF Writers
<1>2. /\ pc[p] = "reply" /\ pc'[p] = "roll" /\ job'[p].answer = TRUE
      /\ numbered' = numbered + 1 /\ posted' = posted /\ replies[p] # <<>>
      /\ replies' = [replies EXCEPT ![p] = Tail(@)] /\ replies \in [Players -> Seq(Players)]
  BY <1>1 DEF Bounce, Advance, Types
<1>3. InReply(p)' /\ ~Unclaimed(p)'
  BY <1>2 DEF InReply, Unclaimed
<1>4. \A q \in Players : Covered(q)
  BY <1>1, <1>3, InReplyKept, CoveredSame DEF AllWait
<1>5. Open' \subseteq Open
  <2> HIDE DEF Unclaimed
  <2> QED BY <1>1, <1>3, <1>4, OthersUnclaimed, OpenShrinks
<1>6. PICK n \in Nat : n = Len(replies[p]) /\ n # 0 /\ Len(replies'[p]) = n - 1
  <2>1. replies[p] \in Seq(Players) /\ Len(replies[p]) \in Nat
    BY <1>2, LenProperties
  <2>2. Len(replies[p]) # 0
    BY <1>2, <2>1, EmptySeq
  <2>3. Len(Tail(replies[p])) = Len(replies[p]) - 1
    BY <1>2, <2>1, HeadTailProperties
  <2>4. replies'[p] = Tail(replies[p])
    BY <1>2
  <2> QED BY <2>1, <2>2, <2>3, <2>4
<1>7. <<p, n>> \in Owing
  BY <1>6, OwingIs
<1>8. Owing' \subseteq Owing \ {<<p, n>>}
  <2> SUFFICES ASSUME NEW o \in Owing' PROVE o \in Owing /\ o # <<p, n>>
    OBVIOUS
  <2>1. PICK q \in Players : \E k \in 1 .. Len(replies'[q]) : o = <<q, k>>
    BY OwingIsNext
  <2>2. PICK k \in 1 .. Len(replies'[q]) : o = <<q, k>>
    BY <2>1
  <2>3. CASE q = p
    <3>1. k \in 1 .. n /\ k # n
      BY <1>6, <2>2, <2>3
    <3>2. <<p, k>> \in Owing
      BY <1>6, <3>1, OwingIs
    <3> QED BY <2>2, <2>3, <3>1, <3>2
  <2>4. CASE q # p
    <3>1. replies'[q] = replies[q]
      BY <1>2, <2>4
    <3>2. <<q, k>> \in Owing
      BY <2>2, <3>1, OwingIs
    <3> QED BY <2>2, <2>4, <3>2
  <2> QED BY <2>3, <2>4
<1> QED BY <1>2, <1>5, <1>7, <1>8, BudgetStep

LEMMA ClaimBudget ==
  ASSUME RingInv, Sound, NEW w \in Writers, Claim(w), Types', Places', Windows'
  PROVE  Budget'
<1> USE DEF RingInv
<1> HIDE DEF Lag, Waiting
<1>1. /\ Still(w) /\ pc[w] = "claim" /\ pc'[w] = "fill" /\ job' = job
      /\ job[w].answer => job[w].letter.from = God
  BY ClaimIs, StillActs, PlacedIs DEF Placed
<1>2. UNCHANGED <<numbered, posted, replies>>
  BY DEF Claim, reader
<1>3. ASSUME NEW p \in Players, NEW k, Answerable(p, k)'
      PROVE  \/ Waiting(p)'[k] = Text(job[w]) /\ ~job[w].answer
             \/ Answerable(p, k) /\ Waiting(p)'[k] = Waiting(p)[k]
  <2>1. k \in 1 .. Lag(p)' /\ Direct(p, Waiting(p)'[k]) /\ (k = 1 => ~InReply(p)')
    BY <1>3 DEF Answerable, Direct
  <2>2. InReply(p)' <=> InReply(p)
    BY <1>1 DEF InReply, Still, Writers
  <2>3. \/ Waiting(p)'[k] = Text(job[w])
        \/ k \in 1 .. Lag(p) /\ Waiting(p)'[k] = Waiting(p)[k]
    BY <2>1, ClaimWaits
  <2>4. Direct(p, Text(job[w])) => ~job[w].answer
    BY <1>1 DEF Direct, Text
  <2> HIDE DEF Text, Direct, InReply
  <2> QED BY <2>1, <2>2, <2>3, <2>4 DEF Answerable
<1>4. Unclaimed(w) <=> ~job[w].answer
  BY <1>1 DEF Unclaimed
<1>5. \A v \in Writers : ~Unclaimed(v)'
  BY <1>1 DEF Unclaimed, Still, Parked
<1>6. Open' \subseteq Open
  <2> SUFFICES ASSUME NEW t, t \in Open' PROVE t \in Open
    OBVIOUS
  <2> HIDE DEF Answerable, Unclaimed
  <2>0. PICK p \in Players : \E k : Answerable(p, k)' /\ t = Waiting(p)'[k].text
    BY <1>5, OpenIsNext, Zenon
  <2>1. PICK k : Answerable(p, k)' /\ t = Waiting(p)'[k].text
    BY <2>0, Zenon
  <2>2. CASE Waiting(p)'[k] = Text(job[w]) /\ ~job[w].answer
    <3>1. Unclaimed(w) /\ t = job[w].text
      BY <1>4, <2>1, <2>2 DEF Text
    <3> QED BY <3>1, OpenIs, Zenon
  <2>3. CASE Answerable(p, k) /\ Waiting(p)'[k] = Waiting(p)[k]
    <3>1. t = Waiting(p)[k].text
      BY <2>1, <2>3, Zenon
    <3> QED BY <2>3, <3>1, OpenIs, Zenon
  <2> QED BY <1>3, <2>1, <2>2, <2>3, Zenon
<1>7. Owing' \subseteq Owing
  BY <1>2, SameOwing
<1> QED BY <1>2, <1>6, <1>7, BudgetStep

LEMMA WorkBudget ==
  ASSUME RingInv, Sound, NEW w \in Writers, RollOver(w) \/ Fill(w) \/ Validate(w),
         Types', Places', Windows', AllWait
  PROVE  Budget'
<1> USE DEF RingInv
<1>1. Still(w) /\ UNCHANGED <<numbered, posted, replies>>
  BY StillActs DEF RollOver, Fill, Validate, reader
<1>2. InReply(w) => InReply(w)'
  <2>1. CASE RollOver(w)
    <3>1. pc[w] = "roll" /\ job'[w].answer = job[w].answer
      BY <2>1 DEF RollOver, Types
    <3> QED BY <3>1 DEF InReply
  <2>2. CASE Fill(w)
    BY <2>2 DEF InReply, Fill
  <2>3. CASE Validate(w)
    BY <2>3 DEF InReply, Validate, Types
  <2> QED BY <2>1, <2>2, <2>3
<1>3. Unclaimed(w)' => Unclaimed(w) /\ job'[w].text = job[w].text
  <2>1. CASE RollOver(w)
    <3>1. /\ pc[w] = "roll" /\ job'[w].answer = job[w].answer
          /\ job'[w].text = job[w].text
      BY <2>1 DEF RollOver, Types
    <3> QED BY <3>1 DEF Unclaimed
  <2>2. CASE Fill(w) \/ Validate(w)
    <3>1. pc'[w] \notin {"roll", "claim"}
      BY <2>2 DEF Fill, Validate, Types
    <3> QED BY <3>1 DEF Unclaimed
  <2> QED BY <2>1, <2>2
<1> QED BY <1>1, <1>2, <1>3, QuietBudget

LEMMA OnwardsBudget ==
  ASSUME RingInv, Sound, NEW p \in Players, Types', Places', Windows',
         \/ (Test(p) \/ Copy(p) \/ Answered(p)) /\ Onwards(p) /\ UNCHANGED replies
         \/ Reconnect(p)
  PROVE  Budget'
<1> USE DEF RingInv
<1>1. /\ p \in Writers /\ Still(p) /\ pc'[p] \in {"idle", "copy", "reply"}
      /\ UNCHANGED <<job, posted, numbered>>
  BY ReaderStands
<1>2. UNCHANGED replies /\ OthersLeft(p) /\ (Passed(p) \/ Lag(p)' = 0)
  BY OnwardsWaits, ReconnectWaits DEF Reconnect
<1>3. ~Unclaimed(p)'
  BY <1>1 DEF Unclaimed
<1>4. ASSUME NEW q \in Players PROVE Covered(q)
  <2>1. CASE q = p
    BY <1>2, <2>1, CoveredPassed, CoveredGone
  <2>2. CASE q # p
    <3>1. InReply(q) => InReply(q)'
      BY <1>1, <2>2 DEF InReply, Still, Writers
    <3> QED BY <1>2, <2>2, <3>1, CoveredSame DEF OthersLeft
  <2> QED BY <2>1, <2>2
<1> HIDE DEF Lag, Waiting, InReply, Answerable, Unclaimed
<1>5. Open' \subseteq Open
  BY <1>1, <1>3, <1>4, OthersUnclaimed, OpenShrinks
<1>6. Owing' \subseteq Owing
  BY <1>2, SameOwing
<1> QED BY <1>1, <1>5, <1>6, BudgetStep

LEMMA TestBudget ==
  ASSUME RingInv, Sound, NEW p \in Players, Test(p), ~Onwards(p), Types', Places', Windows'
  PROVE  Budget'
<1> USE DEF RingInv
<1>1. /\ p \in Writers /\ Still(p) /\ pc'[p] \in {"idle", "copy", "reply"}
      /\ UNCHANGED <<job, posted, numbered, replies>> /\ job[p] = NoJob
  BY ReaderStands DEF Test
<1>2. AllWait
  BY StaysWaits DEF Test
<1>3. ~Unclaimed(p)'
  BY <1>1 DEF Unclaimed
<1>4. ~InReply(p)
  BY <1>1 DEF InReply, Test, NoJob
<1> QED BY <1>1, <1>2, <1>3, <1>4, QuietBudget

LEMMA SlotsDiffer ==
  ASSUME NEW m \in 0 .. MaxMessage - 1, NEW k \in 2 .. MaxMessage
  PROVE  Slot(m + k - 1) # m
<1>1. m + k - 1 \in 0 .. 2 * MaxMessage - 1
  BY Sizes
<1>2. Slot(m + k - 1) = IF m + k - 1 < MaxMessage THEN m + k - 1 ELSE m + k - 1 - MaxMessage
  BY <1>1, SlotIs, Sizes
<1> QED BY <1>2, Sizes

(* What p copies waits for him first, and nowhere else. *)
LEMMA CopyWaitsOnce ==
  ASSUME RingInv, NEW p \in Players, pc[p] = "copy", p \in Writers, Calm,
         Lead = Slot(mc_current + 1)
  PROVE  /\ 1 \in 1 .. Lag(p) /\ Waiting(p)[1] = Text(Current(p))
         /\ \A q \in Players : \A k \in 1 .. Lag(q) :
              Waiting(q)[k].text = Current(p).text =>
                /\ Waiting(q)[k] = Text(Current(p))
                /\ q = p => k = 1
<1> USE DEF RingInv
<1>1. PICK m \in 0 .. MaxMessage - 1 : m = msgCurrent[p]
  BY DEF Types
<1>2. /\ Pending(p) /\ At(m) = Text(Current(p)) /\ Text(Current(p)) \in Shown
      /\ Text(Current(p)) = [letter |-> Current(p).letter, text |-> Current(p).text]
      /\ m \in Slots
  BY <1>1, CopyingIs
<1>3. Lag(p) \in 1 .. MaxMessage
  <2>1. Lead \in 0 .. MaxMessage - 1 /\ Lag(p) = LagOf(Lead, m, Answering(p))
        /\ Lag(p) \in 0 .. MaxMessage
    BY <1>1, LagIs
  <2>2. Lead # m
    BY <1>1, <1>2 DEF Pending
  <2>3. Lag(p) = Gap(Lead, m)
    BY <2>1, <2>2, Zenon DEF LagOf
  <2>4. Gap(Lead, m) \in 1 .. MaxMessage - 1
    BY <2>1, <2>2, GapIs
  <2> HIDE DEF Lag, Lead
  <2> QED BY <2>1, <2>3, <2>4, Sizes
<1>4. 1 \in 1 .. Lag(p)
  <2> HIDE DEF Lag
  <2> QED BY <1>3, Sizes
<1>5. Waiting(p)[1] = Text(Current(p))
  <2>1. m = Slot(m + 1 - 1)
    <3>1. m + 1 - 1 = m
      OBVIOUS
    <3> QED BY <3>1, SlotNext
  <2> QED BY <1>1, <1>2, <1>4, <2>1, WaitingIs
<1>6. ASSUME NEW q \in Players, NEW k \in 1 .. Lag(q), Waiting(q)[k].text = Current(p).text
      PROVE  Waiting(q)[k] = Text(Current(p)) /\ (q = p => k = 1)
  <2>1. PICK i \in 0 .. MaxMessage - 1 : i = Slot(msgCurrent[q] + k - 1)
    BY WaitingIs
  <2>2. Waiting(q)[k] = At(i)
    BY <2>1, WaitingIs
  <2>3. At(i).text = At(m).text /\ i \in Slots
    BY <1>2, <1>6, <2>2, Sizes
  <2>4. At(m).text # 0
    BY <1>2 DEF Shown
  <2>5. i = m
    BY <1>2, <2>3, <2>4 DEF Once
  <2>6. ASSUME q = p PROVE k = 1
    <3>1. k \in 1 .. MaxMessage
      <4> HIDE DEF Lag
      <4> QED BY <1>3, <2>6, Sizes
    <3>2. Slot(m + k - 1) = m
      BY <1>1, <2>1, <2>5, <2>6
    <3>3. k \notin 2 .. MaxMessage
      BY <3>2, SlotsDiffer
    <3> QED BY <3>1, <3>3, Sizes
  <2> QED BY <1>2, <2>2, <2>5, <2>6
<1> QED BY <1>4, <1>5, <1>6

LEMMA ReplyBudget ==
  ASSUME RingInv, Sound, NEW p \in Players, Copy(p), ~Onwards(p), Types', Places', Windows'
  PROVE  Budget'
<1> USE DEF RingInv
<1> DEFINE l == Current(p).letter
<1>1. /\ p \in Writers /\ Still(p) /\ pc'[p] \in {"idle", "copy", "reply"}
      /\ UNCHANGED <<job, posted, numbered>> /\ job[p] = NoJob
      /\ Lead = Slot(mc_current + 1) /\ Types'
  BY ReaderStands
<1>2. /\ pc[p] = "copy" /\ l.group = "MINDIV" /\ l.from # God
      /\ \E n \in IF l.query THEN Replies ELSE {1} :
           replies' = [replies EXCEPT ![p] = [i \in 1 .. n |-> l.from]]
      /\ pc' = [pc EXCEPT ![p] = "reply"]
      /\ UNCHANGED <<msgCurrent, shown>>
  BY DEF Copy
<1>3. AllWait
  BY <1>2, StaysWaits
<1>4. l.recpt = p
  BY <1>2, CopyingIs DEF For
<1>5. ~InReply(p) /\ InReply(p)' /\ \A v \in Writers : ~Unclaimed(v)'
  <2>1. pc'[p] = "reply"
    BY <1>1, <1>2 DEF Types
  <2>2. ~InReply(p) /\ InReply(p)'
    BY <1>1, <1>2, <2>1 DEF InReply, NoJob
  <2>3. \A v \in Writers : ~Unclaimed(v)'
    BY <1>1, <2>1 DEF Unclaimed, Still, Parked
  <2> QED BY <2>2, <2>3
<1>6. Calm
  BY <1>1, StillCalm
<1>7. /\ 1 \in 1 .. Lag(p) /\ Waiting(p)[1] = Text(Current(p))
      /\ \A q \in Players : \A k \in 1 .. Lag(q) :
           Waiting(q)[k].text = Current(p).text =>
             Waiting(q)[k] = Text(Current(p)) /\ (q = p => k = 1)
  BY <1>1, <1>2, <1>6, CopyWaitsOnce
<1>8. PICK t : t = Current(p).text
  OBVIOUS
<1>9. PICK g : g = Current(p).letter
  OBVIOUS
<1>10. PICK x : x = Text(Current(p)) /\ x.text = t /\ x.letter = g
  <2>1. Text(Current(p)).text = t /\ Text(Current(p)).letter = g
    BY <1>8, <1>9, Zenon DEF Text
  <2> QED BY <2>1, Zenon
<1>11. g.group = "MINDIV" /\ g.from # God /\ g.recpt = p
  BY <1>2, <1>4, <1>9
<1> HIDE DEF Lag, Waiting, InReply, l
<1>12. t \in Open
  <2>1. Direct(p, Waiting(p)[1]) /\ Waiting(p)[1].text = t
    BY <1>7, <1>10, <1>11 DEF Direct
  <2>2. Answerable(p, 1)
    BY <1>5, <1>7, <2>1 DEF Answerable
  <2> HIDE DEF Answerable
  <2> QED BY <2>1, <2>2, OpenIs, Zenon
<1>13. t \notin Open'
  <2> SUFFICES ASSUME t \in Open' PROVE FALSE
    OBVIOUS
  <2> HIDE DEF Answerable, Unclaimed
  <2>0. PICK q \in Players : \E k : Answerable(q, k)' /\ t = Waiting(q)'[k].text
    BY <1>5, OpenIsNext, Zenon
  <2>1. PICK k : Answerable(q, k)' /\ t = Waiting(q)'[k].text
    BY <2>0, Zenon
  <2>2. Lag(q)' = Lag(q) /\ Waiting(q)' = Waiting(q)
    BY <1>3 DEF AllWait
  <2>3. k \in 1 .. Lag(q) /\ Direct(q, Waiting(q)[k]) /\ (k = 1 => ~InReply(q)')
    BY <2>1, <2>2 DEF Answerable, Direct
  <2>4. Waiting(q)[k] = x /\ (q = p => k = 1)
    BY <1>7, <1>8, <1>10, <2>1, <2>2, <2>3
  <2>5. q = p
    BY <1>10, <1>11, <2>3, <2>4 DEF Direct
  <2> QED BY <1>5, <2>3, <2>4, <2>5
<1>14. Open' \subseteq Open \ {t}
  <2>1. \A q \in Players : Covered(q)
    BY <1>1, <1>3, <1>5, InReplyKept, CoveredSame DEF AllWait
  <2> HIDE DEF Answerable, Unclaimed
  <2>2. Open' \subseteq Open
    BY <1>5, <2>1, OpenShrinks
  <2> QED BY <1>13, <2>2
<1>15. Cardinality(Owing') <= Cardinality(Owing) + MostReplies
  <2>1. PICK n \in IF l.query THEN Replies ELSE {1} :
          replies' = [replies EXCEPT ![p] = [i \in 1 .. n |-> l.from]]
    BY <1>2
  <2>2. n \in Nat /\ n <= MostReplies /\ n <= 2
    <3>1. n \in Replies \cup {1}
      BY <2>1
    <3>2. n \in Nat /\ n <= MostReplies /\ MostReplies \in {1, 2}
      BY <3>1, MostRepliesIs
    <3> QED BY <3>2
  <2>3. Len(replies'[p]) = n /\ \A q \in Players \ {p} : replies'[q] = replies[q]
    <3>1. [i \in 1 .. n |-> l.from] \in [1 .. n -> {l.from}]
      OBVIOUS
    <3>2. Len([i \in 1 .. n |-> l.from]) = n
      BY <2>2, <3>1, MakeSeq
    <3> QED BY <2>1, <3>2 DEF Types
  <2>4. \A o \in Owing' : o \in Owing \/ (o = <<p, 1>> /\ n >= 1) \/ (o = <<p, 2>> /\ n >= 2)
    <3> SUFFICES ASSUME NEW o \in Owing', o \notin Owing
                 PROVE  (o = <<p, 1>> /\ n >= 1) \/ (o = <<p, 2>> /\ n >= 2)
      OBVIOUS
    <3>1. PICK q \in Players : \E k \in 1 .. Len(replies'[q]) : o = <<q, k>>
      BY OwingIsNext
    <3>2. PICK k \in 1 .. Len(replies'[q]) : o = <<q, k>>
      BY <3>1
    <3>3. q = p
      BY <2>3, <3>2, OwingIs
    <3>4. k \in 1 .. n
      BY <2>3, <3>2, <3>3
    <3>5. k = 1 \/ k = 2
      BY <2>2, <3>4
    <3> QED BY <2>2, <3>2, <3>3, <3>4, <3>5
  <2>5. /\ IsFiniteSet(Owing) /\ Cardinality(Owing) \in Nat /\ Cardinality(Owing') \in Nat
    BY <1>1, OwingIs, OwingIsNext
  <2> DEFINE A == Owing \cup {<<p, 1>>}
             B == A \cup {<<p, 2>>}
  <2>6. IsFiniteSet(A) /\ Cardinality(A) \in Nat /\ Cardinality(A) <= Cardinality(Owing) + 1
    <3>1. /\ IsFiniteSet(A)
          /\ Cardinality(A) = IF <<p, 1>> \in Owing THEN Cardinality(Owing) ELSE Cardinality(Owing) + 1
      BY <2>5, FS_AddElement
    <3> HIDE DEF A
    <3> QED BY <2>5, <3>1
  <2>7. IsFiniteSet(B) /\ Cardinality(B) \in Nat /\ Cardinality(B) <= Cardinality(A) + 1
    <3>1. /\ IsFiniteSet(B)
          /\ Cardinality(B) = IF <<p, 2>> \in A THEN Cardinality(A) ELSE Cardinality(A) + 1
      <4> HIDE DEF A
      <4> QED BY <2>6, FS_AddElement
    <3> HIDE DEF A, B
    <3> QED BY <2>6, <3>1
  <2>8. CASE n = 0
    <3>1. Owing' \in SUBSET Owing
      BY <2>4, <2>8
    <3>2. Cardinality(Owing') <= Cardinality(Owing)
      BY <2>5, <3>1, FS_Subset
    <3> QED BY <2>2, <2>5, <2>8, <3>2, MostRepliesIs
  <2>9. CASE n = 1
    <3>1. Owing' \in SUBSET A
      BY <2>4, <2>9
    <3> HIDE DEF A
    <3>2. Cardinality(Owing') <= Cardinality(A)
      BY <2>6, <3>1, FS_Subset
    <3> QED BY <2>2, <2>5, <2>6, <2>9, <3>2, MostRepliesIs
  <2>10. CASE n = 2
    <3>1. Owing' \in SUBSET B
      BY <2>4
    <3> HIDE DEF A, B
    <3>2. Cardinality(Owing') <= Cardinality(B)
      BY <2>7, <3>1, FS_Subset
    <3> QED BY <2>2, <2>5, <2>6, <2>7, <2>10, <3>2, MostRepliesIs
  <2>11. n \in {0, 1, 2}
    BY <2>2
  <2> QED BY <2>8, <2>9, <2>10, <2>11
<1> QED BY <1>1, <1>12, <1>14, <1>15, BudgetStep

-----------------------------------------------------------------------------
(* The inductive invariant. *)

LEMMA RingInvInit ==
  Init => RingInv
<1> SUFFICES ASSUME Init PROVE RingInv
  OBVIOUS
<1> USE DEF Init
<1>1. Types
  <2>1. messages \in [Slots -> [valid : BOOLEAN, letter : Letters \cup {None}, text : Nat]]
    BY DEF Empty
  <2>2. msgCurrent \in [Players -> 0 .. MaxMessage - 1]
    BY Sizes
  <2>3. job \in [Writers -> [letter : Letters \cup {None}, text : Nat,
                             slot : 0 .. MaxMessage, answer : BOOLEAN]]
    BY Sizes DEF NoJob
  <2>4. <<>> \in Seq(Players)
    BY EmptySeq
  <2>5. pc[God] = "idle"
    BY DEF Writers
  <2>6. 0 \in 0 .. MaxPosts /\ 0 \in 0 .. MaxMessage
    BY MessageRingAssumption, Sizes
  <2> QED BY <2>1, <2>2, <2>3, <2>4, <2>5, <2>6 DEF Types
<1>2. \A w \in Writers : pc[w] = "idle" /\ job[w] = NoJob
  OBVIOUS
<1>3. \A i \in Slots : Writing(i) = {} /\ messages[i] = Empty
  BY <1>2 DEF Writing
<1>4. Places
  <2>1. mc_current # MaxMessage
    BY Sizes
  <2>2. \A w \in Writers : Placed(w) /\ Apart(w)
    BY <1>2 DEF Placed, Apart, NoJob, AtWork
  <2> QED BY <1>2, <2>1, <2>2, PlacedIs DEF Parked
<1>5. Contents
  BY <1>2, <1>3 DEF Contents, Empty
<1>6. Once
  <2>1. \A i \in Slots : At(i).text = 0
    BY <1>3 DEF At, Text, Empty
  <2> QED BY <1>2, <2>1 DEF Once
<1>7. Copying
  BY <1>2 DEF Copying, Writers
<1>8. \A p \in Players : Lag(p) = 0
  <2> SUFFICES ASSUME NEW p \in Players PROVE Lag(p) = 0
    OBVIOUS
  <2>1. p \in Writers /\ ~Answering(p)
    BY <1>2 DEF Writers, Answering, NoJob
  <2>2. Calm
    BY <1>1, <1>2, <2>1 DEF Calm, Parked
  <2>3. Lead = Slot(1)
    <3>1. Lead = LeadOf(mc_current, pc[p]) /\ 0 + 1 = 1
      BY <1>1, <1>2, <2>1, LeadIs DEF Types, Parked
    <3> QED BY <1>2, <2>1, <3>1 DEF LeadOf
  <2>4. Slot(1) = 1
    BY SlotNext, Sizes
  <2> QED BY <2>1, <2>2, <2>3, <2>4, LagIs DEF LagOf
<1>9. Windows
  BY <1>8 DEF Windows
<1>10. Budget
  <2>1. Open = {}
    <3>1. \A p \in Players : \A k : ~Answerable(p, k)
      BY <1>8 DEF Answerable
    <3>2. \A w \in Writers : ~Unclaimed(w)
      BY <1>2 DEF Unclaimed
    <3> QED BY <3>1, <3>2, OpenIs
  <2>2. Owing = {}
    <3>1. \A p \in Players : Len(replies[p]) = 0
      BY EmptySeq
    <3> QED BY <1>1, <3>1, OwingIs
  <2>3. Cardinality(Open) = 0 /\ Cardinality(Owing) = 0
    BY <2>1, <2>2, FS_EmptySet
  <2>4. numbered = 0 /\ posted = 0
    OBVIOUS
  <2> HIDE DEF Init, Open, Owing
  <2>5. 0 + 0 + MostReplies * 0 = 0 /\ 0 * (1 + MostReplies) = 0
    <3>1. MostReplies \in Int
      BY MostRepliesIs
    <3> HIDE DEF MostReplies
    <3> QED BY <3>1
  <2> QED BY <2>3, <2>4, <2>5 DEF Budget
<1> QED BY <1>1, <1>4, <1>5, <1>6, <1>7, <1>9, <1>10 DEF RingInv

LEMMA RingInvStep ==
  ASSUME RingInv, Sound, [Next]_vars
  PROVE  RingInv'
<1> USE DEF RingInv
<1>0. \A p \in Players : p \in Writers
  BY DEF Writers
<1>1. ASSUME NEW w \in Writers,
             Post(w) \/ RollOver(w) \/ Claim(w) \/ Fill(w) \/ Validate(w)
      PROVE  RingInv'
  <2>1. Types' /\ Places' /\ Still(w)
    BY <1>1, WriterTypes, WriterPlaces, StillActs
  <2>2. CASE Post(w)
    <3>1. PICK l : Advance(w, l, FALSE)
      BY <2>2 DEF Post
    <3>2. pc[w] = "idle"
      BY <2>2 DEF Post
    <3>3. Data' /\ AllWait
      BY <2>1, <3>1, <3>2, AdvanceData
    <3>4. Budget'
      BY <2>1, <2>2, <3>3, PostBudget DEF Data
    <3> QED BY <2>1, <3>3, <3>4 DEF Data
  <2>3. CASE RollOver(w)
    <3>1. Data' /\ AllWait
      BY <2>3, RollOverData
    <3>2. Budget'
      BY <2>1, <2>3, <3>1, WorkBudget DEF Data
    <3> QED BY <2>1, <3>1, <3>2 DEF Data
  <2>4. CASE Claim(w)
    <3>1. Data'
      BY <2>1, <2>4, ClaimData
    <3>2. Budget'
      BY <2>1, <2>4, <3>1, ClaimBudget DEF Data
    <3> QED BY <2>1, <3>1, <3>2 DEF Data
  <2>5. CASE Fill(w)
    <3>1. Data' /\ AllWait
      BY <2>1, <2>5, FillData
    <3>2. Budget'
      BY <2>1, <2>5, <3>1, WorkBudget DEF Data
    <3> QED BY <2>1, <3>1, <3>2 DEF Data
  <2>6. CASE Validate(w)
    <3>1. Data' /\ AllWait
      BY <2>1, <2>6, ValidateData
    <3>2. Budget'
      BY <2>1, <2>6, <3>1, WorkBudget DEF Data
    <3> QED BY <2>1, <3>1, <3>2 DEF Data
  <2> QED BY <1>1, <2>2, <2>3, <2>4, <2>5, <2>6
<1>2. ASSUME NEW p \in Players, Bounce(p)
      PROVE  RingInv'
  <2>1. Types' /\ Places' /\ Still(p) /\ p \in Writers
    BY <1>0, <1>2, ReaderTypes, BouncePlaces, StillActs
  <2>2. pc[p] = "reply"
    BY <1>2 DEF Bounce
  <2>3. PICK l : Advance(p, l, TRUE)
    BY <1>2 DEF Bounce
  <2>4. Data' /\ AllWait
    BY <2>1, <2>2, <2>3, AdvanceData
  <2>5. Budget'
    BY <1>2, <2>1, <2>4, BounceBudget DEF Data
  <2> QED BY <2>1, <2>4, <2>5 DEF Data
<1>3. ASSUME NEW p \in Players, Test(p) \/ Copy(p) \/ Answered(p) \/ Reconnect(p)
      PROVE  RingInv'
  <2>1. Types' /\ Places' /\ Data'
    BY <1>3, ReaderTypes, ReaderPlaces, ReaderData
  <2>2. Budget'
    <3>1. CASE Reconnect(p)
      BY <2>1, <3>1, OnwardsBudget DEF Data
    <3>2. CASE (Test(p) \/ Copy(p) \/ Answered(p)) /\ Onwards(p)
      <4>1. UNCHANGED replies
        <5>1. CASE Copy(p)
          <6>1. pc'[p] = "idle"
            BY <3>2, OnwardsTypes
          <6>2. pc' # [pc EXCEPT ![p] = "reply"]
            BY <1>0, <6>1 DEF Types
          <6> QED BY <5>1, <6>2 DEF Copy
        <5> QED BY <3>2, <5>1 DEF Test, Answered
      <4> QED BY <2>1, <3>2, <4>1, OnwardsBudget DEF Data
    <3>3. CASE Test(p) /\ ~Onwards(p)
      BY <2>1, <3>3, TestBudget DEF Data
    <3>4. CASE Copy(p) /\ ~Onwards(p)
      BY <2>1, <3>4, ReplyBudget DEF Data
    <3>5. CASE Answered(p)
      BY <3>2, <3>5 DEF Answered
    <3> QED BY <1>3, <3>1, <3>2, <3>3, <3>4, <3>5
  <2> QED BY <2>1, <2>2 DEF Data
<1>4. CASE UNCHANGED vars
  <2>1. UNCHANGED <<mc_current, messages, msgCurrent, shown, replies, pc, job, posted, numbered>>
    BY <1>4 DEF vars, ring, reader
  <2>2. Types' /\ Shown' = Shown
    <3>1. Shown' = Shown
      BY <2>1 DEF Shown
    <3> HIDE DEF Shown
    <3> QED BY <2>1, <3>1 DEF Types
  <2>3. \A i : Writing(i)' = Writing(i) /\ At(i)' = At(i)
    BY <2>1 DEF Writing, At, Text
  <2>4. Places' /\ Contents'
    BY <2>1, <2>2, <2>3 DEF Places, Contents, Text
  <2>5. Once' /\ Copying'
    BY <2>1, <2>3 DEF Once, Copying, Pending, Current, For
  <2>6. Claimed' = Claimed
    BY <2>1 DEF Claimed
  <2>7. \A p : Lag(p)' = Lag(p) /\ (InReply(p)' <=> InReply(p))
    BY <2>1, <2>6 DEF Lag, Answering, InReply
  <2>8. \A p : Waiting(p)' = Waiting(p)
    BY <2>1, <2>3, <2>7 DEF Waiting
  <2>9. Windows'
    BY <2>2, <2>7, <2>8 DEF Windows
  <2>10. Owing' = Owing
    BY <2>1 DEF Owing
  <2>11. \A p : Unanswered(p)' = Unanswered(p)
    BY <2>7, <2>8 DEF Unanswered, Direct
  <2>12. Open' = Open
    BY <2>1, <2>11 DEF Open
  <2>13. Budget'
    BY <2>1, <2>10, <2>12 DEF Budget
  <2> QED BY <2>2, <2>4, <2>5, <2>9, <2>13
<1> QED BY <1>1, <1>2, <1>3, <1>4 DEF Next

-----------------------------------------------------------------------------
(* The theorems. *)

(* While writers are only interrupted between the loss of MVALID and its    *)
(* return, in pmessage2() and god2player(), the ring, the readers and the  *)
(* answers they owe always fit together.                                   *)
THEOREM RingInvariant ==
  ASSUME Sound
  PROVE  Spec => []RingInv
<1>1. Init => RingInv
  BY RingInvInit
<1>2. RingInv /\ [Next]_vars => RingInv'
  BY RingInvStep
<1> QED BY <1>1, <1>2, PTL DEF Spec

LEMMA RingInvBounds ==
  RingInv => /\ numbered <= posted * (1 + MostReplies) /\ posted \in 0 .. MaxPosts
             /\ numbered <= MaxPosts * (1 + MostReplies)
<1> SUFFICES ASSUME RingInv
             PROVE  /\ numbered <= posted * (1 + MostReplies) /\ posted \in 0 .. MaxPosts
                    /\ numbered <= MaxPosts * (1 + MostReplies)
  OBVIOUS
<1> USE DEF RingInv
<1>1. /\ numbered \in Nat /\ posted \in 0 .. MaxPosts /\ MaxPosts \in Nat
      /\ MostReplies \in {1, 2}
  BY MostRepliesIs, MessageRingAssumption DEF Types
<1>2. numbered + Cardinality(Owing) + MostReplies * Cardinality(Open)
        <= posted * (1 + MostReplies)
  BY DEF Budget
<1> DEFINE o == Cardinality(Owing)
           u == Cardinality(Open)
           r == MostReplies
<1>3. o \in Nat /\ u \in Nat
  BY OwingIs, OpenFinite
<1>4. numbered + o + r * u <= posted * (1 + r) /\ r \in {1, 2}
  BY <1>1, <1>2
<1> HIDE DEF o, u, r
<1>5. CASE r = 1
  <2>1. numbered <= posted * 2
    BY <1>1, <1>3, <1>4, <1>5
  <2>2. numbered <= MaxPosts * 2
    BY <1>1, <2>1
  <2> QED BY <1>1, <1>5, <2>1, <2>2 DEF r
<1>6. CASE r = 2
  <2>1. 1 + 2 = 3 /\ numbered + o + 2 * u <= posted * 3
    BY <1>4, <1>6
  <2>2. numbered <= posted * 3
    BY <1>1, <1>3, <2>1
  <2>3. numbered <= MaxPosts * 3
    BY <1>1, <2>2
  <2> QED BY <1>1, <1>6, <2>1, <2>2, <2>3 DEF r
<1> QED BY <1>4, <1>5, <1>6

(* pmessage2(), god2player() and updateMessages() write and read within the *)
(* ring, and every field has its type.                                     *)
THEOREM MessageRingTyped ==
  ASSUME Sound
  PROVE  Spec => []TypeOK
<1>1. RingInv => TypeOK
  <2> SUFFICES ASSUME RingInv PROVE TypeOK
    OBVIOUS
  <2> USE DEF RingInv
  <2>1. Shown \subseteq AllMessages
    <3>1. MaxPosts * (1 + MostReplies) \in Int /\ numbered \in Int
      <4>1. MostReplies \in Int /\ MaxPosts \in Int
        BY MostRepliesIs, MessageRingAssumption
      <4> HIDE DEF MostReplies
      <4> QED BY <4>1 DEF Types
    <3>2. 1 .. numbered \subseteq 1 .. MaxPosts * (1 + MostReplies)
      <4> DEFINE n == MaxPosts * (1 + MostReplies)
      <4>1. n \in Int /\ numbered \in Int /\ numbered <= n
        BY <3>1, RingInvBounds
      <4> HIDE DEF n
      <4>2. 1 .. numbered \subseteq 1 .. n
        BY <4>1
      <4> QED BY <4>2 DEF n
    <3> QED BY <3>2 DEF Shown, AllMessages, Letters
  <2>2. \A i \in Slots :
          /\ messages[i].valid \in BOOLEAN
          /\ messages[i] # Empty => Text(messages[i]) \in AllMessages /\ i < MaxMessage
    BY <2>1 DEF Contents, Types
  <2>3. \A p \in Players : shown[p] \in AllMessages \cup {None}
    BY <2>1 DEF Types
  <2>4. \A w \in Writers : job[w] # NoJob => Text(job[w]) \in AllMessages
    BY <2>1, PlacedIs DEF Placed
  <2> QED BY <2>2, <2>3, <2>4 DEF TypeOK, Types
<1> QED BY <1>1, RingInvariant, PTL

(* What updateMessages() posts in its player's place is never answered in  *)
(* its turn: all messages are letters that processes post by themselves,   *)
(* and no more answers to them than one letter may have.                   *)
THEOREM AnswersAreFinal ==
  ASSUME Sound
  PROVE  Spec => []OneReply
<1>1. RingInv => OneReply
  BY RingInvBounds DEF OneReply
<1> QED BY <1>1, RingInvariant, PTL

-----------------------------------------------------------------------------
(* The ring implements Broadcast. *)

LEMMA AllUnchanged ==
  ASSUME AllWait, shown' = shown
  PROVE  UNCHANGED <<WaitingForAll, shown>>
<1>1. WaitingForAll' = [p \in Players |-> Waiting(p)']
  BY Zenon DEF WaitingForAll
<1>2. \A p \in Players : Waiting(p)' = Waiting(p)
  BY DEF AllWait
<1> HIDE DEF Waiting
<1>3. [p \in Players |-> Waiting(p)'] = [p \in Players |-> Waiting(p)]
  BY <1>2
<1> QED BY <1>1, <1>3 DEF WaitingForAll

LEMMA OneChanges ==
  ASSUME NEW p \in Players, OthersLeft(p), NEW q, Waiting(p)' = q
  PROVE  WaitingForAll' = [WaitingForAll EXCEPT ![p] = q] /\ WaitingForAll[p] = Waiting(p)
<1>1. WaitingForAll' = [r \in Players |-> Waiting(r)']
  BY Zenon DEF WaitingForAll
<1>2. WaitingForAll = [r \in Players |-> Waiting(r)]
  BY Zenon DEF WaitingForAll
<1>3. \A r \in Players \ {p} : Waiting(r)' = Waiting(r)
  BY DEF OthersLeft
<1> HIDE DEF Waiting, WaitingForAll
<1> QED BY <1>1, <1>2, <1>3

LEMMA ClaimPosts ==
  ASSUME RingInv, Sound, NEW w \in Writers, Claim(w)
  PROVE  Ring!Post
<1> USE DEF RingInv
<1>1. Types' /\ Places' /\ Still(w)
  BY WriterTypes, WriterPlaces, StillActs
<1>2. PICK x : x = Text(job[w])
  OBVIOUS
<1>3. \A p \in Players :
        /\ Joined(Waiting(p), Waiting(p)', x)
        /\ Waiting(p)' # <<>> => Waiting(p)'[Len(Waiting(p)')] = x
  BY <1>1, <1>2, ClaimWaits
<1>4. shown' = shown
  BY DEF Claim, reader
<1>5. WaitingForAll' = [p \in Players |-> Waiting(p)']
  BY Zenon DEF WaitingForAll
<1>6. WaitingForAll = [p \in Players |-> Waiting(p)]
  BY Zenon DEF WaitingForAll
<1> HIDE DEF Waiting, WaitingForAll, RingInv
<1> DEFINE last == {q[Len(q)] : q \in {WaitingForAll'[p] : p \in Players} \ {<<>>}}
<1>7. ASSUME NEW p \in Players, NEW y, Joined(Waiting(p), Waiting(p)', x),
             y = x \/ Waiting(p)' = <<>>
      PROVE  Waiting(p)' \in Ring!After(Waiting(p), y)
  <2>1. PICK q : q = Waiting(p)
    OBVIOUS
  <2>2. PICK r : r = Waiting(p)'
    OBVIOUS
  <2>3. CASE r # <<>> \/ y = x
    <3>1. y = x
      BY <1>7, <2>2, <2>3
    <3>2. Joined(q, r, y)
      BY <1>7, <2>1, <2>2, <3>1
    <3>3. r \in Ring!After(q, y)
      BY <3>2 DEF Joined, Ring!After
    <3> QED BY <2>1, <2>2, <3>3
  <2>4. CASE r = <<>>
    <3>1. r # Append(q, x) /\ r # <<x>>
      <4>1. q \in Seq({At(i) : i \in 0 .. MaxMessage - 1})
        BY <1>1, <2>1, StillCalm, WaitingIs DEF RingInv
      <4>2. q \in Seq({At(i) : i \in 0 .. MaxMessage - 1} \cup {x})
        <5>1. Len(q) \in Nat /\ q \in [1 .. Len(q) -> {At(i) : i \in 0 .. MaxMessage - 1}]
          BY <4>1, SeqDef, LenProperties
        <5>2. q \in [1 .. Len(q) -> {At(i) : i \in 0 .. MaxMessage - 1} \cup {x}]
          BY <5>1
        <5> QED BY <5>1, <5>2, MakeSeq
      <4>3. Len(Append(q, x)) = Len(q) + 1 /\ Len(q) \in Nat
        BY <4>2, AppendProperties
      <4>4. Len(<<>>) = 0 /\ Len(<<x>>) = 1
        OBVIOUS
      <4> QED BY <2>4, <4>3, <4>4
    <3>2. Joined(q, r, x)
      BY <1>7, <2>1, <2>2
    <3>3. r = <<>> /\ Len(q) + 1 >= MaxMessage
      BY <3>1, <3>2 DEF Joined
    <3>4. r \in Ring!After(q, y)
      BY <3>3 DEF Ring!After
    <3> QED BY <2>1, <2>2, <3>4
  <2> QED BY <2>3, <2>4
<1>8. CASE \A p \in Players : Waiting(p)' = <<>>
  <2>1. \A p \in Players : WaitingForAll'[p] \in Ring!After(WaitingForAll[p], None)
    BY <1>3, <1>5, <1>6, <1>7, <1>8
  <2> QED BY <1>4, <2>1, Zenon DEF Ring!Post
<1>9. CASE \E p \in Players : Waiting(p)' # <<>>
  <2>1. x \in last
    <3>1. PICK p \in Players : Waiting(p)' # <<>>
      BY <1>9
    <3>2. PICK q : q = WaitingForAll'[p] /\ q # <<>> /\ q[Len(q)] = x
      BY <1>3, <1>5, <3>1
    <3>3. q \in {WaitingForAll'[r] : r \in Players} \ {<<>>}
      BY <3>2
    <3> QED BY <3>2, <3>3
  <2>2. \A p \in Players : WaitingForAll'[p] \in Ring!After(WaitingForAll[p], x)
    BY <1>3, <1>5, <1>6, <1>7
  <2> QED BY <1>4, <2>1, <2>2, Zenon DEF Ring!Post
<1> QED BY <1>8, <1>9

LEMMA ReaderBroadcasts ==
  ASSUME RingInv, Sound, NEW p \in Players,
         Test(p) \/ Copy(p) \/ Answered(p) \/ Reconnect(p)
  PROVE  [Ring!Next]_<<WaitingForAll, shown>>
<1> USE DEF RingInv
<1>1. CASE Reconnect(p)
  <2>1. Waiting(p)' = <<>> /\ OthersLeft(p) /\ shown' = shown
    BY <1>1, ReconnectWaits DEF Reconnect
  <2>2. WaitingForAll' = [WaitingForAll EXCEPT ![p] = <<>>]
    BY <2>1, OneChanges
  <2> QED BY <2>1, <2>2 DEF Ring!Next, Ring!Reconnect
<1>2. CASE (Test(p) \/ Copy(p) \/ Answered(p)) /\ Onwards(p)
  <2>1. Passed(p) /\ OthersLeft(p)
    BY <1>2, OnwardsWaits
  <2>2. PICK q : q = Waiting(p) /\ q # <<>> /\ Head(q) = At(msgCurrent[p]) /\ Waiting(p)' = Tail(q)
    BY <2>1, Zenon DEF Passed
  <2>3. WaitingForAll' = [WaitingForAll EXCEPT ![p] = Tail(q)] /\ WaitingForAll[p] = q
    BY <2>1, <2>2, OneChanges, Zenon
  <2>4. CASE shown' = shown
    <3>1. Ring!Skip(p)
      BY <2>2, <2>3, <2>4, Zenon DEF Ring!Skip
    <3> QED BY <3>1 DEF Ring!Next
  <2>5. CASE Copy(p) /\ shown' = [shown EXCEPT ![p] = Text(Current(p))]
    <3>1. At(msgCurrent[p]) = Text(Current(p)) /\ For(p, At(msgCurrent[p]).letter)
      BY <2>5, CopyingIs DEF Copy
    <3>2. shown' = [shown EXCEPT ![p] = Head(q)] /\ For(p, Head(q).letter)
      BY <2>2, <2>5, <3>1, Zenon
    <3>3. Ring!Deliver(p)
      BY <2>2, <2>3, <3>2, Zenon DEF Ring!Deliver
    <3> QED BY <3>3 DEF Ring!Next
  <2> QED BY <1>2, <2>4, <2>5, Zenon DEF Test, Copy, Answered, Text
<1>3. CASE (Test(p) \/ Copy(p)) /\ ~Onwards(p)
  <2>1. AllWait /\ shown' = shown
    BY <1>3, StaysWaits DEF Test, Copy
  <2> QED BY <2>1, AllUnchanged
<1> QED BY <1>1, <1>2, <1>3 DEF Answered

LEMMA Broadcasts ==
  ASSUME RingInv, Sound, [Next]_vars
  PROVE  [Ring!Next]_<<WaitingForAll, shown>>
<1> USE DEF RingInv
<1>1. ASSUME NEW w \in Writers, Claim(w)
      PROVE  [Ring!Next]_<<WaitingForAll, shown>>
  BY <1>1, ClaimPosts DEF Ring!Next
<1>2. ASSUME NEW w \in Writers, Post(w)
      PROVE  AllWait /\ shown' = shown
  <2>1. PICK l : Advance(w, l, FALSE)
    BY <1>2 DEF Post
  <2>2. pc[w] = "idle" /\ Still(w) /\ Types' /\ shown' = shown
    BY <1>2, <2>1, StillActs, WriterTypes DEF Post, Advance
  <2> QED BY <2>1, <2>2, AdvanceWaits
<1>3. ASSUME NEW w \in Writers, RollOver(w) \/ Fill(w) \/ Validate(w)
      PROVE  AllWait /\ shown' = shown
  <2>1. shown' = shown
    BY <1>3 DEF RollOver, Fill, Validate, reader
  <2>2. Types' /\ Places'
    BY <1>3, WriterTypes, WriterPlaces
  <2>3. AllWait
    BY <1>3, <2>2, RollOverWaits, FillWaits, ValidateWaits
  <2> QED BY <2>1, <2>3
<1>4. ASSUME NEW p \in Players, Bounce(p)
      PROVE  AllWait /\ shown' = shown
  <2>1. PICK l : Advance(p, l, TRUE)
    BY <1>4 DEF Bounce
  <2>2. pc[p] = "reply" /\ Still(p) /\ Types' /\ shown' = shown /\ p \in Writers
    BY <1>4, <2>1, StillActs, ReaderTypes DEF Bounce, Advance, Writers
  <2> QED BY <2>1, <2>2, AdvanceWaits
<1>5. CASE UNCHANGED vars
  <2>1. UNCHANGED <<mc_current, messages, msgCurrent, shown, pc, job>>
    BY <1>5 DEF vars, ring, reader
  <2>2. \A i : Writing(i)' = Writing(i) /\ At(i)' = At(i)
    BY <2>1 DEF Writing, At, Text
  <2>3. Claimed' = Claimed
    BY <2>1 DEF Claimed
  <2>4. \A p : Lag(p)' = Lag(p)
    BY <2>1, <2>3 DEF Lag, Answering
  <2>5. \A p : Waiting(p)' = Waiting(p)
    BY <2>1, <2>2, <2>4 DEF Waiting
  <2>6. AllWait
    BY <2>4, <2>5 DEF AllWait
  <2> QED BY <2>1, <2>6, AllUnchanged
<1> QED BY <1>1, <1>2, <1>3, <1>4, <1>5, AllUnchanged, ReaderBroadcasts DEF Next

LEMMA BroadcastInit ==
  Init => Ring!Init
<1> SUFFICES ASSUME Init PROVE Ring!Init
  OBVIOUS
<1>1. Types
  BY RingInvInit DEF RingInv
<1>2. ASSUME NEW p \in Players PROVE Waiting(p) = <<>>
  <2>1. p \in Writers /\ ~Answering(p)
    BY DEF Init, Writers, Answering, NoJob
  <2>2. Calm
    BY <1>1, <2>1 DEF Calm, Parked, Init
  <2>3. Lead = Slot(1)
    <3>1. Lead = LeadOf(mc_current, pc[p]) /\ 0 + 1 = 1
      BY <1>1, <2>1, LeadIs DEF Types, Parked, Init
    <3> QED BY <2>1, <3>1 DEF LeadOf, Init
  <2>4. Slot(1) = 1
    BY SlotNext, Sizes
  <2>5. Lag(p) = 0
    BY <2>1, <2>2, <2>3, <2>4, LagIs DEF LagOf, Init
  <2>6. Waiting(p) \in Seq({At(i) : i \in 0 .. MaxMessage - 1}) /\ Len(Waiting(p)) = 0
    BY <2>2, <2>5, WaitingIs
  <2> QED BY <2>6, EmptySeq
<1> HIDE DEF Waiting
<1>3. WaitingForAll = [p \in Players |-> <<>>]
  BY <1>2 DEF WaitingForAll
<1> QED BY <1>3 DEF Ring!Init, Init

(* Players are shown whole messages that are for them, in the order of the *)
(* ring and once each, whenever pmessage2() and updateMessages() run.      *)
THEOREM ImplementsBroadcast ==
  ASSUME Sound
  PROVE  Spec => InOrder
<1>1. Init => Ring!Init
  BY BroadcastInit
<1>2. RingInv /\ [Next]_vars => [Ring!Next]_<<WaitingForAll, shown>>
  BY Broadcasts
<1> QED BY <1>1, <1>2, RingInvariant, PTL DEF Spec, InOrder, Ring!Spec

LEMMA ShownOrNotOwed ==
  ASSUME RingInv, Sound, Next, NEW p \in Players,
         msgCurrent'[p] = Slot(msgCurrent[p] + 1), pc[p] \in {"idle", "copy"},
         ~Reconnect(p), Lag(p) > 0, Owed(p)
  PROVE  shown'[p] = At(msgCurrent[p])
<1> USE DEF RingInv
<1>1. PICK m \in 0 .. MaxMessage - 1 : m = msgCurrent[p]
  BY DEF Types
<1>2. msgCurrent'[p] # msgCurrent[p]
  BY <1>1, SlotNext
<1>3. Test(p) \/ Copy(p)
  <2>1. ASSUME NEW w \in Writers,
               Post(w) \/ RollOver(w) \/ Claim(w) \/ Fill(w) \/ Validate(w)
        PROVE  FALSE
    BY <1>2, <2>1 DEF Post, Advance, RollOver, Claim, Fill, Validate, reader
  <2>2. ASSUME NEW q \in Players, Bounce(q)
        PROVE  FALSE
    BY <1>2, <2>2 DEF Bounce, Advance
  <2>3. ASSUME NEW q \in Players, Test(q) \/ Copy(q) \/ Answered(q) \/ Reconnect(q), q # p
        PROVE  FALSE
    BY <1>2, <2>3, ReaderStands
  <2>4. ~Answered(p)
    BY DEF Answered
  <2> QED BY <2>1, <2>2, <2>3, <2>4 DEF Next
<1>4. Onwards(p)
  BY <1>2, <1>3 DEF Test, Copy
<1>5. Passed(p)
  BY <1>3, <1>4, OnwardsWaits
<1>6. /\ Writing(m) = {} /\ At(m) = Text(messages[m]) /\ m \in Slots
      /\ Current(p) = messages[m] /\ Text(messages[m]).letter = messages[m].letter
      /\ Text(messages[m]).text = messages[m].text
  <2>1. Writing(m) = {} /\ m \in Slots
    BY <1>1, Sizes DEF Owed
  <2> QED BY <1>1, <2>1, AtIs DEF Current, Text
<1>7. For(p, messages[m].letter) /\ ~(Refuses(p, messages[m].letter) /\ messages[m].letter.group = "MALL")
  BY <1>1, <1>6 DEF Owed
<1>8. CASE Test(p)
  <2>1. Waiting(p)[1] = At(m) /\ Lag(p) \in Nat \ {0}
    BY <1>1, <1>5, Zenon DEF Passed
  <2>2. At(m) \in Shown
    <3>1. 1 \in 1 .. Lag(p)
      <4> HIDE DEF Lag
      <4> QED BY <2>1
    <3>2. Waiting(p)[1] \in Shown
      BY <3>1 DEF Windows
    <3> QED BY <2>1, <3>2, Zenon
  <2>3. messages[m] # Empty
    <3>1. At(m).text \in 1 .. numbered
      BY <2>2 DEF Shown
    <3>2. messages[m].text # 0
      BY <1>6, <3>1
    <3> QED BY <3>2 DEF Empty
  <2>4. messages[m].valid
    BY <1>6, <2>3 DEF Contents
  <2>5. pc' = [pc EXCEPT ![p] = "copy"] /\ UNCHANGED msgCurrent
    BY <1>6, <1>7, <1>8, <2>4 DEF Test
  <2> QED BY <1>2, <2>5
<1>9. CASE Copy(p)
  <2>1. \/ shown' = [shown EXCEPT ![p] = [letter |-> messages[m].letter, text |-> messages[m].text]]
        \/ messages[m].letter.group = "MALL" /\ Refuses(p, messages[m].letter)
        \/ UNCHANGED msgCurrent
    BY <1>6, <1>9, Zenon DEF Copy
  <2>2. shown' = [shown EXCEPT ![p] = Text(messages[m])]
    BY <1>2, <1>7, <2>1, Zenon DEF Text
  <2>3. shown'[p] = Text(messages[m])
    BY <2>2 DEF Types
  <2> QED BY <1>1, <1>6, <2>3
<1> QED BY <1>3, <1>8, <1>9

(* updateMessages() passes over no message of its player that its writer   *)
(* has finished with and that the player does not ignore.                  *)
THEOREM MessagesAreShown ==
  ASSUME Sound
  PROVE  Spec => NothingMissed
<1>1. RingInv /\ [Next]_vars =>
        [\A p \in Players :
           /\ msgCurrent'[p] = Slot(msgCurrent[p] + 1) /\ pc[p] \in {"idle", "copy"}
           /\ ~Reconnect(p) /\ Lag(p) > 0 /\ Owed(p)
           => shown'[p] = At(msgCurrent[p])]_vars
  BY ShownOrNotOwed
<1> QED BY <1>1, RingInvariant, PTL DEF Spec, NothingMissed

=============================================================================
