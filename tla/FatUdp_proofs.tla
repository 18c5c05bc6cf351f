---------------------------- MODULE FatUdp_proofs ----------------------------
(***************************************************************************)
(* Proofs about module FatUdp, for any objects, sizes and limits.          *)
(***************************************************************************)
EXTENDS FatUdp, FiniteSetTheorems, SequenceTheorems, WellFoundedInduction, TLAPS

-----------------------------------------------------------------------------
(* Numbers and sequences. *)

(* A nonempty set of numbers has a lowest element. *)
LEMMA LowestNumber ==
  ASSUME NEW S, S \subseteq Nat, S # {}
  PROVE  \E i \in S : \A j \in S : i <= j
<1> DEFINE R == {ss \in Nat \X Nat : ss[1] < ss[2]}
<1>1. IsWellFoundedOn(R, Nat)
  BY NatLessThanWellFounded DEF OpToRel
<1>2. PICK i \in S : \A j \in S : ~ (<<j, i>> \in R)
  BY <1>1, WFMin, Zenon
<1>3. ASSUME NEW j \in S, j < i
      PROVE  FALSE
  <2>1. <<j, i>> \in Nat \X Nat
    OBVIOUS
  <2>2. <<j, i>>[1] < <<j, i>>[2]
    BY <1>3
  <2> QED BY <1>2, <2>1, <2>2, Zenon
<1> QED BY <1>3

(* A function on 1 .. n is a sequence of length n. *)
LEMMA MakeSeq ==
  ASSUME NEW S, NEW n \in Nat, NEW f \in [1 .. n -> S]
  PROVE  f \in Seq(S) /\ Len(f) = n
<1>1. f \in Seq(S)
  BY SeqDef
<1>2. Len(f) \in Nat /\ DOMAIN f = 1 .. Len(f)
  BY <1>1, LenProperties
<1>3. 1 .. n = 1 .. Len(f)
  BY <1>2
<1>4. n \in 1 .. Len(f) \/ n = 0
  BY <1>3
<1>5. Len(f) \in 1 .. n \/ Len(f) = 0
  BY <1>2, <1>3
<1> QED BY <1>1, <1>2, <1>3, <1>4, <1>5

LEMMA CountTo ==
  ASSUME NEW n \in Nat
  PROVE  Cardinality(1 .. n) = n
<1>1. 1 \in Int /\ n \in Int
  OBVIOUS
<1>2. Cardinality(1 .. n) = IF 1 > n THEN 0 ELSE n - 1 + 1
  BY <1>1, FS_Interval
<1> QED BY <1>2

(* A list without repetitions is no longer than there are objects. *)
LEMMA ShortEnough ==
  ASSUME NEW s \in Seq(Objects),
         \A i, j \in 1 .. Len(s) : s[i] = s[j] => i = j
  PROVE  Len(s) <= Cardinality(Objects) /\ Cardinality(Objects) \in Nat
<1>1. Len(s) \in Nat /\ s \in [1 .. Len(s) -> Objects]
  BY LenProperties
<1>2. s \in Injection(1 .. Len(s), Objects)
  BY <1>1 DEF Injection, IsInjective
<1>3. Cardinality(1 .. Len(s)) <= Cardinality(Objects)
  BY <1>2, FS_Injection, FatUdpAssumption
<1>4. Cardinality(1 .. Len(s)) = Len(s)
  BY <1>1, CountTo
<1>5. Cardinality(Objects) \in Nat
  BY FS_CardinalityType, FatUdpAssumption
<1> QED BY <1>3, <1>4, <1>5

(* Walking along prev from the head of a list gives the list. *)
LEMMA WalkIs ==
  ASSUME NEW prev, NEW s \in Seq(Objects), NEW h,
         IF s = <<>> THEN h = NULL ELSE h = s[1],
         \A i \in 1 .. Len(s) : prev[s[i]] = IF i = Len(s) THEN NULL ELSE s[i + 1],
         \A i, j \in 1 .. Len(s) : s[i] = s[j] => i = j
  PROVE  Walk(prev, h) = s
<1> DEFINE N == Cardinality(Objects) + 1
           At(f, i) == IF i = 1 THEN h
                       ELSE IF f[i - 1] = NULL THEN NULL ELSE prev[f[i - 1]]
           Is(f) == f = [i \in 1 .. N |-> At(f, i)]
           nth == CHOOSE f : Is(f)
           g == [i \in 1 .. N |-> IF i <= Len(s) THEN s[i] ELSE NULL]
           len == Cardinality({i \in 1 .. N : nth[i] # NULL})
<1>1. Len(s) \in Nat /\ N \in Nat /\ Len(s) < N
  BY ShortEnough, LenProperties
<1>2. \A i \in 1 .. Len(s) : s[i] \in Objects /\ s[i] # NULL
  BY ElementOfSeq, FatUdpAssumption
<1>3. \A i \in 1 .. N : g[i] = At(g, i)
  <2> SUFFICES ASSUME NEW i \in 1 .. N PROVE g[i] = At(g, i)
    OBVIOUS
  <2>1. CASE i = 1
    <3>1. CASE s = <<>>
      <4>1. Len(s) = 0
        BY <3>1
      <4> QED BY <1>1, <2>1, <3>1, <4>1
    <3>2. CASE s # <<>>
      <4>1. Len(s) >= 1
        BY <1>1, <3>2, EmptySeq
      <4> QED BY <1>1, <2>1, <3>2, <4>1
    <3> QED BY <3>1, <3>2
  <2>2. CASE i > 1
    <3>1. i - 1 \in 1 .. N /\ (i - 1) + 1 = i
      BY <1>1, <2>2
    <3>2. g[i - 1] = IF i - 1 <= Len(s) THEN s[i - 1] ELSE NULL
      BY <3>1
    <3>3. CASE i - 1 <= Len(s)
      <4>1. i - 1 \in 1 .. Len(s)
        BY <1>1, <3>1, <3>3
      <4>2. prev[s[i - 1]] = IF i - 1 = Len(s) THEN NULL ELSE s[i]
        BY <3>1, <4>1
      <4>3. At(g, i) = prev[s[i - 1]]
        BY <1>2, <2>2, <3>2, <3>3, <4>1
      <4> QED BY <1>1, <3>3, <4>2, <4>3
    <3>4. CASE ~(i - 1 <= Len(s))
      <4>1. At(g, i) = NULL
        BY <2>2, <3>2, <3>4
      <4>2. g[i] = NULL
        BY <1>1, <3>4
      <4> QED BY <4>1, <4>2
    <3> QED BY <3>3, <3>4
  <2> QED BY <2>1, <2>2
<1>4. Is(g)
  BY <1>3
<1>5. Is(nth)
  <2> HIDE DEF Is
  <2> QED BY <1>4, Zenon
<1>6. \A i \in 1 .. N : nth[i] = At(nth, i)
  <2> HIDE DEF nth
  <2> QED BY <1>5
<1>7. \A i \in 1 .. N : nth[i] = g[i]
  <2> HIDE DEF nth, g
  <2> DEFINE Bad == {i \in 1 .. N : nth[i] # g[i]}
  <2> SUFFICES ASSUME Bad # {} PROVE FALSE
    OBVIOUS
  <2>1. Bad \subseteq Nat
    BY <1>1
  <2>2. PICK i \in Bad : \A j \in Bad : i <= j
    <3> HIDE DEF Bad
    <3> QED BY <2>1, LowestNumber
  <2>3. CASE i = 1
    BY <1>3, <1>6, <2>2, <2>3
  <2>4. CASE i # 1
    <3>1. i - 1 \in 1 .. N /\ i - 1 \notin Bad
      BY <1>1, <2>2, <2>4
    <3>2. nth[i - 1] = g[i - 1]
      BY <3>1
    <3> QED BY <1>3, <1>6, <2>2, <3>2
  <2> QED BY <2>3, <2>4
<1>8. {i \in 1 .. N : nth[i] # NULL} = 1 .. Len(s)
  <2> HIDE DEF nth
  <2> QED BY <1>1, <1>2, <1>7
<1>9. len = Len(s)
  <2>1. Cardinality(1 .. Len(s)) = Len(s)
    BY <1>1, CountTo
  <2> HIDE DEF nth
  <2> QED BY <1>8, <2>1
<1>10. Walk(prev, h) = [i \in 1 .. len |-> nth[i]]
  BY DEF Walk
<1>11. \A i \in 1 .. Len(s) : nth[i] = s[i]
  <2> HIDE DEF nth
  <2> QED BY <1>1, <1>7
<1>12. s = [i \in 1 .. Len(s) |-> s[i]]
  BY LenProperties
<1> QED
  <2> HIDE DEF nth, len
  <2> QED BY <1>9, <1>10, <1>11, <1>12

-----------------------------------------------------------------------------
(* Doubly linked lists: S[k] for k in K are lists without a common node,   *)
(* nx and pv the pointers of their nodes, which point nowhere otherwise.   *)
Listed(K, S, nx, pv) ==
  /\ S \in [K -> Seq(Objects)]
  /\ \A k \in K : Chained(nx, pv, S[k])
  /\ \A k, j \in K : \A i \in 1 .. Len(S[k]), h \in 1 .. Len(S[j]) :
       S[k][i] = S[j][h] => k = j /\ i = h
  /\ \A o \in Objects : (\A k \in K : o \notin Members(S[k])) => nx[o] = NULL /\ pv[o] = NULL

LEMMA ListOf ==
  ASSUME NEW K, NEW S, NEW nx, NEW pv, Listed(K, S, nx, pv), NEW k \in K
  PROVE  /\ S[k] \in Seq(Objects) /\ Len(S[k]) \in Nat
         /\ \A i \in 1 .. Len(S[k]) : S[k][i] \in Objects /\ S[k][i] # NULL
<1>1. S[k] \in Seq(Objects)
  BY DEF Listed
<1>2. \A i \in 1 .. Len(S[k]) : S[k][i] \in Objects
  BY <1>1, ElementOfSeq
<1>3. Len(S[k]) \in Nat
  BY <1>1, LenProperties
<1> QED BY <1>1, <1>2, <1>3, FatUdpAssumption

(* What is left of a list when one of its nodes is taken off. *)
LEMMA WithoutIs ==
  ASSUME NEW s \in Seq(Objects), NEW i \in 1 .. Len(s),
         \A a, b \in 1 .. Len(s) : s[a] = s[b] => a = b
  PROVE  /\ Fifo!Without(s, s[i]) \in Seq(Objects)
         /\ Len(Fifo!Without(s, s[i])) = Len(s) - 1
         /\ \A j \in 1 .. Len(s) - 1 :
              Fifo!Without(s, s[i])[j] = s[IF j < i THEN j ELSE j + 1]
<1>1. Len(s) \in Nat
  BY LenProperties
<1>2. Fifo!Place(s, s[i]) = i
  BY DEF Fifo!Place
<1>3. Fifo!Without(s, s[i]) = [j \in 1 .. Len(s) - 1 |-> s[IF j < i THEN j ELSE j + 1]]
  BY <1>2 DEF Fifo!Without
<1>4. \A j \in 1 .. Len(s) - 1 : s[IF j < i THEN j ELSE j + 1] \in Objects
  BY <1>1, ElementOfSeq
<1>5. Fifo!Without(s, s[i]) \in [1 .. Len(s) - 1 -> Objects]
  BY <1>3, <1>4
<1>6. Len(s) - 1 \in Nat
  BY <1>1
<1> QED BY <1>3, <1>5, <1>6, MakeSeq

LEMMA TakeOff ==
  ASSUME NEW K, NEW S, NEW nx, NEW pv, Listed(K, S, nx, pv),
         NEW k \in K, NEW i \in 1 .. Len(S[k]), NEW nx2, NEW pv2,
         \A x \in Objects : nx2[x] =
            IF x = S[k][i] THEN NULL
            ELSE IF i < Len(S[k]) /\ x = S[k][i + 1] THEN nx[S[k][i]] ELSE nx[x],
         \A x \in Objects : pv2[x] =
            IF x = S[k][i] THEN NULL
            ELSE IF i > 1 /\ x = S[k][i - 1] THEN pv[S[k][i]] ELSE pv[x]
  PROVE  Listed(K, [S EXCEPT ![k] = Fifo!Without(S[k], S[k][i])], nx2, pv2)
<1> DEFINE s == S[k]
           w == Fifo!Without(s, s[i])
           T == [S EXCEPT ![k] = w]
<1>1. /\ s \in Seq(Objects) /\ Len(s) \in Nat
      /\ \A j \in 1 .. Len(s) : s[j] \in Objects /\ s[j] # NULL
  BY ListOf
<1>2. \A a, b \in 1 .. Len(s) : s[a] = s[b] => a = b
  BY DEF Listed
<1>3. /\ w \in Seq(Objects) /\ Len(w) = Len(s) - 1
      /\ \A j \in 1 .. Len(s) - 1 : w[j] = s[IF j < i THEN j ELSE j + 1]
  BY <1>1, <1>2, WithoutIs
<1>4. T \in [K -> Seq(Objects)] /\ T[k] = w /\ \A j \in K \ {k} : T[j] = S[j]
  BY <1>3 DEF Listed
<1>5. Chained(nx, pv, s)
  BY DEF Listed
<1>6. Chained(nx2, pv2, w)
  <2> SUFFICES ASSUME NEW j \in 1 .. Len(w)
               PROVE  /\ nx2[w[j]] = IF j = 1 THEN NULL ELSE w[j - 1]
                      /\ pv2[w[j]] = IF j = Len(w) THEN NULL ELSE w[j + 1]
    BY DEF Chained
  <2> HIDE DEF s, w
  <2>1. CASE j < i
    <3>1. w[j] = s[j] /\ j \in 1 .. Len(s) /\ j + 1 \in 1 .. Len(s)
      BY <1>1, <1>3, <2>1
    <3>2. s[j] # s[i] /\ ~ (i < Len(s) /\ s[j] = s[i + 1])
      BY <1>1, <1>2, <2>1, <3>1 DEF s
    <3>3. nx2[s[j]] = nx[s[j]]
      BY <1>1, <3>1, <3>2 DEF s
    <3>4. nx[s[j]] = IF j = 1 THEN NULL ELSE s[j - 1]
      BY <1>5, <3>1 DEF Chained
    <3>5. j # 1 => w[j - 1] = s[j - 1]
      BY <1>1, <1>3, <2>1
    <3>6. CASE j = i - 1
      <4>1. pv2[s[j]] = pv[s[i]]
        BY <1>1, <3>1, <3>2, <3>6 DEF s
      <4>2. pv[s[i]] = IF i = Len(s) THEN NULL ELSE s[i + 1]
        BY <1>5 DEF Chained, s
      <4>3. i # Len(s) => w[i] = s[i + 1]
        BY <1>1, <1>3 DEF s
      <4>4. j + 1 = i /\ (j = Len(w) <=> i = Len(s))
        BY <1>1, <1>3, <3>6 DEF s
      <4> QED BY <3>1, <3>3, <3>4, <3>5, <4>1, <4>2, <4>3, <4>4
    <3>7. CASE j # i - 1
      <4>1. ~ (i > 1 /\ s[j] = s[i - 1])
        BY <1>1, <1>2, <3>1, <3>7 DEF s
      <4>2. pv2[s[j]] = pv[s[j]]
        BY <1>1, <3>1, <3>2, <4>1 DEF s
      <4>3. pv[s[j]] = IF j = Len(s) THEN NULL ELSE s[j + 1]
        BY <1>5, <3>1 DEF Chained
      <4>4. j # Len(w) /\ j # Len(s) /\ w[j + 1] = s[j + 1]
        BY SMTT(40), <1>1, <1>3, <2>1, <3>7 DEF s
      <4> QED BY <3>1, <3>3, <3>4, <3>5, <4>2, <4>3, <4>4
    <3> QED BY <3>6, <3>7
  <2>2. CASE ~ (j < i)
    <3>1. w[j] = s[j + 1] /\ j + 1 \in 1 .. Len(s) /\ j \in 1 .. Len(s)
      BY <1>1, <1>3, <2>2
    <3>2. s[j + 1] # s[i] /\ ~ (i > 1 /\ s[j + 1] = s[i - 1])
      BY <1>1, <1>2, <2>2, <3>1 DEF s
    <3>3. pv2[s[j + 1]] = pv[s[j + 1]]
      BY <1>1, <3>1, <3>2 DEF s
    <3>4. pv[s[j + 1]] = IF j + 1 = Len(s) THEN NULL ELSE s[j + 2]
      BY <1>5, <3>1 DEF Chained
    <3>5. (j + 1 = Len(s) <=> j = Len(w)) /\ (j # Len(w) => w[j + 1] = s[j + 2])
      BY <1>1, <1>3, <2>2
    <3>6. CASE j = i
      <4>1. nx2[s[j + 1]] = nx[s[i]]
        BY <1>1, <3>1, <3>2, <3>6 DEF s
      <4>2. nx[s[i]] = IF i = 1 THEN NULL ELSE s[i - 1]
        BY <1>5 DEF Chained, s
      <4>3. i # 1 => w[i - 1] = s[i - 1]
        BY <1>1, <1>3 DEF s
      <4> QED BY <3>1, <3>3, <3>4, <3>5, <3>6, <4>1, <4>2, <4>3
    <3>7. CASE j # i
      <4>1. ~ (i < Len(s) /\ s[j + 1] = s[i + 1])
        BY <1>1, <1>2, <3>1, <3>7 DEF s
      <4>2. nx2[s[j + 1]] = nx[s[j + 1]]
        BY <1>1, <3>1, <3>2, <4>1 DEF s
      <4>3. nx[s[j + 1]] = s[j]
        <5>1. nx[s[j + 1]] = IF j + 1 = 1 THEN NULL ELSE s[(j + 1) - 1]
          BY <1>5, <3>1 DEF Chained
        <5> QED BY <5>1, <3>1
      <4>4. j # 1 /\ w[j - 1] = s[j]
        BY SMTT(40), <1>1, <1>3, <2>2, <3>7 DEF s
      <4> QED BY <3>1, <3>3, <3>4, <3>5, <4>2, <4>3, <4>4
    <3> QED BY <3>6, <3>7
  <2> QED BY <2>1, <2>2
<1>7. ASSUME NEW j \in K, j # k, NEW h \in 1 .. Len(S[j])
      PROVE  nx2[S[j][h]] = nx[S[j][h]] /\ pv2[S[j][h]] = pv[S[j][h]]
  <2>1. S[j][h] \in Objects
    BY ListOf
  <2>2. \A a \in 1 .. Len(s) : S[j][h] # s[a]
    BY <1>7 DEF Listed
  <2>3. (i < Len(s) => i + 1 \in 1 .. Len(s)) /\ (i > 1 => i - 1 \in 1 .. Len(s))
    BY <1>1
  <2> QED BY <2>1, <2>2, <2>3
<1>8. \A j \in K : Chained(nx2, pv2, T[j])
  <2> SUFFICES ASSUME NEW j \in K PROVE Chained(nx2, pv2, T[j])
    OBVIOUS
  <2>1. CASE j = k
    BY <1>4, <1>6, <2>1
  <2>2. CASE j # k
    <3>1. Chained(nx, pv, S[j])
      BY DEF Listed
    <3>2. Chained(nx2, pv2, S[j])
      BY <1>7, <2>2, <3>1 DEF Chained
    <3> QED BY <1>4, <2>2, <3>2
  <2> QED BY <2>1, <2>2
<1>9. \A j \in K : \A h \in 1 .. Len(T[j]) :
        \E g \in 1 .. Len(S[j]) : /\ T[j][h] = S[j][g]
                                 /\ g = IF j = k /\ h >= i THEN h + 1 ELSE h
  <2> SUFFICES ASSUME NEW j \in K, NEW h \in 1 .. Len(T[j])
               PROVE  \E g \in 1 .. Len(S[j]) : /\ T[j][h] = S[j][g]
                                               /\ g = IF j = k /\ h >= i THEN h + 1 ELSE h
    OBVIOUS
  <2>1. CASE j = k
    <3> DEFINE g == IF h >= i THEN h + 1 ELSE h
    <3>1. h \in 1 .. Len(s) - 1 /\ T[j][h] = w[h]
      BY <1>3, <1>4, <2>1
    <3>2. w[h] = s[IF h < i THEN h ELSE h + 1]
      BY <1>3, <3>1
    <3>3. g \in 1 .. Len(s) /\ g = IF h < i THEN h ELSE h + 1
      BY <1>1, <3>1
    <3>4. T[j][h] = S[j][g]
      BY <2>1, <3>1, <3>2, <3>3
    <3> QED BY <2>1, <3>3, <3>4
  <2>2. CASE j # k
    BY <1>4, <2>2
  <2> QED BY <2>1, <2>2
<1>10. \A a, b \in K : \A g \in 1 .. Len(T[a]), h \in 1 .. Len(T[b]) :
         T[a][g] = T[b][h] => a = b /\ g = h
  <2> SUFFICES ASSUME NEW a \in K, NEW b \in K, NEW g \in 1 .. Len(T[a]),
                      NEW h \in 1 .. Len(T[b]), T[a][g] = T[b][h]
               PROVE  a = b /\ g = h
    OBVIOUS
  <2> HIDE DEF T, w, s
  <2>1. PICK c \in 1 .. Len(S[a]) : /\ T[a][g] = S[a][c]
                                   /\ c = IF a = k /\ g >= i THEN g + 1 ELSE g
    BY <1>9
  <2>2. PICK d \in 1 .. Len(S[b]) : /\ T[b][h] = S[b][d]
                                   /\ d = IF b = k /\ h >= i THEN h + 1 ELSE h
    BY <1>9
  <2>3. S[a][c] = S[b][d]
    BY <2>1, <2>2
  <2>4. a = b /\ c = d
    BY <2>3 DEF Listed
  <2>5. g \in Int /\ h \in Int
    <3>1. Len(T[a]) \in Nat /\ Len(T[b]) \in Nat
      BY <1>4, LenProperties
    <3> QED BY <3>1
  <2> QED BY <2>1, <2>2, <2>4, <2>5
<1>11. ASSUME NEW o \in Objects, \A j \in K : o \notin Members(T[j])
       PROVE  nx2[o] = NULL /\ pv2[o] = NULL
  <2>1. CASE o = s[i]
    BY <2>1
  <2>2. CASE o # s[i]
    <3>1. \A a \in 1 .. Len(s) : o # s[a]
      <4> SUFFICES ASSUME NEW a \in 1 .. Len(s), o = s[a] PROVE FALSE
        OBVIOUS
      <4>1. a # i
        BY <2>2
      <4>2. \E h \in 1 .. Len(w) : w[h] = s[a]
        <5>1. CASE a < i
          <6>1. a \in 1 .. Len(w) /\ w[a] = s[a]
            BY <1>1, <1>3, <5>1
          <6> QED BY <6>1
        <5>2. CASE a > i
          <6>1. a - 1 \in 1 .. Len(w) /\ ~(a - 1 < i) /\ (a - 1) + 1 = a
            BY <1>1, <1>3, <5>2
          <6> QED BY ZenonT(60), <1>1, <1>3, <6>1
        <5> QED BY <1>1, <4>1, <5>1, <5>2
      <4>3. o \in Members(w)
        BY <4>2 DEF Members
      <4> QED BY <1>4, <1>11, <4>3
    <3>2. \A j \in K : o \notin Members(S[j])
      <4>1. o \notin Members(s)
        BY <3>1 DEF Members
      <4> QED BY <1>4, <1>11, <4>1
    <3>3. nx[o] = NULL /\ pv[o] = NULL
      BY <3>2 DEF Listed
    <3>4. (i < Len(s) => i + 1 \in 1 .. Len(s)) /\ (i > 1 => i - 1 \in 1 .. Len(s))
      BY <1>1
    <3> QED BY <2>2, <3>1, <3>3, <3>4
  <2> QED BY <2>1, <2>2
<1> QED
  <2> HIDE DEF T, w
  <2>1. \A o \in Objects : (\A j \in K : o \notin Members(T[j])) => nx2[o] = NULL /\ pv2[o] = NULL
    BY <1>11
  <2>2. Listed(K, T, nx2, pv2)
    BY <1>4, <1>8, <1>10, <2>1 DEF Listed
  <2> QED BY <2>2 DEF T, w

(* The lists S with w in place of list k; the pointers with o after the    *)
(* last node of s, and with the first node of t there.                     *)
Replaced(K, S, T, k, w) ==
  T \in [K -> Seq(Objects)] /\ T[k] = w /\ \A j \in K \ {k} : T[j] = S[j]
Joined(K, S, T, k, m) ==
  /\ T \in [K -> Seq(Objects)] /\ T[k] = S[k] \o S[m] /\ T[m] = <<>>
  /\ \A j \in K \ {k, m} : T[j] = S[j]
Adds(s, o, nx, pv, nx2, pv2) ==
  /\ \A x \in Objects : nx2[x] =
       IF x = o THEN (IF s = <<>> THEN NULL ELSE s[Len(s)]) ELSE nx[x]
  /\ \A x \in Objects : pv2[x] = IF s # <<>> /\ x = s[Len(s)] THEN o ELSE pv[x]
Splices(s, t, nx, pv, nx2, pv2) ==
  /\ \A x \in Objects : nx2[x] = IF x = t[1] THEN s[Len(s)] ELSE nx[x]
  /\ \A x \in Objects : pv2[x] = IF x = s[Len(s)] THEN t[1] ELSE pv[x]

(* A node that is on no list joins one at its end. *)
LEMMA AddOn ==
  ASSUME NEW K, NEW S, NEW nx, NEW pv, Listed(K, S, nx, pv),
         NEW k \in K, NEW o \in Objects, \A j \in K : o \notin Members(S[j]),
         NEW T, Replaced(K, S, T, k, Append(S[k], o)),
         NEW nx2, NEW pv2, Adds(S[k], o, nx, pv, nx2, pv2)
  PROVE  Listed(K, T, nx2, pv2)
<1> DEFINE s == S[k]
           w == Append(s, o)
<1>1. /\ s \in Seq(Objects) /\ Len(s) \in Nat
      /\ \A j \in 1 .. Len(s) : s[j] \in Objects /\ s[j] # NULL /\ s[j] # o
  <2>1. \A j \in 1 .. Len(s) : s[j] # o
    BY DEF Members
  <2> QED BY <2>1, ListOf
<1>2. s = <<>> <=> Len(s) = 0
  BY <1>1, EmptySeq
<1>3. \A a, b \in 1 .. Len(s) : s[a] = s[b] => a = b
  BY DEF Listed
<1>4. /\ w \in Seq(Objects) /\ Len(w) = Len(s) + 1
      /\ \A j \in 1 .. Len(s) : w[j] = s[j]
      /\ w[Len(s) + 1] = o
  BY <1>1, AppendProperties
<1>5. T \in [K -> Seq(Objects)] /\ T[k] = w /\ \A j \in K \ {k} : T[j] = S[j]
  BY DEF Replaced
<1>5a. /\ \A x \in Objects : nx2[x] =
            IF x = o THEN (IF s = <<>> THEN NULL ELSE s[Len(s)]) ELSE nx[x]
       /\ \A x \in Objects : pv2[x] = IF s # <<>> /\ x = s[Len(s)] THEN o ELSE pv[x]
  BY DEF Adds
<1>6. Chained(nx, pv, s)
  BY DEF Listed
<1>7. Chained(nx2, pv2, w)
  <2> SUFFICES ASSUME NEW j \in 1 .. Len(w)
               PROVE  /\ nx2[w[j]] = IF j = 1 THEN NULL ELSE w[j - 1]
                      /\ pv2[w[j]] = IF j = Len(w) THEN NULL ELSE w[j + 1]
    BY DEF Chained
  <2> HIDE DEF w
  <2>1. CASE j = Len(s) + 1
    <3>1. w[j] = o /\ j = Len(w)
      BY <1>4, <2>1
    <3>2. nx2[o] = IF j = 1 THEN NULL ELSE w[j - 1]
      <4>1. j # 1 => w[j - 1] = s[Len(s)]
        BY <1>1, <1>4, <2>1
      <4> QED BY <1>5a, <1>1, <1>2, <2>1, <4>1
    <3>3. pv[o] = NULL
      BY DEF Listed
    <3>4. Len(s) # 0 => s[Len(s)] # o
      BY <1>1
    <3>5. pv2[o] = NULL
      BY <1>5a, <1>2, <3>3, <3>4
    <3> QED BY <3>1, <3>2, <3>5
  <2>2. CASE j # Len(s) + 1
    <3>1. j \in 1 .. Len(s) /\ w[j] = s[j] /\ j # Len(w)
      BY <1>1, <1>4, <2>2
    <3>2. nx2[s[j]] = IF j = 1 THEN NULL ELSE s[j - 1]
      <4>1. nx2[s[j]] = nx[s[j]]
        BY <1>5a, <1>1, <3>1
      <4> QED BY <1>6, <3>1, <4>1 DEF Chained
    <3>3. j # 1 => w[j - 1] = s[j - 1]
      BY <1>1, <1>4, <3>1
    <3>4. pv2[s[j]] = w[j + 1]
      <4>1. CASE j = Len(s)
        <5>1. s # <<>> /\ s[j] = s[Len(s)]
          BY <1>2, <3>1, <4>1
        <5> QED BY <1>5a, <1>1, <1>4, <3>1, <4>1, <5>1
      <4>2. CASE j # Len(s)
        <5>1. s[j] # s[Len(s)]
          BY <1>1, <1>3, <3>1, <4>2
        <5>2. pv2[s[j]] = pv[s[j]]
          BY <1>5a, <1>1, <3>1, <5>1
        <5>3. pv[s[j]] = s[j + 1]
          BY <1>6, <3>1, <4>2 DEF Chained
        <5>4. w[j + 1] = s[j + 1]
          BY <1>1, <1>4, <3>1, <4>2
        <5> QED BY <5>2, <5>3, <5>4
      <4> QED BY <4>1, <4>2
    <3> QED BY <3>1, <3>2, <3>3, <3>4
  <2> QED BY <2>1, <2>2
<1>8. ASSUME NEW j \in K, j # k, NEW h \in 1 .. Len(S[j])
      PROVE  nx2[S[j][h]] = nx[S[j][h]] /\ pv2[S[j][h]] = pv[S[j][h]]
  <2>1. S[j][h] \in Objects /\ S[j][h] # o
    BY ListOf DEF Members
  <2>2. Len(s) # 0 => S[j][h] # s[Len(s)]
    <3>1. Len(s) # 0 => Len(s) \in 1 .. Len(s)
      BY <1>1
    <3> QED BY <1>8, <3>1 DEF Listed
  <2> QED BY <1>5a, <1>2, <2>1, <2>2
<1>9. \A j \in K : Chained(nx2, pv2, T[j])
  <2> SUFFICES ASSUME NEW j \in K PROVE Chained(nx2, pv2, T[j])
    OBVIOUS
  <2>1. CASE j = k
    BY <1>5, <1>7, <2>1
  <2>2. CASE j # k
    <3>1. Chained(nx, pv, S[j])
      BY DEF Listed
    <3>2. Chained(nx2, pv2, S[j])
      BY <1>8, <2>2, <3>1 DEF Chained
    <3> QED BY <1>5, <2>2, <3>2
  <2> QED BY <2>1, <2>2
<1>10. \A j \in K : \A h \in 1 .. Len(T[j]) :
         \/ T[j][h] # o /\ h \in 1 .. Len(S[j]) /\ T[j][h] = S[j][h]
         \/ T[j][h] = o /\ j = k /\ h = Len(s) + 1
  <2> SUFFICES ASSUME NEW j \in K, NEW h \in 1 .. Len(T[j])
               PROVE  \/ T[j][h] # o /\ h \in 1 .. Len(S[j]) /\ T[j][h] = S[j][h]
                      \/ T[j][h] = o /\ j = k /\ h = Len(s) + 1
    OBVIOUS
  <2> HIDE DEF w
  <2>1. CASE j = k
    <3>1. h \in 1 .. Len(s) + 1 /\ T[j] = w
      BY <1>4, <1>5, <2>1
    <3>2. CASE h = Len(s) + 1
      BY <1>4, <2>1, <3>1, <3>2
    <3>3. CASE h # Len(s) + 1
      <4>1. h \in 1 .. Len(s)
        BY <1>1, <3>1, <3>3
      <4> QED BY <1>1, <1>4, <2>1, <3>1, <4>1
    <3> QED BY <3>2, <3>3
  <2>2. CASE j # k
    <3>1. T[j] = S[j]
      BY <1>5, <2>2
    <3>2. S[j][h] # o
      BY <3>1 DEF Members
    <3> QED BY <3>1, <3>2
  <2> QED BY <2>1, <2>2
<1>11. \A a, b \in K : \A g \in 1 .. Len(T[a]), h \in 1 .. Len(T[b]) :
         T[a][g] = T[b][h] => a = b /\ g = h
  <2> SUFFICES ASSUME NEW a \in K, NEW b \in K, NEW g \in 1 .. Len(T[a]),
                      NEW h \in 1 .. Len(T[b]), T[a][g] = T[b][h]
               PROVE  a = b /\ g = h
    OBVIOUS
  <2> HIDE DEF w, s
  <2>1. \/ T[a][g] # o /\ g \in 1 .. Len(S[a]) /\ T[a][g] = S[a][g]
        \/ T[a][g] = o /\ a = k /\ g = Len(s) + 1
    BY <1>10
  <2>2. \/ T[b][h] # o /\ h \in 1 .. Len(S[b]) /\ T[b][h] = S[b][h]
        \/ T[b][h] = o /\ b = k /\ h = Len(s) + 1
    BY <1>10
  <2>3. CASE T[a][g] = o
    BY <2>1, <2>2, <2>3
  <2>4. CASE T[a][g] # o
    <3>1. g \in 1 .. Len(S[a]) /\ h \in 1 .. Len(S[b]) /\ S[a][g] = S[b][h]
      BY <2>1, <2>2, <2>4
    <3> QED BY <3>1 DEF Listed
  <2> QED BY <2>3, <2>4
<1>12. ASSUME NEW x \in Objects, \A j \in K : x \notin Members(T[j])
       PROVE  nx2[x] = NULL /\ pv2[x] = NULL
  <2> HIDE DEF w
  <2>1. \A h \in 1 .. Len(w) : x # w[h]
    BY <1>5, <1>12 DEF Members
  <2>2. x # o
    <3>1. Len(s) + 1 \in 1 .. Len(w)
      BY <1>1, <1>4
    <3> QED BY <1>4, <2>1, <3>1
  <2>3. \A h \in 1 .. Len(s) : x # s[h]
    BY <1>1, <1>4, <2>1
  <2>4. \A j \in K : x \notin Members(S[j])
    <3>1. x \notin Members(s)
      BY <2>3 DEF Members
    <3> QED BY <1>5, <1>12, <3>1
  <2>5. nx[x] = NULL /\ pv[x] = NULL
    BY <2>4 DEF Listed
  <2>6. Len(s) # 0 => x # s[Len(s)]
    BY <1>1, <2>3
  <2> QED BY <1>5a, <1>2, <2>2, <2>5, <2>6
<1> QED
  <2> HIDE DEF w
  <2>1. \A x \in Objects : (\A j \in K : x \notin Members(T[j])) => nx2[x] = NULL /\ pv2[x] = NULL
    BY <1>12
  <2> QED BY <1>5, <1>9, <1>11, <2>1 DEF Listed

(* A list is moved to the end of another. *)
LEMMA Joins ==
  ASSUME NEW K, NEW S, NEW nx, NEW pv, Listed(K, S, nx, pv),
         NEW k \in K, NEW m \in K, m # k, S[k] # <<>>, S[m] # <<>>,
         NEW nx2, NEW pv2, Splices(S[k], S[m], nx, pv, nx2, pv2),
         NEW T, Joined(K, S, T, k, m)
  PROVE  Listed(K, T, nx2, pv2)
<1> DEFINE s == S[k]
           t == S[m]
           n == Len(s)
           l == Len(t)
           w == s \o t
<1>1. /\ s \in Seq(Objects) /\ n \in Int /\ n >= 1
      /\ \A j \in 1 .. n : s[j] \in Objects
      /\ t \in Seq(Objects) /\ l \in Int /\ l >= 1
      /\ \A j \in 1 .. l : t[j] \in Objects
  <2>1. s \in Seq(Objects) /\ \A j \in 1 .. n : s[j] \in Objects
    BY ListOf
  <2>2. t \in Seq(Objects) /\ \A j \in 1 .. l : t[j] \in Objects
    BY ListOf
  <2>3. n \in Nat \ {0}
    BY <2>1, EmptySeq
  <2>4. l \in Nat \ {0}
    BY <2>2, EmptySeq
  <2> HIDE DEF n, l, s, t
  <2> QED BY <2>1, <2>2, <2>3, <2>4
<1> HIDE DEF n, l
<1>2. \A a \in 1 .. n, b \in 1 .. l : s[a] # t[b]
  BY DEF Listed, n, l
<1>3. /\ \A a, b \in 1 .. n : s[a] = s[b] => a = b
      /\ \A a, b \in 1 .. l : t[a] = t[b] => a = b
  BY DEF Listed, n, l
<1>4. /\ w \in Seq(Objects) /\ Len(w) = n + l
      /\ \A j \in 1 .. n + l : w[j] = IF j <= n THEN s[j] ELSE t[j - n]
  <2> HIDE DEF s, t
  <2> QED BY <1>1, ConcatProperties DEF n, l
<1>5. /\ T \in [K -> Seq(Objects)] /\ T[k] = w /\ T[m] = <<>>
      /\ \A j \in K \ {k, m} : T[j] = S[j]
  BY DEF Joined
<1> HIDE DEF w
<1>5a. /\ \A x \in Objects : nx2[x] = IF x = t[1] THEN s[n] ELSE nx[x]
       /\ \A x \in Objects : pv2[x] = IF x = s[n] THEN t[1] ELSE pv[x]
  BY DEF Splices, n
<1>6. Chained(nx, pv, s) /\ Chained(nx, pv, t)
  BY DEF Listed
<1>7. n \in 1 .. n /\ 1 \in 1 .. l
  BY <1>1
<1>8. Chained(nx2, pv2, w)
  <2> SUFFICES ASSUME NEW j \in 1 .. Len(w)
               PROVE  /\ nx2[w[j]] = IF j = 1 THEN NULL ELSE w[j - 1]
                      /\ pv2[w[j]] = IF j = Len(w) THEN NULL ELSE w[j + 1]
    BY DEF Chained
  <2>1. CASE j <= n
    <3>1. j \in 1 .. n /\ w[j] = s[j] /\ j # Len(w)
      BY <1>1, <1>4, <2>1
    <3>2. nx2[s[j]] = IF j = 1 THEN NULL ELSE s[j - 1]
      <4>1. s[j] # t[1]
        BY <1>2, <1>7, <3>1
      <4>2. nx2[s[j]] = nx[s[j]]
        BY <1>5a, <1>1, <3>1, <4>1
      <4> QED BY <1>6, <3>1, <4>2 DEF Chained, n, l
    <3>3. j # 1 => w[j - 1] = s[j - 1]
      BY <1>1, <1>4, <3>1
    <3>4. pv2[s[j]] = w[j + 1]
      <4>1. CASE j = n
        <5>1. pv2[s[j]] = t[1]
          BY <1>5a, <1>1, <3>1, <4>1
        <5>2. w[n + 1] = t[1]
          BY <1>1, <1>4
        <5> QED BY <4>1, <5>1, <5>2
      <4>2. CASE j # n
        <5>1. s[j] # s[n]
          BY <1>3, <1>7, <3>1, <4>2
        <5>2. pv2[s[j]] = pv[s[j]]
          BY <1>5a, <1>1, <3>1, <5>1
        <5>3. pv[s[j]] = s[j + 1]
          BY <1>6, <3>1, <4>2 DEF Chained, n, l
        <5>4. w[j + 1] = s[j + 1]
          BY <1>1, <1>4, <3>1, <4>2
        <5> QED BY <5>2, <5>3, <5>4
      <4> QED BY <4>1, <4>2
    <3> QED BY <3>1, <3>2, <3>3, <3>4
  <2>2. CASE j > n
    <3> DEFINE i == j - n
    <3>1. i \in 1 .. l /\ w[j] = t[i] /\ j # 1 /\ (j = Len(w) <=> i = l)
      BY <1>1, <1>4, <2>2
    <3>2. t[i] \in Objects
      BY <1>1, <3>1
    <3>3. nx2[t[i]] = w[j - 1]
      <4>1. CASE i = 1
        <5>1. nx2[t[i]] = s[n]
          BY <1>5a, <3>2, <4>1
        <5>2. j - 1 = n /\ w[n] = s[n]
          BY <1>1, <1>4, <4>1
        <5> QED BY <5>1, <5>2
      <4>2. CASE i # 1
        <5>1. t[i] # t[1]
          BY <1>3, <1>7, <3>1, <4>2
        <5>2. nx2[t[i]] = nx[t[i]]
          BY <1>5a, <3>2, <5>1
        <5>3. nx[t[i]] = t[i - 1]
          BY <1>6, <3>1, <4>2 DEF Chained, n, l
        <5>4. w[j - 1] = t[i - 1]
          <6>1. j - 1 \in 1 .. n + l /\ ~(j - 1 <= n) /\ (j - 1) - n = i - 1
            BY <1>1, <3>1, <4>2
          <6> QED BY <1>4, <6>1
        <5> QED BY <5>2, <5>3, <5>4
      <4> QED BY <4>1, <4>2
    <3>4. pv2[t[i]] = IF i = l THEN NULL ELSE t[i + 1]
      <4>1. t[i] # s[n]
        BY <1>2, <1>7, <3>1
      <4>2. pv2[t[i]] = pv[t[i]]
        BY <1>5a, <3>2, <4>1
      <4> QED BY <1>6, <3>1, <4>2 DEF Chained, n, l
    <3>5. i # l => w[j + 1] = t[i + 1]
      <4>1. i # l => /\ j + 1 \in 1 .. n + l /\ ~(j + 1 <= n)
                          /\ (j + 1) - n = i + 1
        BY <1>1, <3>1
      <4> QED BY <1>4, <4>1
    <3> HIDE DEF i
    <3> QED BY <3>1, <3>3, <3>4, <3>5
  <2>3. j \in Int /\ n \in Int
    BY <1>1, <1>4
  <2> QED BY <2>1, <2>2, <2>3
<1>9. ASSUME NEW j \in K, j # k, j # m, NEW h \in 1 .. Len(S[j])
      PROVE  nx2[S[j][h]] = nx[S[j][h]] /\ pv2[S[j][h]] = pv[S[j][h]]
  <2>1. S[j][h] \in Objects
    BY ListOf
  <2>2. S[j][h] # s[n] /\ S[j][h] # t[1]
    BY <1>7, <1>9 DEF Listed, n, l
  <2> QED BY <1>5a, <2>1, <2>2
<1>10. \A j \in K : Chained(nx2, pv2, T[j])
  <2> SUFFICES ASSUME NEW j \in K PROVE Chained(nx2, pv2, T[j])
    OBVIOUS
  <2>1. CASE j = k
    BY <1>5, <1>8, <2>1
  <2>2. CASE j = m
    <3>1. T[j] = <<>>
      BY <1>5, <2>2
    <3> QED BY <3>1, EmptySeq DEF Chained
  <2>3. CASE j # k /\ j # m
    <3>1. Chained(nx, pv, S[j])
      BY DEF Listed
    <3>2. Chained(nx2, pv2, S[j])
      BY <1>9, <2>3, <3>1 DEF Chained
    <3> QED BY <1>5, <2>3, <3>2
  <2> QED BY <2>1, <2>2, <2>3
<1>11. \A j \in K : \A h \in 1 .. Len(T[j]) :
         /\ h \in Int
         /\ \/ j # m /\ h \in 1 .. Len(S[j]) /\ T[j][h] = S[j][h]
            \/ j = k /\ h - n \in 1 .. l /\ T[j][h] = t[h - n]
  <2> SUFFICES ASSUME NEW j \in K, NEW h \in 1 .. Len(T[j])
               PROVE  /\ h \in Int
                      /\ \/ j # m /\ h \in 1 .. Len(S[j]) /\ T[j][h] = S[j][h]
                         \/ j = k /\ h - n \in 1 .. l /\ T[j][h] = t[h - n]
    OBVIOUS
  <2>1. h \in Int
    OBVIOUS
  <2>2. CASE j = k
    <3>1. h \in 1 .. n + l /\ T[j] = w
      BY <1>4, <1>5, <2>2
    <3>2. CASE h <= n
      <4>1. h \in 1 .. n /\ w[h] = s[h]
        BY <1>1, <1>4, <2>1, <3>1, <3>2
      <4>2. j # m /\ h \in 1 .. Len(S[j]) /\ T[j][h] = S[j][h]
        BY <2>2, <3>1, <4>1 DEF n
      <4> QED BY <2>1, <4>2
    <3>3. CASE h > n
      <4>1. h - n \in 1 .. l /\ w[h] = t[h - n]
        BY <1>1, <1>4, <2>1, <3>1, <3>3
      <4> QED BY <2>1, <2>2, <3>1, <4>1
    <3> QED BY <1>1, <2>1, <3>2, <3>3
  <2>3. CASE j = m
    <3>1. T[j] = <<>>
      BY <1>5, <2>3
    <3>2. Len(T[j]) = 0
      BY <3>1, EmptySeq
    <3> QED BY <3>2
  <2>4. CASE j # k /\ j # m
    BY <1>5, <2>1, <2>4
  <2> QED BY <2>2, <2>3, <2>4
<1>12. \A a, b \in K : \A g \in 1 .. Len(T[a]), h \in 1 .. Len(T[b]) :
         T[a][g] = T[b][h] => a = b /\ g = h
  <2> SUFFICES ASSUME NEW a \in K, NEW b \in K, NEW g \in 1 .. Len(T[a]),
                      NEW h \in 1 .. Len(T[b]), T[a][g] = T[b][h]
               PROVE  a = b /\ g = h
    OBVIOUS
  <2>1. g \in Int /\ h \in Int /\ n \in Int
    BY <1>1, <1>11
  <2>2. \/ a # m /\ g \in 1 .. Len(S[a]) /\ T[a][g] = S[a][g]
        \/ a = k /\ g - n \in 1 .. l /\ T[a][g] = t[g - n]
    BY <1>11
  <2>3. \/ b # m /\ h \in 1 .. Len(S[b]) /\ T[b][h] = S[b][h]
        \/ b = k /\ h - n \in 1 .. l /\ T[b][h] = t[h - n]
    BY <1>11
  <2>4. CASE /\ a # m /\ g \in 1 .. Len(S[a]) /\ T[a][g] = S[a][g]
             /\ b # m /\ h \in 1 .. Len(S[b]) /\ T[b][h] = S[b][h]
    <3>1. S[a][g] = S[b][h]
      BY <2>4
    <3> QED BY <2>4, <3>1 DEF Listed
  <2>5. CASE /\ a # m /\ g \in 1 .. Len(S[a]) /\ T[a][g] = S[a][g]
             /\ b = k /\ h - n \in 1 .. l /\ T[b][h] = t[h - n]
    <3>1. S[a][g] = S[m][h - n] /\ h - n \in 1 .. Len(S[m])
      BY <2>5 DEF n, l
    <3> QED BY <2>5, <3>1 DEF Listed
  <2>6. CASE /\ a = k /\ g - n \in 1 .. l /\ T[a][g] = t[g - n]
             /\ b # m /\ h \in 1 .. Len(S[b]) /\ T[b][h] = S[b][h]
    <3>1. S[b][h] = S[m][g - n] /\ g - n \in 1 .. Len(S[m])
      BY <2>6 DEF n, l
    <3> QED BY <2>6, <3>1 DEF Listed
  <2>7. CASE /\ a = k /\ g - n \in 1 .. l /\ T[a][g] = t[g - n]
             /\ b = k /\ h - n \in 1 .. l /\ T[b][h] = t[h - n]
    <3>1. g - n = h - n
      BY <1>3, <2>7
    <3> QED BY <2>1, <2>7, <3>1
  <2> QED BY <2>2, <2>3, <2>4, <2>5, <2>6, <2>7
<1>13. ASSUME NEW x \in Objects, \A j \in K : x \notin Members(T[j])
       PROVE  nx2[x] = NULL /\ pv2[x] = NULL
  <2>1. \A h \in 1 .. n + l : x # w[h]
    BY <1>4, <1>5, <1>13 DEF Members
  <2>2. \A h \in 1 .. n : x # s[h]
    <3> SUFFICES ASSUME NEW h \in 1 .. n PROVE x # s[h]
      OBVIOUS
    <3>1. h \in 1 .. n + l /\ w[h] = s[h]
      BY <1>1, <1>4
    <3> QED BY <2>1, <3>1
  <2>3. \A h \in 1 .. l : x # t[h]
    <3> SUFFICES ASSUME NEW h \in 1 .. l PROVE x # t[h]
      OBVIOUS
    <3>1. n + h \in 1 .. n + l /\ ~(n + h <= n) /\ (n + h) - n = h
      BY <1>1
    <3>2. w[n + h] = t[h]
      BY <1>4, <3>1
    <3> QED BY <2>1, <3>1, <3>2
  <2>4. \A j \in K : x \notin Members(S[j])
    <3>1. x \notin Members(s) /\ x \notin Members(t)
      BY <2>2, <2>3 DEF Members, n, l
    <3> QED BY <1>5, <1>13, <3>1
  <2>5. nx[x] = NULL /\ pv[x] = NULL
    BY <2>4 DEF Listed
  <2> QED BY <1>5a, <1>7, <2>2, <2>3, <2>5
<1> QED
  <2>1. \A x \in Objects : (\A j \in K : x \notin Members(T[j])) => nx2[x] = NULL /\ pv2[x] = NULL
    BY <1>13
  <2> QED BY <1>5, <1>10, <1>12, <2>1 DEF Listed

(* A list moves to where there was none. *)
LEMMA Moves ==
  ASSUME NEW K, NEW S, NEW nx, NEW pv, Listed(K, S, nx, pv),
         NEW k \in K, NEW m \in K, m # k, S[k] = <<>>,
         NEW T, Joined(K, S, T, k, m)
  PROVE  Listed(K, T, nx, pv)
<1>1. /\ T \in [K -> Seq(Objects)] /\ T[k] = S[k] \o S[m] /\ T[m] = <<>>
      /\ \A j \in K \ {k, m} : T[j] = S[j]
  BY DEF Joined
<1>2. T[k] = S[m]
  <2>1. S[m] \in Seq(Objects)
    BY ListOf
  <2>2. <<>> \o S[m] = S[m]
    BY <2>1, ConcatEmptySeq
  <2> QED BY <1>1, <2>2
<1>3. Len(S[k]) = 0 /\ Len(T[m]) = 0
  BY <1>1, EmptySeq
<1> DEFINE From(j) == IF j = k THEN m ELSE j
<1>4. \A j \in K : j # m => From(j) \in K /\ T[j] = S[From(j)]
  BY <1>1, <1>2
<1>5. \A j \in K : Chained(nx, pv, T[j])
  <2> SUFFICES ASSUME NEW j \in K PROVE Chained(nx, pv, T[j])
    OBVIOUS
  <2>1. CASE j = m
    BY <1>3, <2>1 DEF Chained
  <2>2. CASE j # m
    <3>1. From(j) \in K /\ T[j] = S[From(j)]
      BY <1>4, <2>2
    <3> QED BY <3>1 DEF Listed
  <2> QED BY <2>1, <2>2
<1>6. \A a, b \in K : \A g \in 1 .. Len(T[a]), h \in 1 .. Len(T[b]) :
        T[a][g] = T[b][h] => a = b /\ g = h
  <2> SUFFICES ASSUME NEW a \in K, NEW b \in K, NEW g \in 1 .. Len(T[a]),
                      NEW h \in 1 .. Len(T[b]), T[a][g] = T[b][h]
               PROVE  a = b /\ g = h
    OBVIOUS
  <2>1. a # m /\ b # m
    BY <1>3
  <2>2. /\ From(a) \in K /\ T[a] = S[From(a)]
        /\ From(b) \in K /\ T[b] = S[From(b)]
    BY <1>4, <2>1
  <2>3. From(a) = From(b) /\ g = h
    <3> HIDE DEF From
    <3> QED BY <2>2 DEF Listed
  <2> QED BY <2>1, <2>3
<1>7. ASSUME NEW o \in Objects, \A j \in K : o \notin Members(T[j])
      PROVE  nx[o] = NULL /\ pv[o] = NULL
  <2>1. \A j \in K : o \notin Members(S[j])
    <3> SUFFICES ASSUME NEW j \in K PROVE o \notin Members(S[j])
      OBVIOUS
    <3>1. CASE j = k
      BY <1>3, <3>1 DEF Members
    <3>2. CASE j = m
      BY <1>2, <1>7, <3>2
    <3>3. CASE j # k /\ j # m
      BY <1>1, <1>7, <3>3
    <3> QED BY <3>1, <3>2, <3>3
  <2> QED BY <2>1 DEF Listed
<1> QED BY <1>1, <1>5, <1>6, <1>7 DEF Listed

-----------------------------------------------------------------------------
(* The lists of the program, numbered through: the queues in fatlist[],    *)
(* then the temporary lists.                                               *)
Both == 0 .. 2 * MaxFatList - 1
Chain(Q, L) ==
  [k \in Both |-> IF k < MaxFatList THEN Q[k] ELSE L[k - MaxFatList]]

Rep(m, Q, L) == m \in Memories /\ Linked(m, Q, L) /\ OnePlace(Q, L)

LEMMA Numbers ==
  /\ MaxFatList \in Nat /\ 0 \in Lists
  /\ \A l \in Lists : /\ l \in Int /\ l \in Both /\ l < MaxFatList
                      /\ l + MaxFatList \in Both /\ ~(l + MaxFatList < MaxFatList)
                      /\ (l + MaxFatList) - MaxFatList = l
  /\ \A k \in Both : /\ k \in Int
                     /\ k < MaxFatList => k \in Lists
                     /\ ~(k < MaxFatList) => k - MaxFatList \in Lists
<1>1. MaxFatList \in Nat /\ MaxFatList >= 1
  BY FatUdpAssumption
<1> QED BY <1>1 DEF Lists, Both

LEMMA ChainOf ==
  ASSUME NEW Q \in [Lists -> Seq(Objects)], NEW L \in [Lists -> Seq(Objects)]
  PROVE  /\ Chain(Q, L) \in [Both -> Seq(Objects)]
         /\ \A l \in Lists : Chain(Q, L)[l] = Q[l] /\ Chain(Q, L)[l + MaxFatList] = L[l]
         /\ \A k \in Both : \/ k \in Lists /\ k < MaxFatList /\ Chain(Q, L)[k] = Q[k]
                            \/ /\ k - MaxFatList \in Lists /\ ~(k < MaxFatList)
                               /\ Chain(Q, L)[k] = L[k - MaxFatList]
BY Numbers DEF Chain

LEMMA ToListed ==
  ASSUME NEW m, NEW Q, NEW L, Rep(m, Q, L)
  PROVE  Listed(Both, Chain(Q, L), m.next, m.prev)
<1> DEFINE S == Chain(Q, L)
<1>1. Q \in [Lists -> Seq(Objects)] /\ L \in [Lists -> Seq(Objects)]
  BY DEF Rep, Linked
<1>2. S \in [Both -> Seq(Objects)]
  BY <1>1, ChainOf
<1>3. \A k \in Both : \/ k \in Lists /\ k < MaxFatList /\ S[k] = Q[k]
                      \/ k - MaxFatList \in Lists /\ ~(k < MaxFatList) /\ S[k] = L[k - MaxFatList]
  BY <1>1, ChainOf
<1>4. \A l \in Lists : Chained(m.next, m.prev, Q[l]) /\ Chained(m.next, m.prev, L[l])
  BY DEF Rep, Linked
<1>5. \A k \in Both : Chained(m.next, m.prev, S[k])
  <2> HIDE DEF S
  <2> QED BY <1>3, <1>4
<1>6. \A k, j \in Both : \A i \in 1 .. Len(S[k]), h \in 1 .. Len(S[j]) :
        S[k][i] = S[j][h] => k = j /\ i = h
  <2> SUFFICES ASSUME NEW k \in Both, NEW j \in Both, NEW i \in 1 .. Len(S[k]),
                      NEW h \in 1 .. Len(S[j]), S[k][i] = S[j][h]
               PROVE  k = j /\ i = h
    OBVIOUS
  <2> HIDE DEF S
  <2>1. k \in Int /\ j \in Int /\ MaxFatList \in Int
    BY Numbers
  <2>2. OnePlace(Q, L)
    BY DEF Rep
  <2>3. CASE k \in Lists /\ S[k] = Q[k] /\ j \in Lists /\ S[j] = Q[j]
    BY <2>2, <2>3 DEF OnePlace
  <2>4. CASE k \in Lists /\ S[k] = Q[k] /\ j - MaxFatList \in Lists /\ S[j] = L[j - MaxFatList]
    BY <2>2, <2>4 DEF OnePlace
  <2>5. CASE k - MaxFatList \in Lists /\ S[k] = L[k - MaxFatList] /\ j \in Lists /\ S[j] = Q[j]
    BY <2>2, <2>5 DEF OnePlace
  <2>6. CASE /\ k - MaxFatList \in Lists /\ S[k] = L[k - MaxFatList]
             /\ j - MaxFatList \in Lists /\ S[j] = L[j - MaxFatList]
    <3>1. k - MaxFatList = j - MaxFatList /\ i = h
      BY <2>2, <2>6 DEF OnePlace
    <3> QED BY <2>1, <3>1
  <2> QED BY <1>3, <2>3, <2>4, <2>5, <2>6
<1>7. ASSUME NEW o \in Objects, \A k \in Both : o \notin Members(S[k])
      PROVE  m.next[o] = NULL /\ m.prev[o] = NULL
  <2>1. \A l \in Lists : S[l] = Q[l] /\ S[l + MaxFatList] = L[l]
    BY <1>1, ChainOf
  <2> HIDE DEF S
  <2>2. \A l \in Lists : o \notin Members(Q[l]) /\ o \notin Members(L[l])
    BY <1>7, <2>1, Numbers
  <2> QED BY <2>2 DEF Rep, Linked
<1> QED
  <2> HIDE DEF S
  <2>1. \A o \in Objects : (\A k \in Both : o \notin Members(S[k])) => m.next[o] = NULL /\ m.prev[o] = NULL
    BY <1>7
  <2>2. Listed(Both, S, m.next, m.prev)
    BY <1>2, <1>5, <1>6, <2>1 DEF Listed
  <2> QED BY <2>2 DEF S

LEMMA FromListed ==
  ASSUME NEW m \in Memories,
         NEW Q \in [Lists -> Seq(Objects)], NEW L \in [Lists -> Seq(Objects)],
         \A l \in Lists : Ends(m.fat[l], Q[l]) /\ Ends(m.tmp[l], L[l]),
         Listed(Both, Chain(Q, L), m.next, m.prev)
  PROVE  Rep(m, Q, L)
<1> DEFINE S == Chain(Q, L)
<1>1. \A l \in Lists : S[l] = Q[l] /\ S[l + MaxFatList] = L[l]
  BY ChainOf
<1>2. \A k \in Both : \/ k \in Lists /\ S[k] = Q[k]
                      \/ k - MaxFatList \in Lists /\ S[k] = L[k - MaxFatList]
  BY ChainOf
<1> HIDE DEF S
<1>3. Listed(Both, S, m.next, m.prev)
  BY DEF S
<1>4. \A l \in Lists : Chained(m.next, m.prev, Q[l]) /\ Chained(m.next, m.prev, L[l])
  <2> SUFFICES ASSUME NEW l \in Lists
               PROVE  Chained(m.next, m.prev, Q[l]) /\ Chained(m.next, m.prev, L[l])
    OBVIOUS
  <2>1. l \in Both /\ l + MaxFatList \in Both
    BY Numbers
  <2>2. Chained(m.next, m.prev, S[l]) /\ Chained(m.next, m.prev, S[l + MaxFatList])
    BY <1>3, <2>1 DEF Listed
  <2> QED BY <1>1, <2>2
<1>5. ASSUME NEW o \in Objects, \A l \in Lists : o \notin Members(Q[l]) /\ o \notin Members(L[l])
      PROVE  m.next[o] = NULL /\ m.prev[o] = NULL
  <2>1. \A k \in Both : o \notin Members(S[k])
    BY <1>2, <1>5
  <2> QED BY <1>3, <2>1 DEF Listed
<1>6. OnePlace(Q, L)
  <2>1. ASSUME NEW l \in Lists, NEW k \in Lists, NEW i \in 1 .. Len(Q[l]),
               NEW j \in 1 .. Len(Q[k]), Q[l][i] = Q[k][j]
        PROVE  l = k /\ i = j
    <3>1. l \in Both /\ k \in Both /\ S[l] = Q[l] /\ S[k] = Q[k]
      BY <1>1, Numbers
    <3> QED BY <1>3, <2>1, <3>1 DEF Listed
  <2>2. ASSUME NEW l \in Lists, NEW k \in Lists, NEW i \in 1 .. Len(Q[l]),
               NEW j \in 1 .. Len(L[k]), Q[l][i] = L[k][j]
        PROVE  FALSE
    <3>1. l \in Both /\ k + MaxFatList \in Both /\ S[l] = Q[l] /\ S[k + MaxFatList] = L[k]
      BY <1>1, Numbers
    <3>2. l = k + MaxFatList
      BY <1>3, <2>2, <3>1 DEF Listed
    <3> QED BY <3>2, Numbers
  <2>3. ASSUME NEW l \in Lists, NEW k \in Lists, NEW i \in 1 .. Len(L[l]),
               NEW j \in 1 .. Len(L[k]), L[l][i] = L[k][j]
        PROVE  l = k /\ i = j
    <3>1. /\ l + MaxFatList \in Both /\ k + MaxFatList \in Both
          /\ S[l + MaxFatList] = L[l] /\ S[k + MaxFatList] = L[k]
      BY <1>1, Numbers
    <3>2. l + MaxFatList = k + MaxFatList /\ i = j
      BY <1>3, <2>3, <3>1 DEF Listed
    <3> QED BY <3>2, Numbers
  <2> QED BY <2>1, <2>2, <2>3 DEF OnePlace
<1> QED BY <1>4, <1>5, <1>6 DEF Rep, Linked

(* A memory of lists determines the lists. *)
LEMMA ListsAre ==
  ASSUME NEW m, NEW Q, NEW L, Rep(m, Q, L)
  PROVE  /\ Q = [l \in Lists |-> Walk(m.prev, m.fat[l].head)]
         /\ L = [l \in Lists |-> Walk(m.prev, m.tmp[l].head)]
<1>1. Q \in [Lists -> Seq(Objects)] /\ L \in [Lists -> Seq(Objects)]
  BY DEF Rep, Linked
<1>2. ASSUME NEW l \in Lists PROVE Walk(m.prev, m.fat[l].head) = Q[l]
  <2> DEFINE s == Q[l]
             h == m.fat[l].head
  <2>1. s \in Seq(Objects)
    BY <1>1
  <2>2. IF s = <<>> THEN h = NULL ELSE h = s[1]
    BY DEF Rep, Linked, Ends
  <2>3. \A i \in 1 .. Len(s) : m.prev[s[i]] = IF i = Len(s) THEN NULL ELSE s[i + 1]
    BY DEF Rep, Linked, Chained
  <2>4. \A i, j \in 1 .. Len(s) : s[i] = s[j] => i = j
    BY DEF Rep, OnePlace
  <2> HIDE DEF s, h
  <2>5. Walk(m.prev, h) = s
    BY <2>1, <2>2, <2>3, <2>4, WalkIs
  <2> QED BY <2>5 DEF s, h
<1>3. ASSUME NEW l \in Lists PROVE Walk(m.prev, m.tmp[l].head) = L[l]
  <2> DEFINE s == L[l]
             h == m.tmp[l].head
  <2>1. s \in Seq(Objects)
    BY <1>1
  <2>2. IF s = <<>> THEN h = NULL ELSE h = s[1]
    BY DEF Rep, Linked, Ends
  <2>3. \A i \in 1 .. Len(s) : m.prev[s[i]] = IF i = Len(s) THEN NULL ELSE s[i + 1]
    BY DEF Rep, Linked, Chained
  <2>4. \A i, j \in 1 .. Len(s) : s[i] = s[j] => i = j
    BY DEF Rep, OnePlace
  <2> HIDE DEF s, h
  <2>5. Walk(m.prev, h) = s
    BY <2>1, <2>2, <2>3, <2>4, WalkIs
  <2> QED BY <2>5 DEF s, h
<1> QED BY <1>1, <1>2, <1>3

-----------------------------------------------------------------------------
(* What the operations on the pointers do. *)

LEMMA MemoryParts ==
  ASSUME NEW m \in Memories
  PROVE  /\ m.next \in [Objects -> Objects \cup {NULL}]
         /\ m.prev \in [Objects -> Objects \cup {NULL}]
         /\ m.fat \in [Lists -> [head : Objects \cup {NULL}, tail : Objects \cup {NULL}]]
         /\ m.tmp \in [Lists -> [head : Objects \cup {NULL}, tail : Objects \cup {NULL}]]
BY DEF Memories

Pointers == Objects \cup {NULL}
EndsOf == [Lists -> [head : Pointers, tail : Pointers]]

LEMMA PutParts ==
  ASSUME NEW m \in Memories
  PROVE  /\ \A f \in [Objects -> Pointers] :
              LET a == [m EXCEPT !.next = f] IN
              /\ a \in Memories /\ a.next = f /\ a.prev = m.prev
              /\ a.fat = m.fat /\ a.tmp = m.tmp
         /\ \A f \in [Objects -> Pointers] :
              LET a == [m EXCEPT !.prev = f] IN
              /\ a \in Memories /\ a.next = m.next /\ a.prev = f
              /\ a.fat = m.fat /\ a.tmp = m.tmp
         /\ \A f \in EndsOf :
              LET a == [m EXCEPT !.fat = f] IN
              /\ a \in Memories /\ a.next = m.next /\ a.prev = m.prev
              /\ a.fat = f /\ a.tmp = m.tmp
         /\ \A f \in EndsOf :
              LET a == [m EXCEPT !.tmp = f] IN
              /\ a \in Memories /\ a.next = m.next /\ a.prev = m.prev
              /\ a.fat = m.fat /\ a.tmp = f
BY DEF Memories, Pointers, EndsOf

LEMMA PutEnds ==
  ASSUME NEW f \in EndsOf, NEW k \in Lists, NEW p \in Pointers
  PROVE  /\ [f EXCEPT ![k].head = p] \in EndsOf
         /\ [f EXCEPT ![k].tail = p] \in EndsOf
         /\ \A q \in Pointers : [f EXCEPT ![k] = [head |-> p, tail |-> q]] \in EndsOf
<1>1. f[k] \in [head : Pointers, tail : Pointers]
  BY DEF EndsOf
<1>2. /\ [f[k] EXCEPT !.head = p] \in [head : Pointers, tail : Pointers]
      /\ [f[k] EXCEPT !.tail = p] \in [head : Pointers, tail : Pointers]
  BY <1>1
<1> QED BY <1>1, <1>2 DEF EndsOf

(* The first half of dequeue(), at a node that is in a list, or in none. *)
LEMMA OffHeadIs ==
  ASSUME NEW m \in Memories, NEW o \in Objects, NEW k \in Lists,
         m.next[o] = NULL => Ending(m, "head", o) = {k},
         NEW p, p = m.prev[o]
  PROVE  /\ OffHead(m, o) \in Memories
         /\ OffHead(m, o).next = IF p = NULL THEN m.next
                                 ELSE [m.next EXCEPT ![p] = m.next[o]]
         /\ OffHead(m, o).prev = m.prev
         /\ OffHead(m, o).fat = IF m.next[o] = NULL THEN [m.fat EXCEPT ![k].head = p]
                                ELSE m.fat
         /\ OffHead(m, o).tmp = m.tmp
<1>1. p \in Objects \cup {NULL} /\ m.next[o] \in Objects \cup {NULL}
  BY DEF Memories
<1>2. CASE m.next[o] # NULL
  <2>1. OffHead(m, o) = IF p = NULL THEN m ELSE [m EXCEPT !.next[p] = m.next[o]]
    BY <1>2 DEF OffHead
  <2> QED BY SMTT(40), <1>1, <1>2, <2>1 DEF Memories
<1>3. CASE m.next[o] = NULL
  <2>1. First({k}) = k
    BY Numbers DEF First
  <2> DEFINE a == [m EXCEPT !.fat[k].head = p]
  <2>2. OffHead(m, o) = IF p = NULL THEN a ELSE [a EXCEPT !.next[p] = NULL]
    BY <1>3, <2>1 DEF OffHead
  <2> DEFINE f == [m.fat EXCEPT ![k].head = p]
  <2>3. f \in EndsOf
    BY <1>1, MemoryParts, PutEnds DEF EndsOf, Pointers
  <2>4. a = [m EXCEPT !.fat = f]
    OBVIOUS
  <2> HIDE DEF a, f
  <2>5. /\ a \in Memories /\ a.next = m.next /\ a.prev = m.prev
        /\ a.fat = f /\ a.tmp = m.tmp
    BY <2>3, <2>4, PutParts
  <2>6. CASE p = NULL
    BY <1>3, <2>2, <2>5, <2>6 DEF f
  <2>7. CASE p # NULL
    <3> DEFINE g == [a.next EXCEPT ![p] = NULL]
    <3>1. g \in [Objects -> Pointers]
      BY <1>1, <2>5, <2>7, MemoryParts DEF Pointers
    <3>2. [a EXCEPT !.next[p] = NULL] = [a EXCEPT !.next = g]
      OBVIOUS
    <3>3. OffHead(m, o) = [a EXCEPT !.next = g]
      BY <2>2, <2>7, <3>2
    <3> HIDE DEF g
    <3>4. LET b == [a EXCEPT !.next = g] IN
          /\ b \in Memories /\ b.next = g /\ b.prev = a.prev
          /\ b.fat = a.fat /\ b.tmp = a.tmp
      BY <2>5, <3>1, PutParts
    <3> QED BY <1>3, <2>5, <2>7, <3>3, <3>4 DEF f, g
  <2> QED BY <2>6, <2>7
<1> QED BY <1>2, <1>3

LEMMA OffTailIs ==
  ASSUME NEW m \in Memories, NEW o \in Objects, NEW k \in Lists,
         m.prev[o] = NULL => Ending(m, "tail", o) = {k},
         NEW n, n = m.next[o]
  PROVE  /\ OffTail(m, o) \in Memories
         /\ OffTail(m, o).next = m.next
         /\ OffTail(m, o).prev = IF n = NULL THEN m.prev
                                 ELSE [m.prev EXCEPT ![n] = m.prev[o]]
         /\ OffTail(m, o).fat = IF m.prev[o] = NULL THEN [m.fat EXCEPT ![k].tail = n]
                                ELSE m.fat
         /\ OffTail(m, o).tmp = m.tmp
<1>1. n \in Objects \cup {NULL} /\ m.prev[o] \in Objects \cup {NULL}
  BY DEF Memories
<1>2. CASE m.prev[o] # NULL
  <2>1. OffTail(m, o) = IF n = NULL THEN m ELSE [m EXCEPT !.prev[n] = m.prev[o]]
    BY <1>2 DEF OffTail
  <2> QED BY SMTT(40), <1>1, <1>2, <2>1 DEF Memories
<1>3. CASE m.prev[o] = NULL
  <2>1. First({k}) = k
    BY Numbers DEF First
  <2> DEFINE a == [m EXCEPT !.fat[k].tail = n]
  <2>2. OffTail(m, o) = IF n = NULL THEN a ELSE [a EXCEPT !.prev[n] = NULL]
    BY <1>3, <2>1 DEF OffTail
  <2> DEFINE f == [m.fat EXCEPT ![k].tail = n]
  <2>3. f \in EndsOf
    BY <1>1, MemoryParts, PutEnds DEF EndsOf, Pointers
  <2>4. a = [m EXCEPT !.fat = f]
    OBVIOUS
  <2> HIDE DEF a, f
  <2>5. /\ a \in Memories /\ a.next = m.next /\ a.prev = m.prev
        /\ a.fat = f /\ a.tmp = m.tmp
    BY <2>3, <2>4, PutParts
  <2>6. CASE n = NULL
    BY <1>3, <2>2, <2>5, <2>6 DEF f
  <2>7. CASE n # NULL
    <3> DEFINE g == [a.prev EXCEPT ![n] = NULL]
    <3>1. g \in [Objects -> Pointers]
      BY <1>1, <2>5, <2>7, MemoryParts DEF Pointers
    <3>2. [a EXCEPT !.prev[n] = NULL] = [a EXCEPT !.prev = g]
      OBVIOUS
    <3>3. OffTail(m, o) = [a EXCEPT !.prev = g]
      BY <2>2, <2>7, <3>2
    <3> HIDE DEF g
    <3>4. LET b == [a EXCEPT !.prev = g] IN
          /\ b \in Memories /\ b.prev = g /\ b.next = a.next
          /\ b.fat = a.fat /\ b.tmp = a.tmp
      BY <2>5, <3>1, PutParts
    <3> QED BY <1>3, <2>5, <2>7, <3>3, <3>4 DEF f, g
  <2> QED BY <2>6, <2>7
<1> QED BY <1>2, <1>3

(* d is m without the node o, whose neighbours p and n are linked, at one  *)
(* end of list k if it has only one.                                       *)
TakenOff(d, m, o, k, p, n) ==
  /\ d \in Memories
  /\ \A x \in Objects : d.next[x] = IF x = o THEN NULL ELSE IF x = p THEN n ELSE m.next[x]
  /\ \A x \in Objects : d.prev[x] = IF x = o THEN NULL ELSE IF x = n THEN p ELSE m.prev[x]
  /\ \A j \in Lists \ {k} : d.fat[j] = m.fat[j]
  /\ d.fat[k].head = IF n = NULL THEN p ELSE m.fat[k].head
  /\ d.fat[k].tail = IF p = NULL THEN n ELSE m.fat[k].tail
  /\ d.tmp = m.tmp

LEMMA DequeueIs ==
  ASSUME NEW m \in Memories, NEW o \in Objects, NEW k \in Lists,
         NEW p, p = m.prev[o], p # o, NEW n, n = m.next[o], n # o,
         n = NULL => Ending(m, "head", o) = {k},
         p = NULL => Ending(m, "tail", o) = {k}
  PROVE  TakenOff(Dequeue(m, o), m, o, k, p, n)
<1> DEFINE a == OffHead(m, o)
           b == OffTail(a, o)
<1>0. p \in Pointers /\ n \in Pointers /\ NULL \notin Objects /\ NULL \in Pointers
  BY MemoryParts, FatUdpAssumption DEF Pointers
<1>1. /\ a \in Memories
      /\ a.next = IF p = NULL THEN m.next ELSE [m.next EXCEPT ![p] = n]
      /\ a.prev = m.prev
      /\ a.fat = IF n = NULL THEN [m.fat EXCEPT ![k].head = p] ELSE m.fat
      /\ a.tmp = m.tmp
  BY OffHeadIs
<1> HIDE DEF a
<1>2. a.prev[o] = p /\ a.next[o] = n
  BY <1>1, MemoryParts
<1>3. Ending(a, "tail", o) = Ending(m, "tail", o)
  <2>1. \A l \in Lists : a.fat[l].tail = m.fat[l].tail
    BY <1>1, MemoryParts
  <2> QED BY <2>1 DEF Ending
<1>3a. a.prev[o] = NULL => Ending(a, "tail", o) = {k}
  BY <1>2, <1>3
<1>4. /\ b \in Memories
      /\ b.next = a.next
      /\ b.prev = IF n = NULL THEN a.prev ELSE [a.prev EXCEPT ![n] = p]
      /\ b.fat = IF p = NULL THEN [a.fat EXCEPT ![k].tail = n] ELSE a.fat
      /\ b.tmp = a.tmp
  <2>1. /\ b \in Memories
        /\ b.next = a.next
        /\ b.prev = IF a.next[o] = NULL THEN a.prev
                    ELSE [a.prev EXCEPT ![a.next[o]] = a.prev[o]]
        /\ b.fat = IF a.prev[o] = NULL THEN [a.fat EXCEPT ![k].tail = a.next[o]]
                   ELSE a.fat
        /\ b.tmp = a.tmp
    BY ZenonT(60), <1>1, <1>3a, OffTailIs
  <2> HIDE DEF b
  <2> QED BY <1>2, <2>1
<1> HIDE DEF b
<1> DEFINE c == [b EXCEPT !.prev = [b.prev EXCEPT ![o] = NULL]]
           d == [c EXCEPT !.next = [c.next EXCEPT ![o] = NULL]]
<1>5. Dequeue(m, o) = [b EXCEPT !.prev[o] = NULL, !.next[o] = NULL]
  BY DEF Dequeue, a, b
<1>6. [b EXCEPT !.prev[o] = NULL, !.next[o] = NULL] = d
  OBVIOUS
<1>7. /\ c \in Memories /\ c.next = b.next /\ c.prev = [b.prev EXCEPT ![o] = NULL]
      /\ c.fat = b.fat /\ c.tmp = b.tmp
  <2>1. [b.prev EXCEPT ![o] = NULL] \in [Objects -> Pointers]
    BY <1>0, <1>4, MemoryParts DEF Pointers
  <2> QED BY <1>4, <2>1, PutParts
<1> HIDE DEF c
<1>8. /\ d \in Memories /\ d.next = [c.next EXCEPT ![o] = NULL] /\ d.prev = c.prev
      /\ d.fat = c.fat /\ d.tmp = c.tmp
  <2>1. [c.next EXCEPT ![o] = NULL] \in [Objects -> Pointers]
    BY <1>0, <1>7, MemoryParts DEF Pointers
  <2> QED BY <1>7, <2>1, PutParts
<1> HIDE DEF d
<1>9. \A x \in Objects : d.next[x] = IF x = o THEN NULL ELSE IF x = p THEN n ELSE m.next[x]
  BY <1>0, <1>1, <1>4, <1>7, <1>8, MemoryParts DEF Pointers
<1>10. \A x \in Objects : d.prev[x] = IF x = o THEN NULL ELSE IF x = n THEN p ELSE m.prev[x]
  BY <1>0, <1>1, <1>4, <1>7, <1>8, MemoryParts DEF Pointers
<1>11. /\ \A j \in Lists \ {k} : d.fat[j] = m.fat[j]
       /\ d.fat[k].head = IF n = NULL THEN p ELSE m.fat[k].head
       /\ d.fat[k].tail = IF p = NULL THEN n ELSE m.fat[k].tail
  <2>1. /\ \A j \in Lists \ {k} : a.fat[j] = m.fat[j]
        /\ a.fat[k].head = IF n = NULL THEN p ELSE m.fat[k].head
        /\ a.fat[k].tail = m.fat[k].tail
    BY <1>1, MemoryParts
  <2>2. /\ \A j \in Lists \ {k} : b.fat[j] = a.fat[j]
        /\ b.fat[k].head = a.fat[k].head
        /\ b.fat[k].tail = IF p = NULL THEN n ELSE a.fat[k].tail
    BY <1>1, <1>4, MemoryParts
  <2> QED BY <1>7, <1>8, <2>1, <2>2
<1>12. d.tmp = m.tmp
  BY <1>1, <1>4, <1>7, <1>8
<1> QED BY ZenonT(60), <1>5, <1>6, <1>8, <1>9, <1>10, <1>11, <1>12 DEF TakenOff

(* A node on no list is left alone. *)
LEMMA DequeueNone ==
  ASSUME NEW m, NEW Q, NEW L, Rep(m, Q, L), NEW o \in Objects,
         \A l \in Lists : o \notin Members(Q[l]) /\ o \notin Members(L[l])
  PROVE  Dequeue(m, o) = m
<1>1. m \in Memories /\ m.next[o] = NULL /\ m.prev[o] = NULL
  BY DEF Rep, Linked
<1>2. o # NULL
  BY FatUdpAssumption
<1>3. \A l \in Lists : m.fat[l].head # o /\ m.fat[l].tail # o
  <2> SUFFICES ASSUME NEW l \in Lists PROVE m.fat[l].head # o /\ m.fat[l].tail # o
    OBVIOUS
  <2>1. Q[l] \in Seq(Objects) /\ Ends(m.fat[l], Q[l])
    BY DEF Rep, Linked
  <2>2. CASE Q[l] = <<>>
    BY <1>2, <2>1, <2>2 DEF Ends
  <2>3. CASE Q[l] # <<>>
    <3>1. Len(Q[l]) \in Nat \ {0}
      BY <2>1, <2>3, EmptySeq
    <3>2. 1 \in 1 .. Len(Q[l]) /\ Len(Q[l]) \in 1 .. Len(Q[l])
      BY <3>1
    <3>3. Q[l][1] \in Members(Q[l]) /\ Q[l][Len(Q[l])] \in Members(Q[l])
      BY <3>2 DEF Members
    <3> QED BY <2>1, <2>3, <3>3 DEF Ends
  <2> QED BY <2>2, <2>3
<1>4. Ending(m, "head", o) = {} /\ Ending(m, "tail", o) = {}
  BY <1>3 DEF Ending
<1>5. OffHead(m, o) = m
  BY <1>1, <1>4 DEF OffHead
<1>6. OffTail(m, o) = m
  BY <1>1, <1>4 DEF OffTail
<1>7. Dequeue(m, o) = [m EXCEPT !.prev[o] = NULL, !.next[o] = NULL]
  BY <1>5, <1>6 DEF Dequeue
<1>8. [m.prev EXCEPT ![o] = NULL] = m.prev /\ [m.next EXCEPT ![o] = NULL] = m.next
  BY <1>1, MemoryParts
<1>9. [m EXCEPT !.prev = m.prev, !.next = m.next] = m
  BY <1>1 DEF Memories
<1>10. [m EXCEPT !.prev[o] = NULL, !.next[o] = NULL]
         = [m EXCEPT !.prev = [m.prev EXCEPT ![o] = NULL], !.next = [m.next EXCEPT ![o] = NULL]]
  OBVIOUS
<1> QED BY <1>7, <1>8, <1>9, <1>10

-----------------------------------------------------------------------------
(* What they do to the lists. *)

LEMMA ChainFrom ==
  ASSUME NEW Q \in [Lists -> Seq(Objects)], NEW L \in [Lists -> Seq(Objects)],
         NEW U \in [Both -> Seq(Objects)],
         \A l \in Lists : U[l] = Q[l] /\ U[l + MaxFatList] = L[l]
  PROVE  Chain(Q, L) = U
<1>1. ASSUME NEW k \in Both
      PROVE  (IF k < MaxFatList THEN Q[k] ELSE L[k - MaxFatList]) = U[k]
  <2>1. CASE k < MaxFatList
    BY <2>1, Numbers
  <2>2. CASE ~(k < MaxFatList)
    <3>1. k - MaxFatList \in Lists /\ k \in Int /\ MaxFatList \in Int
      BY <2>2, Numbers
    <3>2. (k - MaxFatList) + MaxFatList = k
      BY <3>1
    <3>3. U[(k - MaxFatList) + MaxFatList] = L[k - MaxFatList]
      BY <3>1
    <3> QED BY <2>2, <3>2, <3>3
  <2> QED BY <2>1, <2>2
<1> QED BY <1>1 DEF Chain

LEMMA Indices ==
  /\ \A l \in Lists : l \in Both /\ l + MaxFatList \in Both
  /\ \A l, j \in Lists : l # j + MaxFatList /\ (l + MaxFatList = j + MaxFatList => l = j)
BY Numbers

(* dequeue() takes a node off its queue. *)
LEMMA DequeueTakesOff ==
  ASSUME NEW m, NEW Q, NEW L, Rep(m, Q, L),
         NEW k \in Lists, NEW i \in 1 .. Len(Q[k]), NEW o, o = Q[k][i]
  PROVE  Rep(Dequeue(m, o), [Q EXCEPT ![k] = Fifo!Without(Q[k], o)], L)
<1> DEFINE s == Q[k]
           w == Fifo!Without(s, o)
           S == Chain(Q, L)
           d == Dequeue(m, o)
           T == [Q EXCEPT ![k] = w]
           e == Len(s)
<1>1. m \in Memories /\ Q \in [Lists -> Seq(Objects)] /\ L \in [Lists -> Seq(Objects)]
  BY DEF Rep, Linked
<1>2. /\ s \in Seq(Objects) /\ e \in Int /\ e >= 1 /\ s # <<>>
      /\ \A j \in 1 .. e : s[j] \in Objects /\ s[j] # NULL
  <2>1. s \in Seq(Objects)
    BY <1>1
  <2>2. e \in Nat
    BY <2>1, LenProperties
  <2>3. \A j \in 1 .. e : s[j] \in Objects
    BY <2>1, ElementOfSeq
  <2>4. s # <<>>
    <3> SUFFICES ASSUME s = <<>> PROVE FALSE
      OBVIOUS
    <3>1. e = 0
      BY EmptySeq
    <3> QED BY <3>1
  <2> QED BY <2>1, <2>2, <2>3, <2>4, FatUdpAssumption
<1>3. \A a, b \in 1 .. e : s[a] = s[b] => a = b
  BY DEF Rep, OnePlace
<1> HIDE DEF e
<1>4. i \in 1 .. e
  BY DEF e
<1>5. o \in Objects /\ o = s[i]
  BY <1>2, <1>4
<1>6. /\ m.next[o] = IF i = 1 THEN NULL ELSE s[i - 1]
      /\ m.prev[o] = IF i = e THEN NULL ELSE s[i + 1]
  BY <1>4, <1>5 DEF Rep, Linked, Chained, e
<1>7. /\ i # 1 => i - 1 \in 1 .. e /\ s[i - 1] # NULL /\ s[i - 1] # o
      /\ i # e => i + 1 \in 1 .. e /\ s[i + 1] # NULL /\ s[i + 1] # o
  BY <1>2, <1>3, <1>4, <1>5
<1>8. m.next[o] # o /\ m.prev[o] # o
  BY <1>2, <1>4, <1>5, <1>6, <1>7
<1>9. (m.next[o] = NULL <=> i = 1) /\ (m.prev[o] = NULL <=> i = e)
  BY <1>6, <1>7
<1>10. Ends(m.fat[k], s)
  BY DEF Rep, Linked
<1>11. \A j \in Lists \ {k} : o # m.fat[j].head /\ o # m.fat[j].tail
  <2> SUFFICES ASSUME NEW j \in Lists, j # k
               PROVE  o # m.fat[j].head /\ o # m.fat[j].tail
    OBVIOUS
  <2>1. Q[j] \in Seq(Objects) /\ Ends(m.fat[j], Q[j])
    BY DEF Rep, Linked
  <2>2. CASE Q[j] = <<>>
    BY <1>2, <1>4, <1>5, <2>1, <2>2 DEF Ends
  <2>3. CASE Q[j] # <<>>
    <3>1. Len(Q[j]) \in Nat \ {0}
      BY <2>1, <2>3, EmptySeq
    <3>2. 1 \in 1 .. Len(Q[j]) /\ Len(Q[j]) \in 1 .. Len(Q[j])
      BY <3>1
    <3>3. \A h \in 1 .. Len(Q[j]) : Q[k][i] # Q[j][h]
      BY DEF Rep, OnePlace
    <3> QED BY <2>1, <2>3, <3>2, <3>3 DEF Ends
  <2> QED BY <2>2, <2>3
<1>12. (i = 1 => Ending(m, "head", o) = {k}) /\ (i = e => Ending(m, "tail", o) = {k})
  <2>1. i = 1 => m.fat[k].head = o
    BY <1>2, <1>5, <1>10 DEF Ends
  <2>2. i = e => m.fat[k].tail = o
    BY <1>2, <1>5, <1>10 DEF Ends, e
  <2> QED BY <1>11, <2>1, <2>2 DEF Ending
<1> DEFINE p == m.prev[o]
           n == m.next[o]
<1>13a. TakenOff(d, m, o, k, p, n)
  <2>1. n = NULL => Ending(m, "head", o) = {k}
    BY <1>9, <1>12
  <2>2. p = NULL => Ending(m, "tail", o) = {k}
    BY <1>9, <1>12
  <2>3. p = m.prev[o] /\ n = m.next[o] /\ p # o /\ n # o
    BY <1>8
  <2> HIDE DEF p, n
  <2> QED BY <1>1, <1>5, <2>1, <2>2, <2>3, DequeueIs
<1> HIDE DEF d
<1>13. /\ d \in Memories
       /\ \A x \in Objects : d.next[x] = IF x = o THEN NULL ELSE IF x = p THEN n ELSE m.next[x]
       /\ \A x \in Objects : d.prev[x] = IF x = o THEN NULL ELSE IF x = n THEN p ELSE m.prev[x]
       /\ \A j \in Lists \ {k} : d.fat[j] = m.fat[j]
       /\ d.fat[k].head = IF n = NULL THEN p ELSE m.fat[k].head
       /\ d.fat[k].tail = IF p = NULL THEN n ELSE m.fat[k].tail
       /\ d.tmp = m.tmp
  BY <1>13a DEF TakenOff
<1>14. /\ w \in Seq(Objects) /\ Len(w) = e - 1
       /\ \A j \in 1 .. e - 1 : w[j] = s[IF j < i THEN j ELSE j + 1]
  BY <1>2, <1>3, <1>4, <1>5, WithoutIs DEF e
<1> HIDE DEF w
<1>15. T \in [Lists -> Seq(Objects)]
  BY <1>1, <1>14
<1>16. Listed(Both, Chain(T, L), d.next, d.prev)
  <2>1. Listed(Both, S, m.next, m.prev)
    BY ToListed
  <2>2. k \in Both /\ S[k] = s
    BY <1>1, ChainOf, Numbers
  <2>3. Chain(T, L) = [S EXCEPT ![k] = w]
    <3> DEFINE U == [S EXCEPT ![k] = w]
    <3>1. S \in [Both -> Seq(Objects)]
      BY <1>1, ChainOf
    <3>2. U \in [Both -> Seq(Objects)]
      <4> HIDE DEF S
      <4> QED BY <1>14, <3>1
    <3>3. \A l \in Lists : U[l] = T[l] /\ U[l + MaxFatList] = L[l]
      <4>1. \A l \in Lists : S[l] = Q[l] /\ S[l + MaxFatList] = L[l]
        BY <1>1, ChainOf
      <4> HIDE DEF S
      <4> QED BY <1>1, <1>14, <3>1, <4>1, Indices
    <3> HIDE DEF T, U
    <3>4. Chain(T, L) = U
      BY <1>1, <1>15, <3>2, <3>3, ChainFrom
    <3> QED BY <3>4 DEF U
  <2> HIDE DEF S, T
  <2>4. \A x \in Objects : d.next[x] =
           IF x = S[k][i] THEN NULL
           ELSE IF i < Len(S[k]) /\ x = S[k][i + 1] THEN m.next[S[k][i]] ELSE m.next[x]
    <3> SUFFICES ASSUME NEW x \in Objects
                 PROVE  d.next[x] =
                          IF x = o THEN NULL ELSE IF i < e /\ x = s[i + 1] THEN n ELSE m.next[x]
      BY <1>5, <2>2 DEF e
    <3>1. x = p <=> i < e /\ x = s[i + 1]
      BY <1>2, <1>4, <1>6, FatUdpAssumption
    <3> QED BY <1>13, <3>1
  <2>5. \A x \in Objects : d.prev[x] =
           IF x = S[k][i] THEN NULL
           ELSE IF i > 1 /\ x = S[k][i - 1] THEN m.prev[S[k][i]] ELSE m.prev[x]
    <3> SUFFICES ASSUME NEW x \in Objects
                 PROVE  d.prev[x] =
                          IF x = o THEN NULL ELSE IF i > 1 /\ x = s[i - 1] THEN p ELSE m.prev[x]
      BY <1>5, <2>2 DEF e
    <3>1. x = n <=> i > 1 /\ x = s[i - 1]
      BY <1>2, <1>4, <1>6, FatUdpAssumption
    <3> QED BY <1>13, <3>1
  <2>6. i \in 1 .. Len(S[k])
    BY <1>4, <2>2 DEF e
  <2>7. Listed(Both, [S EXCEPT ![k] = Fifo!Without(S[k], S[k][i])], d.next, d.prev)
    BY <2>1, <2>2, <2>4, <2>5, <2>6, TakeOff
  <2>8. Fifo!Without(S[k], S[k][i]) = w
    BY <1>5, <2>2 DEF w
  <2> QED BY <2>3, <2>7, <2>8
<1>17. \A l \in Lists : Ends(d.fat[l], T[l]) /\ Ends(d.tmp[l], L[l])
  <2> SUFFICES ASSUME NEW l \in Lists
               PROVE  Ends(d.fat[l], T[l]) /\ Ends(d.tmp[l], L[l])
    OBVIOUS
  <2>1. Ends(m.fat[l], Q[l]) /\ Ends(m.tmp[l], L[l])
    BY DEF Rep, Linked
  <2>2. CASE l # k
    BY <1>1, <1>13, <2>1, <2>2
  <2>3. CASE l = k
    <3>1. T[k] = w
      BY <1>1
    <3>2. m.fat[k].head = s[1] /\ m.fat[k].tail = s[e]
      BY <1>2, <1>10 DEF Ends, e
    <3>3. CASE w = <<>>
      <4>1. e = 1 /\ i = 1
        <5>1. Len(w) = 0
          BY <3>3, EmptySeq
        <5> QED BY <1>2, <1>4, <1>14, <5>1
      <4>2. n = NULL /\ p = NULL
        BY <1>9, <4>1
      <4> QED BY <1>13, <2>1, <2>3, <3>1, <3>3, <4>2 DEF Ends
    <3>4. CASE w # <<>>
      <4>1. e > 1
        <5>1. Len(w) \in Nat \ {0}
          BY <1>14, <3>4, EmptySeq
        <5> QED BY <1>2, <1>14, <5>1
      <4>2. d.fat[k].head = w[1]
        <5>1. 1 \in 1 .. e - 1
          BY <1>2, <4>1
        <5>2. w[1] = s[IF 1 < i THEN 1 ELSE 2]
          BY <1>14, <5>1
        <5>3. CASE i = 1
          BY <1>6, <1>9, <1>13, <4>1, <5>2, <5>3
        <5>4. CASE i # 1
          BY <1>4, <1>9, <1>13, <3>2, <5>2, <5>4
        <5> QED BY <5>3, <5>4
      <4>3. d.fat[k].tail = w[e - 1]
        <5>1. e - 1 \in 1 .. e - 1
          BY <1>2, <4>1
        <5>2. w[e - 1] = s[IF e - 1 < i THEN e - 1 ELSE e]
          BY <1>2, <1>14, <5>1
        <5>3. CASE i = e
          BY <1>2, <1>6, <1>9, <1>13, <4>1, <5>2, <5>3
        <5>4. CASE i # e
          BY <1>2, <1>4, <1>9, <1>13, <3>2, <5>2, <5>4
        <5> QED BY <5>3, <5>4
      <4> QED BY <1>13, <1>14, <2>1, <2>3, <3>1, <3>4, <4>2, <4>3 DEF Ends
    <3> QED BY <3>3, <3>4
  <2> QED BY <2>2, <2>3
<1> HIDE DEF T
<1>18. Rep(d, T, L)
  BY <1>1, <1>13, <1>15, <1>16, <1>17, FromListed
<1> QED BY <1>18 DEF d, T, w

(* What the ends of a list are. *)
LEMMA EndsAre ==
  ASSUME NEW e, NEW s \in Seq(Objects), Ends(e, s)
  PROVE  /\ s = <<>> <=> e.head = NULL
         /\ s = <<>> <=> e.tail = NULL
         /\ s # <<>> => /\ Len(s) \in Int /\ Len(s) >= 1
                        /\ 1 \in 1 .. Len(s) /\ Len(s) \in 1 .. Len(s)
                        /\ e.head = s[1] /\ e.tail = s[Len(s)]
                        /\ s[1] \in Objects /\ s[Len(s)] \in Objects
<1>1. CASE s = <<>>
  BY <1>1 DEF Ends
<1>2. CASE s # <<>>
  <2>1. Len(s) \in Nat \ {0}
    BY <1>2, EmptySeq
  <2>2. 1 \in 1 .. Len(s) /\ Len(s) \in 1 .. Len(s)
    BY <2>1
  <2>3. s[1] \in Objects /\ s[Len(s)] \in Objects
    BY <2>2, ElementOfSeq
  <2>4. NULL \notin Objects
    BY FatUdpAssumption
  <2> QED BY <1>2, <2>1, <2>2, <2>3, <2>4 DEF Ends
<1> QED BY <1>1, <1>2

(* enqueue() adds a node that is on no list to a temporary list. *)
LEMMA EnqueueAdds ==
  ASSUME NEW m, NEW Q, NEW L, Rep(m, Q, L), NEW k \in Lists, NEW o \in Objects,
         \A l \in Lists : o \notin Members(Q[l]) /\ o \notin Members(L[l])
  PROVE  Rep(Enqueue(m, o, k), Q, [L EXCEPT ![k] = Append(L[k], o)])
<1> DEFINE s == L[k]
           w == Append(s, o)
           S == Chain(Q, L)
           d == Enqueue(m, o, k)
           T == [L EXCEPT ![k] = w]
           t == m.tmp[k].tail
<1>1. m \in Memories /\ Q \in [Lists -> Seq(Objects)] /\ L \in [Lists -> Seq(Objects)]
  BY DEF Rep, Linked
<1>2. s \in Seq(Objects) /\ Ends(m.tmp[k], s)
  BY <1>1 DEF Rep, Linked
<1>3. /\ s = <<>> <=> m.tmp[k].head = NULL
      /\ s = <<>> <=> t = NULL
      /\ s # <<>> => /\ Len(s) \in Int /\ Len(s) >= 1
                     /\ 1 \in 1 .. Len(s) /\ Len(s) \in 1 .. Len(s)
                     /\ m.tmp[k].head = s[1] /\ t = s[Len(s)]
                     /\ s[1] \in Objects /\ s[Len(s)] \in Objects
  <2> HIDE DEF s
  <2> QED BY <1>2, EndsAre
<1>4. \A j \in 1 .. Len(s) : s[j] # o
  BY DEF Members
<1>5. NULL \notin Objects /\ o \in Pointers /\ m.next[o] = NULL /\ m.prev[o] = NULL
  BY FatUdpAssumption DEF Rep, Linked, Pointers
<1>6. /\ w \in Seq(Objects) /\ Len(w) = Len(s) + 1 /\ w # <<>>
      /\ \A j \in 1 .. Len(s) : w[j] = s[j]
      /\ w[Len(s) + 1] = o
  BY <1>2, AppendProperties
<1>7. T \in [Lists -> Seq(Objects)] /\ T[k] = w /\ \A l \in Lists \ {k} : T[l] = L[l]
  BY <1>1, <1>6
<1>8. /\ d \in Memories /\ d.fat = m.fat
      /\ \A x \in Objects : d.next[x] = IF x = o THEN t ELSE m.next[x]
      /\ \A x \in Objects : d.prev[x] = IF x = t THEN o ELSE m.prev[x]
      /\ \A l \in Lists \ {k} : d.tmp[l] = m.tmp[l]
      /\ d.tmp[k].head = IF t = NULL THEN o ELSE m.tmp[k].head
      /\ d.tmp[k].tail = o
  <2>1. CASE t = NULL
    <3> DEFINE f == [m.tmp EXCEPT ![k] = [head |-> o, tail |-> o]]
    <3>1. f \in EndsOf
      BY <1>1, <1>5, MemoryParts, PutEnds DEF EndsOf, Pointers
    <3>2. d = [m EXCEPT !.tmp = f]
      BY <2>1 DEF Enqueue
    <3>3. f[k].head = o /\ f[k].tail = o /\ \A l \in Lists \ {k} : f[l] = m.tmp[l]
      BY <1>1, MemoryParts
    <3> HIDE DEF d, f
    <3>4. d \in Memories /\ d.next = m.next /\ d.prev = m.prev /\ d.fat = m.fat /\ d.tmp = f
      BY <1>1, <3>1, <3>2, PutParts
    <3> QED BY <1>5, <2>1, <3>3, <3>4
  <2>2. CASE t # NULL
    <3>1. t \in Objects
      BY <1>3, <2>2
    <3> HIDE DEF t
    <3> DEFINE a == [m EXCEPT !.next = [m.next EXCEPT ![o] = t]]
               b == [a EXCEPT !.prev = [a.prev EXCEPT ![t] = o]]
               c == [b EXCEPT !.tmp = [b.tmp EXCEPT ![k].tail = o]]
    <3>2. d = c
      BY <2>2 DEF Enqueue, t
    <3>3. /\ a \in Memories /\ a.next = [m.next EXCEPT ![o] = t] /\ a.prev = m.prev
          /\ a.fat = m.fat /\ a.tmp = m.tmp
      <4>1. [m.next EXCEPT ![o] = t] \in [Objects -> Pointers]
        BY <1>1, <3>1, MemoryParts DEF Pointers
      <4> QED BY <1>1, <4>1, PutParts
    <3> HIDE DEF a
    <3>4. /\ b \in Memories /\ b.next = a.next /\ b.prev = [a.prev EXCEPT ![t] = o]
          /\ b.fat = a.fat /\ b.tmp = a.tmp
      <4>1. [a.prev EXCEPT ![t] = o] \in [Objects -> Pointers]
        BY <1>5, <3>3, MemoryParts DEF Pointers
      <4> QED BY <3>3, <4>1, PutParts
    <3> HIDE DEF b
    <3> DEFINE f == [b.tmp EXCEPT ![k].tail = o]
    <3>5. f \in EndsOf
      BY <1>5, <3>4, MemoryParts, PutEnds DEF EndsOf, Pointers
    <3>6. /\ c \in Memories /\ c.next = b.next /\ c.prev = b.prev
          /\ c.fat = b.fat /\ c.tmp = f
      BY <3>4, <3>5, PutParts
    <3>7. /\ \A l \in Lists \ {k} : f[l] = m.tmp[l]
          /\ f[k].head = m.tmp[k].head /\ f[k].tail = o
      BY <1>1, <3>3, <3>4, MemoryParts
    <3> HIDE DEF c, d, f
    <3>8. \A x \in Objects : d.next[x] = IF x = o THEN t ELSE m.next[x]
      BY <1>1, <3>2, <3>3, <3>4, <3>6, MemoryParts
    <3>9. \A x \in Objects : d.prev[x] = IF x = t THEN o ELSE m.prev[x]
      BY <1>1, <3>1, <3>2, <3>3, <3>4, <3>6, MemoryParts
    <3> QED BY <2>2, <3>2, <3>3, <3>4, <3>6, <3>7, <3>8, <3>9 DEF t
  <2> QED BY <2>1, <2>2
<1> HIDE DEF d, w, t
<1>9. Listed(Both, Chain(Q, T), d.next, d.prev)
  <2> DEFINE h == k + MaxFatList
  <2>1. Listed(Both, S, m.next, m.prev)
    BY ToListed
  <2>2. /\ S \in [Both -> Seq(Objects)] /\ h \in Both /\ S[h] = s
        /\ \A l \in Lists : S[l] = Q[l] /\ S[l + MaxFatList] = L[l]
    BY <1>1, ChainOf, Indices
  <2>3. \A j \in Both : o \notin Members(S[j])
    <3>1. \A j \in Both : \/ j \in Lists /\ S[j] = Q[j]
                          \/ j - MaxFatList \in Lists /\ S[j] = L[j - MaxFatList]
      BY ZenonT(60), <1>1, ChainOf
    <3> HIDE DEF S
    <3> QED BY <3>1
  <2> HIDE DEF S
  <2>4. /\ Chain(Q, T) \in [Both -> Seq(Objects)]
        /\ Chain(Q, T)[h] = w /\ \A j \in Both \ {h} : Chain(Q, T)[j] = S[j]
    <3> DEFINE U == Chain(Q, T)
    <3> HIDE DEF T
    <3>1. /\ U \in [Both -> Seq(Objects)]
          /\ \A l \in Lists : U[l] = Q[l] /\ U[l + MaxFatList] = T[l]
      BY <1>1, <1>7, ChainOf
    <3>2. \A j \in Both : \/ j \in Lists /\ U[j] = Q[j]
                          \/ /\ j - MaxFatList \in Lists /\ ~(j < MaxFatList)
                             /\ U[j] = T[j - MaxFatList]
      BY ZenonT(60), <1>1, <1>7, ChainOf
    <3>3. \A j \in Both : \/ j \in Lists /\ j < MaxFatList /\ S[j] = Q[j]
                          \/ /\ j - MaxFatList \in Lists
                             /\ S[j] = L[j - MaxFatList]
      BY ZenonT(60), <1>1, ChainOf DEF S
    <3>4. \A j \in Both \ {h} : j - MaxFatList # k
      <4>1. k \in Int /\ MaxFatList \in Int /\ \A j \in Both : j \in Int
        BY Numbers
      <4> QED BY <4>1
    <3> HIDE DEF U
    <3>5. ASSUME NEW j \in Both \ {h} PROVE U[j] = S[j]
      <4>1. CASE j \in Lists
        BY <2>2, <3>1, <4>1
      <4>2. CASE j \notin Lists
        <5>1. j - MaxFatList \in Lists /\ U[j] = T[j - MaxFatList] /\ S[j] = L[j - MaxFatList]
          BY <3>2, <3>3, <4>2
        <5> QED BY <1>7, <3>4, <5>1
      <4> QED BY <4>1, <4>2
    <3>6. U[h] = w
      BY <1>7, <3>1
    <3> QED BY <3>1, <3>5, <3>6 DEF U
  <2> HIDE DEF h
  <2>5. Adds(S[h], o, m.next, m.prev, d.next, d.prev)
    <3> HIDE DEF s
    <3>1. \A x \in Objects : x = t <=> (s # <<>> /\ x = s[Len(s)])
      BY <1>3, <1>5
    <3>2. \A x \in Objects : d.prev[x] =
            IF s # <<>> /\ x = s[Len(s)] THEN o ELSE m.prev[x]
      BY <1>8, <3>1
    <3>3. t = IF s = <<>> THEN NULL ELSE s[Len(s)]
      BY <1>3
    <3>4. \A x \in Objects : d.next[x] =
            IF x = o THEN (IF s = <<>> THEN NULL ELSE s[Len(s)]) ELSE m.next[x]
      BY <1>8, <3>3
    <3>5. Adds(s, o, m.next, m.prev, d.next, d.prev)
      BY <3>2, <3>4 DEF Adds
    <3> QED BY <2>2, <3>5
  <2> DEFINE U == Chain(Q, T)
  <2>6. Replaced(Both, S, U, h, Append(S[h], o))
    BY <2>2, <2>4 DEF w, Replaced
  <2> HIDE DEF U
  <2>7. Listed(Both, U, d.next, d.prev)
    BY <2>1, <2>2, <2>3, <2>5, <2>6, AddOn
  <2> QED BY <2>7 DEF U
<1>10. \A l \in Lists : Ends(d.fat[l], Q[l]) /\ Ends(d.tmp[l], T[l])
  <2> SUFFICES ASSUME NEW l \in Lists
               PROVE  Ends(d.fat[l], Q[l]) /\ Ends(d.tmp[l], T[l])
    OBVIOUS
  <2>1. Ends(m.fat[l], Q[l]) /\ Ends(m.tmp[l], L[l])
    BY DEF Rep, Linked
  <2>2. CASE l # k
    BY <1>7, <1>8, <2>1, <2>2
  <2>3. CASE l = k
    <3>1. d.tmp[k].tail = w[Len(w)]
      BY <1>6, <1>8
    <3>2. d.tmp[k].head = w[1]
      <4>1. CASE s = <<>>
        <5>1. Len(s) = 0
          BY <4>1, EmptySeq
        <5> QED BY <1>3, <1>6, <1>8, <4>1, <5>1
      <4>2. CASE s # <<>>
        BY <1>3, <1>6, <1>8, <4>2
      <4> QED BY <4>1, <4>2
    <3> QED BY <1>6, <1>7, <1>8, <2>1, <2>3, <3>1, <3>2 DEF Ends
  <2> QED BY <2>2, <2>3
<1> HIDE DEF T
<1>11. Rep(d, Q, T)
  BY <1>1, <1>7, <1>8, <1>9, <1>10, FromListed
<1> QED BY <1>11 DEF d, T, w

(* fatMerge() puts a temporary list behind its queue. *)
LEMMA MergeJoins ==
  ASSUME NEW m, NEW Q, NEW L, Rep(m, Q, L), NEW k \in Lists
  PROVE  Rep(MergeList(m, k), [Q EXCEPT ![k] = Q[k] \o L[k]], [L EXCEPT ![k] = <<>>])
<1> DEFINE s == Q[k]
           t == L[k]
           w == s \o t
           d == MergeList(m, k)
           P == [Q EXCEPT ![k] = w]
           R == [L EXCEPT ![k] = <<>>]
           f == m.fat[k]
           e == m.tmp[k]
           S == Chain(Q, L)
           h == k + MaxFatList
<1>1. m \in Memories /\ Q \in [Lists -> Seq(Objects)] /\ L \in [Lists -> Seq(Objects)]
  BY DEF Rep, Linked
<1>2. s \in Seq(Objects) /\ t \in Seq(Objects) /\ Ends(f, s) /\ Ends(e, t)
  BY <1>1 DEF Rep, Linked
<1>3. /\ s = <<>> <=> f.head = NULL
      /\ s # <<>> => /\ Len(s) \in Int /\ Len(s) >= 1 /\ f.head = s[1] /\ f.tail = s[Len(s)]
                     /\ s[1] \in Objects /\ s[Len(s)] \in Objects
  <2> HIDE DEF s, f
  <2> QED BY <1>2, EndsAre
<1>4. /\ t = <<>> <=> e.head = NULL
      /\ t # <<>> => /\ Len(t) \in Int /\ Len(t) >= 1 /\ e.head = t[1] /\ e.tail = t[Len(t)]
                     /\ t[1] \in Objects /\ t[Len(t)] \in Objects
  <2> HIDE DEF t, e
  <2> QED BY <1>2, EndsAre
<1>5. /\ w \in Seq(Objects) /\ (t = <<>> => w = s) /\ (s = <<>> => w = t)
      /\ s # <<>> /\ t # <<>> => /\ w # <<>> /\ w[1] = s[1]
                                 /\ w[Len(w)] = t[Len(t)]
  <2> DEFINE n == Len(s)
             l == Len(t)
  <2>1. w \in Seq(Objects) /\ Len(w) = n + l
        /\ \A j \in 1 .. n + l : w[j] = IF j <= n THEN s[j] ELSE t[j - n]
    <3> HIDE DEF s, t
    <3> QED BY <1>2, ConcatProperties
  <2>2. (t = <<>> => w = s) /\ (s = <<>> => w = t)
    <3> HIDE DEF s, t
    <3> QED BY <1>2, ConcatEmptySeq
  <2>3. s # <<>> /\ t # <<>> => n \in Int /\ l \in Int /\ n >= 1 /\ l >= 1
    BY <1>3, <1>4
  <2> HIDE DEF n, l, w
  <2>4. s # <<>> /\ t # <<>> => w # <<>> /\ w[1] = s[1] /\ w[n + l] = t[l]
    <3> SUFFICES ASSUME s # <<>>, t # <<>>
                 PROVE  w # <<>> /\ w[1] = s[1] /\ w[n + l] = t[l]
      OBVIOUS
    <3>1. /\ 1 \in 1 .. n + l /\ n + l \in 1 .. n + l /\ 1 <= n /\ ~(n + l <= n)
          /\ (n + l) - n = l /\ n + l # 0
      BY <2>3
    <3>2. w # <<>>
      BY <2>1, <3>1, EmptySeq
    <3> QED BY <2>1, <3>1, <3>2
  <2> QED BY <2>1, <2>2, <2>4 DEF l
<1>6. <<>> \in Seq(Objects)
  BY EmptySeq
<1> HIDE DEF w
<1>7. /\ P \in [Lists -> Seq(Objects)] /\ P[k] = w /\ \A l \in Lists \ {k} : P[l] = Q[l]
      /\ R \in [Lists -> Seq(Objects)] /\ R[k] = <<>> /\ \A l \in Lists \ {k} : R[l] = L[l]
  BY <1>1, <1>5, <1>6
<1> HIDE DEF d, P, R
<1>8. /\ S[k] = s /\ S[h] = t /\ k \in Both /\ h \in Both /\ h # k
      /\ Listed(Both, S, m.next, m.prev)
  <2>1. S[k] = s /\ S[h] = t
    BY <1>1, ChainOf
  <2>2. k \in Both /\ h \in Both /\ h # k
    BY Indices
  <2>3. Listed(Both, S, m.next, m.prev)
    BY ToListed
  <2> QED BY <2>1, <2>2, <2>3
<1>9. Joined(Both, S, Chain(P, R), k, h)
  <2> DEFINE U == Chain(P, R)
  <2>1. /\ U \in [Both -> Seq(Objects)]
        /\ \A l \in Lists : U[l] = P[l] /\ U[l + MaxFatList] = R[l]
    BY <1>7, ChainOf
  <2>2. \A j \in Both : \/ j \in Lists /\ U[j] = P[j]
                        \/ /\ j - MaxFatList \in Lists /\ ~(j < MaxFatList)
                           /\ U[j] = R[j - MaxFatList]
    BY <1>7, ChainOf
  <2>3. \A j \in Both : \/ j \in Lists /\ j < MaxFatList /\ S[j] = Q[j]
                        \/ j - MaxFatList \in Lists /\ S[j] = L[j - MaxFatList]
    BY <1>1, ChainOf
  <2>4. \A j \in Both \ {h} : j - MaxFatList # k
    <3>1. k \in Int /\ MaxFatList \in Int /\ \A j \in Both : j \in Int
      BY Numbers
    <3> QED BY <3>1
  <2>5. \A l \in Lists : S[l] = Q[l]
    BY <1>1, ChainOf
  <2> HIDE DEF U, S
  <2>6. ASSUME NEW j \in Both \ {k, h} PROVE U[j] = S[j]
    <3>1. CASE j \in Lists
      BY <1>7, <2>1, <2>5, <3>1
    <3>2. CASE j \notin Lists
      <4>1. j - MaxFatList \in Lists /\ U[j] = R[j - MaxFatList] /\ S[j] = L[j - MaxFatList]
        BY <2>2, <2>3, <3>2
      <4> QED BY <1>7, <2>4, <4>1
    <3> QED BY <3>1, <3>2
  <2>7. U[k] = S[k] \o S[h] /\ U[h] = <<>>
    BY <1>7, <1>8, <2>1 DEF w
  <2>8. Joined(Both, S, U, k, h)
    BY <2>1, <2>6, <2>7 DEF Joined
  <2> QED BY <2>8 DEF U
<1> HIDE DEF S, h
<1>10. CASE t = <<>>
  <2>1. P = Q /\ R = L
    BY <1>1, <1>5, <1>10 DEF P, R
  <2>2. d = m
    BY <1>4, <1>10 DEF d, MergeList
  <2>3. Rep(d, P, R)
    BY <2>1, <2>2
  <2> QED BY <2>3 DEF d, P, R, w
<1>11. CASE t # <<>> /\ s = <<>>
  <2> DEFINE x == [m.fat EXCEPT ![k] = e]
             y == [m.tmp EXCEPT ![k] = None]
             a == [m EXCEPT !.fat = x]
             b == [a EXCEPT !.tmp = y]
  <2>1. x \in EndsOf /\ y \in EndsOf
    <3>1. e \in [head : Pointers, tail : Pointers] /\ None \in [head : Pointers, tail : Pointers]
      BY <1>1, MemoryParts DEF Pointers, None
    <3> QED BY <1>1, <3>1, MemoryParts DEF EndsOf, Pointers
  <2>2. d = [m EXCEPT !.fat = x, !.tmp = y]
    BY <1>3, <1>4, <1>11 DEF d, MergeList
  <2>3. /\ x[k] = e /\ \A l \in Lists \ {k} : x[l] = m.fat[l]
        /\ y[k] = None /\ \A l \in Lists \ {k} : y[l] = m.tmp[l]
    BY <1>1, MemoryParts
  <2> HIDE DEF x, y
  <2>4. a \in Memories /\ a.next = m.next /\ a.prev = m.prev /\ a.fat = x /\ a.tmp = m.tmp
    BY <1>1, <2>1, PutParts
  <2>5. d = b
    BY <2>2
  <2> HIDE DEF a
  <2>6. b \in Memories /\ b.next = a.next /\ b.prev = a.prev /\ b.fat = a.fat /\ b.tmp = y
    BY <2>1, <2>4, PutParts
  <2> HIDE DEF b
  <2>7. /\ d \in Memories /\ d.next = m.next /\ d.prev = m.prev /\ d.fat = x /\ d.tmp = y
    BY <2>4, <2>5, <2>6
  <2>8. Listed(Both, Chain(P, R), d.next, d.prev)
    <3>1. S[k] = <<>>
      BY <1>8, <1>11
    <3> QED BY <1>8, <1>9, <2>7, <3>1, Moves
  <2>9. \A l \in Lists : Ends(d.fat[l], P[l]) /\ Ends(d.tmp[l], R[l])
    <3>1. \A l \in Lists : Ends(m.fat[l], Q[l]) /\ Ends(m.tmp[l], L[l])
      BY DEF Rep, Linked
    <3>2. Ends(d.fat[k], P[k])
      BY <1>2, <1>5, <1>7, <1>11, <2>3, <2>7
    <3>3. Ends(d.tmp[k], R[k])
      BY <1>7, <2>3, <2>7 DEF Ends, None
    <3> QED BY <1>7, <2>3, <2>7, <3>1, <3>2, <3>3
  <2>10. Rep(d, P, R)
    BY <1>7, <2>7, <2>8, <2>9, FromListed
  <2> QED BY <2>10 DEF d, P, R, w
<1>12. CASE t # <<>> /\ s # <<>>
  <2> DEFINE n == [m.next EXCEPT ![e.head] = f.tail]
             p == [m.prev EXCEPT ![f.tail] = e.head]
             x == [m.fat EXCEPT ![k].tail = e.tail]
             y == [m.tmp EXCEPT ![k] = None]
             a == [m EXCEPT !.next = n]
             b == [a EXCEPT !.prev = p]
             c == [b EXCEPT !.fat = x]
             g == [c EXCEPT !.tmp = y]
  <2>1. d = [m EXCEPT !.next = n, !.prev = p, !.fat = x, !.tmp = y]
    BY <1>3, <1>4, <1>12 DEF d, MergeList
  <2>2. e.head \in Objects /\ f.tail \in Objects /\ e.tail \in Pointers
        /\ e.head \in Pointers /\ f.tail \in Pointers
    BY <1>3, <1>4, <1>12 DEF Pointers
  <2>3. n \in [Objects -> Pointers] /\ p \in [Objects -> Pointers] /\ x \in EndsOf /\ y \in EndsOf
    <3>1. n \in [Objects -> Pointers] /\ p \in [Objects -> Pointers]
      BY <1>1, <2>2, MemoryParts DEF Pointers
    <3>2. x \in EndsOf
      BY <1>1, <2>2, MemoryParts, PutEnds DEF EndsOf, Pointers
    <3>3. None \in [head : Pointers, tail : Pointers]
      BY DEF Pointers, None
    <3>4. y \in EndsOf
      BY <1>1, <3>3, MemoryParts DEF EndsOf, Pointers
    <3> QED BY <3>1, <3>2, <3>4
  <2>4. /\ \A z \in Objects : n[z] = IF z = e.head THEN f.tail ELSE m.next[z]
        /\ \A z \in Objects : p[z] = IF z = f.tail THEN e.head ELSE m.prev[z]
    BY <1>1, <2>2, MemoryParts
  <2>5. /\ x[k].head = f.head /\ x[k].tail = e.tail /\ \A l \in Lists \ {k} : x[l] = m.fat[l]
        /\ y[k] = None /\ \A l \in Lists \ {k} : y[l] = m.tmp[l]
    BY <1>1, MemoryParts
  <2> HIDE DEF n, p, x, y
  <2>6. d = g
    BY <2>1
  <2>7. a \in Memories /\ a.next = n /\ a.prev = m.prev /\ a.fat = m.fat /\ a.tmp = m.tmp
    BY SMTT(40), <1>1, <2>3, PutParts
  <2> HIDE DEF a
  <2>8. b \in Memories /\ b.next = a.next /\ b.prev = p /\ b.fat = a.fat /\ b.tmp = a.tmp
    BY <2>3, <2>7, PutParts
  <2> HIDE DEF b
  <2>9. c \in Memories /\ c.next = b.next /\ c.prev = b.prev /\ c.fat = x /\ c.tmp = b.tmp
    BY <2>3, <2>8, PutParts
  <2> HIDE DEF c
  <2>10. g \in Memories /\ g.next = c.next /\ g.prev = c.prev /\ g.fat = c.fat /\ g.tmp = y
    BY <2>3, <2>9, PutParts
  <2> HIDE DEF g
  <2>11. d \in Memories /\ d.next = n /\ d.prev = p /\ d.fat = x /\ d.tmp = y
    BY <2>6, <2>7, <2>8, <2>9, <2>10
  <2>12. Listed(Both, Chain(P, R), d.next, d.prev)
    <3>1. Splices(S[k], S[h], m.next, m.prev, d.next, d.prev)
      <4>1. e.head = t[1] /\ f.tail = s[Len(s)]
        BY <1>3, <1>4, <1>12
      <4>2. Splices(s, t, m.next, m.prev, d.next, d.prev)
        BY <2>4, <2>11, <4>1 DEF Splices
      <4> QED BY <1>8, <4>2
    <3>2. S[k] # <<>> /\ S[h] # <<>>
      BY <1>8, <1>12
    <3> QED BY <1>8, <1>9, <3>1, <3>2, Joins
  <2>13. \A l \in Lists : Ends(d.fat[l], P[l]) /\ Ends(d.tmp[l], R[l])
    <3>1. \A l \in Lists : Ends(m.fat[l], Q[l]) /\ Ends(m.tmp[l], L[l])
      BY DEF Rep, Linked
    <3>2. Ends(d.fat[k], P[k])
      <4>1. d.fat[k].head = w[1] /\ d.fat[k].tail = w[Len(w)] /\ w # <<>>
        BY <1>3, <1>4, <1>5, <1>12, <2>5, <2>11
      <4> QED BY <1>7, <4>1 DEF Ends
    <3>3. Ends(d.tmp[k], R[k])
      BY <1>7, <2>5, <2>11 DEF Ends, None
    <3> QED BY <1>7, <2>5, <2>11, <3>1, <3>2, <3>3
  <2>14. Rep(d, P, R)
    BY <1>7, <2>11, <2>12, <2>13, FromListed
  <2> QED BY <2>14 DEF d, P, R, w
<1> QED BY <1>10, <1>11, <1>12

-----------------------------------------------------------------------------
(* What an update does with the lists. *)

(* No packet is left behind where Without takes it out. *)
LEMMA WithoutMembers ==
  ASSUME NEW s \in Seq(Objects), NEW o \in Objects,
         \A a, b \in 1 .. Len(s) : s[a] = s[b] => a = b
  PROVE  /\ Members(Fifo!Without(s, o)) = Members(s) \ {o}
         /\ o \notin Members(s) => Fifo!Without(s, o) = s
<1> DEFINE w == Fifo!Without(s, o)
<1>1. CASE o \notin Members(s)
  <2>1. \A i \in 1 .. Len(s) : s[i] # o
    BY <1>1 DEF Members
  <2>2. w = s
    BY <2>1 DEF Fifo!Without
  <2> QED BY <1>1, <2>2
<1>2. CASE o \in Members(s)
  <2>1. PICK i \in 1 .. Len(s) : s[i] = o
    BY <1>2 DEF Members
  <2> DEFINE n == Len(s)
  <2>2. /\ Len(w) = n - 1
        /\ \A j \in 1 .. n - 1 : w[j] = s[IF j < i THEN j ELSE j + 1]
    BY <2>1, WithoutIs
  <2>3. n \in Nat
    BY LenProperties
  <2>4. i \in 1 .. n /\ \A a \in 1 .. n : s[a] = o => a = i
    BY <2>1
  <2> HIDE DEF n, w
  <2>5. ASSUME NEW j \in 1 .. n - 1
        PROVE  w[j] \in {s[a] : a \in 1 .. n} \ {o}
    <3>1. /\ (IF j < i THEN j ELSE j + 1) \in 1 .. n
          /\ (IF j < i THEN j ELSE j + 1) # i
      BY <2>3, <2>4
    <3> QED BY <2>2, <2>4, <3>1
  <2>6. ASSUME NEW a \in 1 .. n, s[a] # o
        PROVE  \E j \in 1 .. n - 1 : w[j] = s[a]
    <3>1. a # i
      BY <2>1, <2>6
    <3>2. CASE a < i
      <4>1. a \in 1 .. n - 1
        BY <2>3, <2>4, <3>2
      <4> QED BY <2>2, <3>2, <4>1
    <3>3. CASE i < a
      <4>1. a - 1 \in 1 .. n - 1 /\ ~(a - 1 < i) /\ (a - 1) + 1 = a
        BY <2>3, <2>4, <3>3
      <4> QED BY <2>2, <4>1
    <3> QED BY <2>4, <3>1, <3>2, <3>3
  <2>7. Members(w) = {w[j] : j \in 1 .. n - 1} /\ Members(s) = {s[a] : a \in 1 .. n}
    BY <2>2 DEF Members, n
  <2> QED BY <1>2, <2>5, <2>6, <2>7 DEF w
<1> QED BY <1>1, <1>2

LEMMA AppendMembers ==
  ASSUME NEW s \in Seq(Objects), NEW o \in Objects
  PROVE  /\ Members(Append(s, o)) = Members(s) \cup {o}
         /\ Append(s, o) # <<>>
<1> DEFINE n == Len(s)
           w == Append(s, o)
<1>1. n \in Nat
  BY LenProperties
<1>2. /\ Len(w) = n + 1 /\ w # <<>>
      /\ \A i \in 1 .. n : w[i] = s[i]
      /\ w[n + 1] = o
  BY AppendProperties
<1>3. Members(w) = {w[i] : i \in 1 .. n + 1} /\ Members(s) = {s[i] : i \in 1 .. n}
  BY <1>2 DEF Members
<1> HIDE DEF w, n
<1>4. {w[i] : i \in 1 .. n + 1} = {s[i] : i \in 1 .. n} \cup {o}
  <2>1. \A i \in 1 .. n + 1 : i \in 1 .. n \/ i = n + 1
    BY <1>1
  <2>2. \A i \in 1 .. n : i \in 1 .. n + 1
    BY <1>1
  <2>3. n + 1 \in 1 .. n + 1
    BY <1>1
  <2> QED BY <1>2, <2>1, <2>2, <2>3
<1> QED BY <1>2, <1>3, <1>4 DEF w

(* updateFat(): the packet leaves whatever queue it is on. *)
LEMMA DequeueFromAll ==
  ASSUME NEW m, NEW Q, NEW L, Rep(m, Q, L), NEW o \in Objects,
         \A l \in Lists : o \notin Members(L[l])
  PROVE  /\ Rep(Dequeue(m, o), [l \in Lists |-> Fifo!Without(Q[l], o)], L)
         /\ \A l \in Lists : o \notin Members([j \in Lists |-> Fifo!Without(Q[j], o)][l])
<1> DEFINE T == [l \in Lists |-> Fifo!Without(Q[l], o)]
<1>1. /\ Q \in [Lists -> Seq(Objects)]
      /\ \A l \in Lists : \A a, b \in 1 .. Len(Q[l]) : Q[l][a] = Q[l][b] => a = b
      /\ \A l, k \in Lists : \A a \in 1 .. Len(Q[l]), b \in 1 .. Len(Q[k]) :
           Q[l][a] = Q[k][b] => l = k
  BY DEF Rep, Linked, OnePlace
<1>2. \A l \in Lists : /\ T[l] = Fifo!Without(Q[l], o)
                       /\ Members(T[l]) = Members(Q[l]) \ {o}
                       /\ o \notin Members(Q[l]) => T[l] = Q[l]
  BY <1>1, WithoutMembers
<1>3. CASE \A l \in Lists : o \notin Members(Q[l])
  <2>1. T = Q
    BY <1>1, <1>2, <1>3
  <2>2. Dequeue(m, o) = m
    BY <1>3, DequeueNone
  <2> HIDE DEF T
  <2> QED BY <1>2, <2>1, <2>2 DEF T
<1>4. CASE \E k \in Lists : o \in Members(Q[k])
  <2>1. PICK k \in Lists : o \in Members(Q[k])
    BY <1>4
  <2>2. PICK i \in 1 .. Len(Q[k]) : o = Q[k][i]
    BY <2>1 DEF Members
  <2> DEFINE R == [Q EXCEPT ![k] = Fifo!Without(Q[k], o)]
  <2>3. Rep(Dequeue(m, o), R, L)
    BY <2>2, DequeueTakesOff
  <2>4. \A l \in Lists : l # k => o \notin Members(Q[l])
    BY <1>1, <2>2 DEF Members
  <2>5. T = R
    BY <1>1, <1>2, <2>4
  <2> HIDE DEF T, R
  <2> QED BY <1>2, <2>3, <2>5 DEF T
<1> QED BY <1>3, <1>4

(* Without temporary lists, all that reset_fat_list() leaves is empty. *)
LEMMA ResetRep ==
  ASSUME NEW m, m = Unlinked
  PROVE  Rep(m, Fifo!Nothing, Fifo!Nothing)
<1>1. Lists = Fifo!Lists
  BY DEF Lists, Fifo!Lists
<1>2. /\ <<>> \in Seq(Objects) /\ Len(<<>>) = 0
  BY EmptySeq
<1>3. /\ Fifo!Nothing \in [Lists -> Seq(Objects)]
      /\ \A l \in Lists : Fifo!Nothing[l] = <<>>
  BY <1>1, <1>2 DEF Fifo!Nothing
<1>4. Members(<<>>) = {}
  BY <1>2 DEF Members
<1>5. /\ m \in Memories
      /\ \A l \in Lists : m.fat[l] = None /\ m.tmp[l] = None
      /\ \A o \in Objects : m.next[o] = NULL /\ m.prev[o] = NULL
  BY DEF Unlinked, Memories, None
<1>6. Linked(m, Fifo!Nothing, Fifo!Nothing)
  BY <1>2, <1>3, <1>5 DEF Linked, Ends, Chained, None
<1>7. OnePlace(Fifo!Nothing, Fifo!Nothing)
  BY <1>2, <1>3 DEF OnePlace
<1> QED BY <1>5, <1>6, <1>7 DEF Rep

-----------------------------------------------------------------------------
(* The invariant: the lists, the types, and what an update has done so far. *)
Typed ==
  /\ commMode \in {"TCP", "UDP"} /\ udpMode \in {"SIMPLE", "FAT"}
  /\ {udpSock, clientDead} \subseteq BOOLEAN
  /\ dirty \subseteq Objects /\ todo \subseteq Objects /\ sending \subseteq Objects
  /\ pc \in {"read", "update", "fatten", "send", "merge", "gone"}
  /\ list \in Lists /\ fatp \in Objects \cup {NULL} /\ bytesleft \in 0 .. MaxFatData
  /\ fresh \in [Objects -> BOOLEAN]
Control ==
  /\ commMode = "UDP" => udpSock
  /\ pc = "update" => /\ ~clientDead /\ Waiting \subseteq {0}
                      /\ todo \cap Members(Later[0]) = {}
                      /\ udpMode = "FAT" => sending \subseteq Members(Later[0])
  /\ pc \in {"update", "fatten", "send"} /\ Waiting # {} => udpMode = "FAT"
  /\ pc = "fatten" => /\ udpSock /\ udpMode = "FAT"
                      /\ fatp \in Members(Queue[list]) \cup {NULL}
  /\ pc = "merge" => \A l \in Waiting : list <= l
  /\ pc \in {"read", "gone"} => Waiting = {}
  /\ pc \in {"read", "gone", "merge"} => sending = {}

LEMMA Parts ==
  /\ FatInv <=> Rep(mem, Queue, Later) /\ Typed /\ Control
  /\ FatInv' <=> Rep(mem, Queue, Later)' /\ Typed' /\ Control'
<1>1. FatInv <=> Rep(mem, Queue, Later) /\ Typed /\ Control
  BY Zenon DEF FatInv, TypeOK, Rep, Typed, Control
<1>2. FatInv' <=> Rep(mem, Queue, Later)' /\ Typed' /\ Control'
  BY Zenon DEF FatInv, TypeOK, Rep, Typed, Control
<1> QED BY <1>1, <1>2

(* The lists after a step are those that its pointers represent. *)
LEMMA NewLists ==
  ASSUME NEW Q, NEW L, Rep(mem', Q, L)
  PROVE  Queue' = Q /\ Later' = L /\ Rep(mem, Queue, Later)'
<1>1. /\ Q = [l \in Lists |-> Walk(mem'.prev, mem'.fat[l].head)]
      /\ L = [l \in Lists |-> Walk(mem'.prev, mem'.tmp[l].head)]
  BY ListsAre
<1>2. Queue' = Q /\ Later' = L
  BY <1>1, Zenon DEF Queue, Later
<1>3. Rep(mem', Queue', Later')
  BY <1>2
<1> QED BY <1>2, <1>3 DEF Rep

(* A step that leaves the pointers alone leaves the lists alone. *)
LEMMA SameLists ==
  ASSUME mem' = mem, Rep(mem, Queue, Later)
  PROVE  /\ Queue' = Queue /\ Later' = Later /\ Waiting' = Waiting
         /\ Rep(mem, Queue, Later)'
<1>1. Rep(mem', Queue, Later)
  BY DEF Rep
<1>2. Queue' = Queue /\ Later' = Later /\ Rep(mem, Queue, Later)'
  BY <1>1, NewLists
<1> QED BY <1>2 DEF Waiting

LEMMA ListTypes ==
  ASSUME Rep(mem, Queue, Later)
  PROVE  /\ Queue \in [Lists -> Seq(Objects)] /\ Later \in [Lists -> Seq(Objects)]
         /\ \A l \in Lists : /\ \A a, b \in 1 .. Len(Queue[l]) :
                                  Queue[l][a] = Queue[l][b] => a = b
                             /\ l \notin Waiting => Members(Later[l]) = {}
                             /\ l \notin Waiting => Later[l] = <<>>
         /\ \A l, k \in Lists : Members(Queue[l]) \cap Members(Later[k]) = {}
<1>1. /\ Queue \in [Lists -> Seq(Objects)] /\ Later \in [Lists -> Seq(Objects)]
  BY DEF Rep, Linked
<1>2. \A l \in Lists : \A a, b \in 1 .. Len(Queue[l]) : Queue[l][a] = Queue[l][b] => a = b
  BY DEF Rep, OnePlace
<1>3. \A l \in Lists : l \notin Waiting => Later[l] = <<>>
  BY DEF Waiting
<1>4. Members(<<>>) = {}
  BY EmptySeq DEF Members
<1>5. \A l, k \in Lists : Members(Queue[l]) \cap Members(Later[k]) = {}
  BY DEF Rep, OnePlace, Members
<1> QED BY <1>1, <1>2, <1>3, <1>4, <1>5

LEMMA Zero == 0 \in Lists /\ Fifo!Lists = Lists
BY Numbers DEF Lists, Fifo!Lists

(* fatten() begins a list at its head. *)
LEMMA HeadOfList ==
  ASSUME Rep(mem, Queue, Later), NEW l \in Lists
  PROVE  mem.fat[l].head \in Members(Queue[l]) \cup {NULL}
<1>1. Queue[l] \in Seq(Objects) /\ Ends(mem.fat[l], Queue[l])
  BY DEF Rep, Linked
<1>2. CASE Queue[l] = <<>>
  BY <1>1, <1>2 DEF Ends
<1>3. CASE Queue[l] # <<>>
  <2>1. Len(Queue[l]) \in Nat /\ Len(Queue[l]) # 0
    BY <1>1, <1>3, EmptySeq
  <2>2. 1 \in 1 .. Len(Queue[l])
    BY <2>1
  <2>3. mem.fat[l].head = Queue[l][1]
    BY <1>1, <1>3 DEF Ends
  <2> QED BY <2>2, <2>3 DEF Members
<1> QED BY <1>2, <1>3

(* fatten() steps from a node of a list to the next of the same list. *)
LEMMA NextOnList ==
  ASSUME NEW m, NEW Q, NEW L, Rep(m, Q, L), NEW l \in Lists,
         NEW o \in Members(Q[l]) \cup {NULL}, o # NULL
  PROVE  m.prev[o] \in (Members(Q[l]) \ {o}) \cup {NULL}
<1>1. PICK i \in 1 .. Len(Q[l]) : Q[l][i] = o
  BY DEF Members
<1>2. /\ Q[l] \in Seq(Objects)
      /\ \A a, b \in 1 .. Len(Q[l]) : Q[l][a] = Q[l][b] => a = b
      /\ m.prev[Q[l][i]] = IF i = Len(Q[l]) THEN NULL ELSE Q[l][i + 1]
  <2>1. Q[l] \in Seq(Objects) /\ Chained(m.next, m.prev, Q[l])
    BY DEF Rep, Linked
  <2>2. \A a, b \in 1 .. Len(Q[l]) : Q[l][a] = Q[l][b] => a = b
    BY DEF Rep, OnePlace
  <2>3. m.prev[Q[l][i]] = IF i = Len(Q[l]) THEN NULL ELSE Q[l][i + 1]
    BY <2>1 DEF Chained
  <2> QED BY <2>1, <2>2, <2>3
<1>3. Len(Q[l]) \in Nat
  BY <1>2, LenProperties
<1>4. i # Len(Q[l]) => i + 1 \in 1 .. Len(Q[l]) /\ i + 1 # i
  BY <1>3
<1>5. i # Len(Q[l]) => Q[l][i + 1] \in Members(Q[l]) \ {o}
  BY <1>1, <1>2, <1>4 DEF Members
<1> QED BY <1>1, <1>2, <1>5

-----------------------------------------------------------------------------
(* One lemma per action: it keeps the invariant, and what it does with the *)
(* lists is a step of the queues or none.                                  *)

LEMMA InitSound == Init => FatInv /\ Fifo!Init
<1> SUFFICES ASSUME Init PROVE FatInv /\ Fifo!Init
  OBVIOUS
<1>1. Rep(mem, Fifo!Nothing, Fifo!Nothing)
  BY ResetRep DEF Init
<1>2. Queue = Fifo!Nothing /\ Later = Fifo!Nothing
  BY <1>1, ListsAre DEF Queue, Later
<1>3. Rep(mem, Queue, Later)
  BY <1>1, <1>2
<1>4. Waiting = {}
  BY <1>2, Zero DEF Waiting, Fifo!Nothing
<1>5. Typed
  <2>1. 0 \in 0 .. MaxFatData
    BY FatUdpAssumption
  <2>2. fresh \in [Objects -> BOOLEAN] /\ {udpSock, clientDead} \subseteq BOOLEAN
    BY DEF Init
  <2> QED BY <2>1, <2>2, Zero DEF Init, Typed
<1>6. Control
  BY <1>4 DEF Init, Control
<1> QED BY <1>2, <1>3, <1>5, <1>6, Parts DEF Fifo!Init

(* Whatever leaves the pointers alone and keeps the control. *)
LEMMA Quiet ==
  ASSUME FatInv, mem' = mem,
         Queue' = Queue /\ Later' = Later /\ Waiting' = Waiting => Typed' /\ Control'
  PROVE  FatInv' /\ [Fifo!Next]_<<Queue, Later>>
<1>1. Rep(mem, Queue, Later)
  BY Parts
<1>2. Queue' = Queue /\ Later' = Later /\ Waiting' = Waiting /\ Rep(mem, Queue, Later)'
  BY <1>1, SameLists
<1> QED BY <1>2, Parts

LEMMA ChangeSound ==
  ASSUME FatInv, NEW o \in Objects, Change(o)
  PROVE  FatInv' /\ [Fifo!Next]_<<Queue, Later>>
<1>1. Typed /\ Control
  BY Parts
<1>2. mem' = mem
  BY DEF Change
<1>3. Typed'
  BY <1>1 DEF Change, Typed, modes, locals
<1>4. Queue' = Queue /\ Later' = Later /\ Waiting' = Waiting => Control'
  BY <1>1 DEF Change, Control, modes, locals
<1> QED BY <1>2, <1>3, <1>4, Quiet

LEMMA InterruptSound ==
  ASSUME FatInv, ~Late, Interrupt
  PROVE  FatInv' /\ [Fifo!Next]_<<Queue, Later>>
<1>1. Typed /\ Control /\ Rep(mem, Queue, Later)
  BY Parts
<1>2. mem' = mem
  BY DEF Interrupt
<1>3. Typed'
  BY <1>1 DEF Interrupt, Typed, modes, locals, counters
<1>4. Waiting = {} /\ sending = {} /\ ~clientDead
  BY <1>1 DEF Control, Interrupt
<1>5. Members(Later[0]) = {}
  BY <1>1, <1>4, ListTypes, Zero
<1>6. /\ pc' = "update" /\ sending' = sending /\ clientDead' = clientDead
      /\ udpMode' = udpMode /\ commMode' = commMode /\ udpSock' = udpSock
  BY DEF Interrupt, modes
<1>7. Queue' = Queue /\ Later' = Later /\ Waiting' = Waiting => Control'
  BY <1>1, <1>4, <1>5, <1>6 DEF Control
<1> QED BY <1>2, <1>3, <1>7, Quiet

LEMMA FlushSound ==
  ASSUME FatInv, Flush \/ Overfull
  PROVE  FatInv' /\ [Fifo!Next]_<<Queue, Later>>
<1>1. Typed /\ Control /\ Rep(mem, Queue, Later)
  BY Parts
<1>2. mem' = mem /\ list' = 0 /\ pc = "update" /\ ~clientDead
  BY <1>1 DEF Flush, Overfull, Control
<1>3. mem.fat[0].head \in Objects \cup {NULL}
  BY <1>1, MemoryParts, Zero DEF Rep
<1>4. MaxFatData \in 0 .. MaxFatData
  BY FatUdpAssumption
<1>5. Typed'
  <2>1. CASE Flush
    BY <1>1, <1>3, <1>4, <2>1, Zero DEF Flush, Typed, modes, counters
  <2>2. CASE Overfull
    BY <1>1, <2>2, Zero DEF Overfull, Typed, modes, counters
  <2> QED BY <2>1, <2>2
<1>6. mem.fat[0].head \in Members(Queue[0]) \cup {NULL}
  BY <1>1, Zero, HeadOfList
<1>7. Waiting # {} => udpMode = "FAT"
  BY <1>1, <1>2 DEF Control
<1>8. /\ commMode' = commMode /\ udpMode' = udpMode /\ udpSock' = udpSock
      /\ pc' = "send" \/ ( /\ pc' = "fatten" /\ fatp' = mem.fat[0].head
                            /\ udpSock /\ udpMode = "FAT")
  BY <1>2 DEF Flush, Overfull, modes
<1>9. Queue' = Queue /\ Later' = Later /\ Waiting' = Waiting => Control'
  BY <1>1, <1>2, <1>6, <1>7, <1>8 DEF Control
<1> QED BY <1>2, <1>5, <1>9, Quiet

LEMMA TooBigSound ==
  ASSUME FatInv, TooBig
  PROVE  FatInv' /\ [Fifo!Next]_<<Queue, Later>>
<1>1. Typed /\ Control /\ Rep(mem, Queue, Later)
  BY Parts
<1>2. mem' = mem /\ fatp \in Objects /\ fatp' = mem.prev[fatp] /\ list' = list
  BY <1>1 DEF TooBig, Typed
<1>3. mem.prev[fatp] \in Objects \cup {NULL}
  BY <1>1, <1>2, MemoryParts DEF Rep
<1>4. Typed'
  BY <1>1, <1>2, <1>3 DEF TooBig, Typed, modes, counters
<1>5. mem.prev[fatp] \in Members(Queue[list]) \cup {NULL}
  BY <1>1, <1>2, NextOnList DEF TooBig, Control, Typed
<1>6. Queue' = Queue /\ Later' = Later /\ Waiting' = Waiting => Control'
  BY <1>1, <1>2, <1>5 DEF TooBig, Control, modes
<1> QED BY <1>2, <1>4, <1>6, Quiet

LEMMA NextListSound ==
  ASSUME FatInv, NextList
  PROVE  FatInv' /\ [Fifo!Next]_<<Queue, Later>>
<1>1. Typed /\ Control /\ Rep(mem, Queue, Later)
  BY Parts
<1>2. mem' = mem /\ fatp = NULL /\ pc = "fatten" /\ udpMode = "FAT"
  BY <1>1 DEF NextList, Control
<1>3. CASE list + 1 = MaxFatList
  <2>1. pc' = "send" /\ list' = list /\ fatp' = fatp
    BY <1>3 DEF NextList
  <2>2. Typed'
    BY <1>1, <2>1 DEF NextList, Typed, modes, counters
  <2>3. Queue' = Queue /\ Later' = Later /\ Waiting' = Waiting => Control'
    BY <1>1, <1>2, <2>1 DEF NextList, Control, modes
  <2> QED BY <1>2, <2>2, <2>3, Quiet
<1>4. CASE list + 1 # MaxFatList
  <2>1. list' = list + 1 /\ fatp' = mem.fat[list'].head /\ pc' = pc
    BY <1>4 DEF NextList
  <2>2. list' \in Lists
    <3>1. list \in Lists /\ MaxFatList \in Nat
      BY <1>1, FatUdpAssumption DEF Typed
    <3> QED BY <1>4, <2>1, <3>1 DEF Lists
  <2>3. fatp' \in Objects \cup {NULL}
    BY <1>1, <2>1, <2>2, MemoryParts DEF Rep
  <2>4. Typed'
    BY <1>1, <2>1, <2>2, <2>3 DEF NextList, Typed, modes, counters
  <2>5. fatp' \in Members(Queue[list']) \cup {NULL}
    BY <1>1, <2>1, <2>2, HeadOfList
  <2>6. Queue' = Queue /\ Later' = Later /\ Waiting' = Waiting => Control'
    BY <1>1, <1>2, <2>1, <2>5 DEF NextList, Control, modes
  <2> QED BY <1>2, <2>4, <2>6, Quiet
<1> QED BY <1>3, <1>4

(* What a write may do to the connection. *)
LEMMA WriteFacts ==
  ASSUME Typed, Control, Arrives \/ IsLost \/ Fails
  PROVE  /\ commMode' \in {"TCP", "UDP"} /\ udpSock' \in BOOLEAN
         /\ commMode' = "UDP" => udpSock'
         /\ fresh' \in [Objects -> BOOLEAN]
<1>1. fresh' \in [Objects -> BOOLEAN]
  <2>1. CASE Arrives
    <3>1. \A o \in Objects : (fresh[o] \/ (o \in sending /\ o \notin dirty)) \in BOOLEAN
      OBVIOUS
    <3> QED BY <2>1, <3>1, Zenon DEF Arrives
  <2>2. CASE IsLost \/ Fails
    BY <2>2 DEF IsLost, Fails, Typed
  <2> QED BY <2>1, <2>2
<1>2. commMode' \in {"TCP", "UDP"} /\ udpSock' \in BOOLEAN /\ (commMode' = "UDP" => udpSock')
  BY DEF Arrives, IsLost, Fails, Typed, Control
<1> QED BY <1>1, <1>2

LEMMA WritesSound ==
  ASSUME FatInv, Transmit \/ Lose \/ WriteFails
  PROVE  FatInv' /\ [Fifo!Next]_<<Queue, Later>>
<1>1. Typed /\ Control /\ Rep(mem, Queue, Later)
  BY Parts
<1>2. Written /\ (Arrives \/ IsLost \/ Fails)
  BY DEF Transmit, Lose, WriteFails
<1>3. /\ commMode' \in {"TCP", "UDP"} /\ udpSock' \in BOOLEAN
      /\ commMode' = "UDP" => udpSock'
      /\ fresh' \in [Objects -> BOOLEAN]
  BY <1>1, <1>2, WriteFacts
<1>4. /\ mem' = mem /\ pc' \in {"read", "gone", "merge"} /\ sending' = {} /\ list' = 0
      /\ udpMode' = udpMode /\ (pc' = "merge" <=> udpMode = "FAT")
  BY <1>2 DEF Written, Back
<1>5. Typed'
  <2>1. 0 \in 0 .. MaxFatData
    BY FatUdpAssumption
  <2> QED BY <1>1, <1>2, <1>3, <2>1, Zero DEF Written, Back, Typed
<1>6. Waiting # {} => udpMode = "FAT"
  BY <1>1, <1>2 DEF Control, Written
<1>7. \A l \in Waiting : 0 <= l
  BY DEF Waiting, Lists
<1>8. Queue' = Queue /\ Later' = Later /\ Waiting' = Waiting => Control'
  BY <1>3, <1>4, <1>6, <1>7 DEF Control
<1> QED BY <1>4, <1>5, <1>8, Quiet

(* Requests and the client's death do not interrupt an update, unless Late. *)
LEMMA RequestsSound ==
  ASSUME FatInv, ~Late,
         OpenUdp \/ Verify \/ ModeFat \/ ModeSimple \/ FullUpdate \/ ToTcp \/ Die
  PROVE  FatInv' /\ [Fifo!Next]_<<Queue, Later>>
<1>1. Typed /\ Control
  BY Parts
<1>2. /\ mem' = mem /\ pc' = pc /\ sending' = sending /\ todo' = todo
      /\ list' = list /\ fatp' = fatp /\ bytesleft' = bytesleft /\ fresh' = fresh
  BY DEF OpenUdp, Verify, ModeFat, ModeSimple, FullUpdate, ToTcp, Die, Request, locals
<1>3. /\ commMode' \in {"TCP", "UDP"} /\ udpMode' \in {"SIMPLE", "FAT"}
      /\ {udpSock', clientDead'} \subseteq BOOLEAN /\ dirty' \subseteq Objects
      /\ commMode' = "UDP" => udpSock'
  <2>1. CASE OpenUdp \/ Verify \/ ModeSimple \/ ToTcp
    BY <1>1, <2>1 DEF OpenUdp, Verify, ModeSimple, ToTcp, Request, Typed, Control
  <2>2. CASE ModeFat \/ FullUpdate
    BY <1>1, <2>2, FatUdpAssumption
       DEF ModeFat, FullUpdate, forceUpdate, Request, Typed, Control
  <2>3. CASE Die
    BY <1>1, <2>3 DEF Die, Typed, Control
  <2> QED BY <2>1, <2>2, <2>3
<1>4. Typed'
  BY <1>1, <1>2, <1>3 DEF Typed
<1>5. ASSUME Queue' = Queue, Later' = Later, Waiting' = Waiting PROVE Control'
  <2>1. CASE Die
    BY <1>1, <1>2, <1>5, <2>1 DEF Die, Control
  <2>2. CASE ~Die
    <3>1. pc = "read"
      BY <2>2 DEF OpenUdp, Verify, ModeFat, ModeSimple, FullUpdate, ToTcp, Request
    <3> QED BY <1>1, <1>2, <1>3, <1>5, <3>1 DEF Control
  <2> QED BY <2>1, <2>2
<1> QED BY <1>2, <1>4, <1>5, Quiet

LEMMA ReconnectSound ==
  ASSUME FatInv, Reconnect
  PROVE  FatInv' /\ [Fifo!Next]_<<Queue, Later>>
<1>1. Typed /\ Control /\ Rep(mem, Queue, Later)
  BY Parts
<1>2. Waiting = {}
  BY <1>1 DEF Reconnect, Control
<1>3. \A l \in Lists : mem.tmp[l] = None
  <2>1. \A l \in Lists : /\ Ends(mem.tmp[l], <<>>)
                         /\ mem.tmp[l] \in [head : Objects \cup {NULL}, tail : Objects \cup {NULL}]
    BY <1>1, <1>2, ListTypes, MemoryParts DEF Rep, Linked
  <2> QED BY <2>1 DEF Ends, None
<1>4. mem.tmp = [l \in Lists |-> None]
  BY <1>1, <1>3, MemoryParts DEF Rep
<1>5. mem' = Unlinked
  BY <1>4 DEF Reconnect, Unlinked
<1>6. Rep(mem', Fifo!Nothing, Fifo!Nothing)
  BY <1>5, ResetRep
<1>7. Queue' = Fifo!Nothing /\ Later' = Fifo!Nothing /\ Rep(mem, Queue, Later)'
  BY <1>6, NewLists
<1>8. Waiting' = {}
  BY <1>7, Zero DEF Waiting, Fifo!Nothing
<1>9. Typed'
  <2>1. fresh' \in [Objects -> BOOLEAN] /\ {udpSock', clientDead'} \subseteq BOOLEAN
    BY DEF Reconnect
  <2>2. dirty' \subseteq Objects
    BY <1>1, FatUdpAssumption DEF Reconnect, Typed
  <2> QED BY <1>1, <2>1, <2>2 DEF Reconnect, Typed, locals
<1>10. Control'
  BY <1>8 DEF Reconnect, Control
<1> QED BY <1>7, <1>9, <1>10, Parts DEF Fifo!Next, Fifo!Reset

LEMMA JoinMembers ==
  ASSUME NEW s \in Seq(Objects), NEW t \in Seq(Objects), NEW o \in Members(t)
  PROVE  o \in Members(s \o t)
<1> DEFINE n == Len(s)
           k == Len(t)
           w == s \o t
<1>1. n \in Nat /\ k \in Nat
  BY LenProperties
<1>2. Len(w) = n + k /\ \A j \in 1 .. n + k : w[j] = IF j <= n THEN s[j] ELSE t[j - n]
  BY ConcatProperties
<1>3. PICK i \in 1 .. k : t[i] = o
  BY DEF Members
<1> HIDE DEF n, k, w
<1>4. n + i \in 1 .. n + k /\ ~(n + i <= n) /\ (n + i) - n = i
  BY <1>1
<1>5. w[n + i] = o
  BY <1>2, <1>3, <1>4
<1>6. Members(w) = {w[j] : j \in 1 .. n + k}
  BY <1>2 DEF Members
<1> QED BY <1>4, <1>5, <1>6 DEF w

(* updateFat() in fat mode gives up the old place of o for the tail of the *)
(* first temporary list.                                                   *)
LEMMA updateFatSound ==
  ASSUME FatInv, NEW o \in Objects, pc = "update", o \in todo, udpMode = "FAT",
         mem' = updateFat(o)
  PROVE  /\ Rep(mem, Queue, Later)' /\ Fifo!Send(o)
         /\ Members(Later'[0]) = Members(Later[0]) \cup {o}
         /\ \A l \in Lists : l # 0 => Later'[l] = Later[l]
<1> DEFINE Q == [l \in Lists |-> Fifo!Without(Queue[l], o)]
           L == [Later EXCEPT ![0] = Append(Later[0], o)]
           m == Dequeue(mem, o)
<1>1. Typed /\ Control /\ Rep(mem, Queue, Later)
  BY Parts
<1>2. \A l \in Lists : o \notin Members(Later[l])
  BY <1>1, ListTypes DEF Control
<1>3. Rep(m, Q, Later) /\ \A l \in Lists : o \notin Members(Q[l])
  <2>1. Rep(Dequeue(mem, o), Q, Later)
    BY <1>1, <1>2, DequeueFromAll
  <2>2. \A l \in Lists : o \notin Members(Q[l])
    BY <1>1, <1>2, DequeueFromAll
  <2> QED BY <2>1, <2>2
<1>4. mem' = Enqueue(m, o, 0)
  BY DEF updateFat
<1> HIDE DEF m, Q
<1>5. Rep(mem', Q, L)
  <2>1. Rep(Enqueue(m, o, 0), Q, L)
    BY <1>2, <1>3, Zero, EnqueueAdds
  <2> QED BY <1>4, <2>1
<1> HIDE DEF L
<1>6. Queue' = Q /\ Later' = L /\ Rep(mem, Queue, Later)'
  BY <1>5, NewLists
<1>7. Later[0] \in Seq(Objects) /\ Later \in [Lists -> Seq(Objects)]
  BY <1>1, Zero, ListTypes
<1>8. /\ Later'[0] = Append(Later[0], o)
      /\ \A l \in Lists : l # 0 => Later'[l] = Later[l]
  BY <1>6, <1>7, Zero DEF L
<1>9. Members(Later'[0]) = Members(Later[0]) \cup {o}
  BY <1>7, <1>8, AppendMembers
<1>10. Fifo!Send(o)
  <2>1. \A l \in Lists : \A i \in 1 .. Len(Later[l]) : Later[l][i] # o
    BY <1>2 DEF Members
  <2> QED BY <1>6, <2>1, Zero DEF Fifo!Send, Q, L
<1> QED BY <1>6, <1>8, <1>9, <1>10

(* What the ways of sending have in common: packets of the buffer may have *)
(* left, and o's is added, or another's.                                   *)
LEMMA OutSound ==
  ASSUME FatInv, NEW o \in todo \cup {NULL}, pc = "update", pc' = pc,
         mem' = IF o = NULL THEN mem ELSE updateFat(o),
         todo' = todo \ {o}, sending' \subseteq sending \cup ({o} \ {NULL}),
         clientDead' = clientDead, udpMode' = udpMode, commMode' = "UDP" => udpSock',
         Typed'
  PROVE  FatInv' /\ [Fifo!Next]_<<Queue, Later>>
<1>1. Typed /\ Control /\ Rep(mem, Queue, Later)
  BY Parts
<1>2. CASE o = NULL \/ udpMode # "FAT"
  <2>1. mem' = mem
    BY <1>2 DEF updateFat
  <2>2. NULL \notin todo
    BY <1>1, FatUdpAssumption DEF Typed
  <2>3. Queue' = Queue /\ Later' = Later /\ Waiting' = Waiting => Control'
    BY <1>1, <1>2, <2>2 DEF Control
  <2> QED BY <2>1, <2>3, Quiet
<1>3. CASE o # NULL /\ udpMode = "FAT"
  <2>1. o \in Objects /\ o \in todo /\ mem' = updateFat(o)
    BY <1>1, <1>3 DEF Typed
  <2>2. /\ Rep(mem, Queue, Later)' /\ Fifo!Send(o)
        /\ Members(Later'[0]) = Members(Later[0]) \cup {o}
        /\ \A l \in Lists : l # 0 => Later'[l] = Later[l]
    BY <1>3, <2>1, updateFatSound
  <2>3. Waiting' \subseteq {0}
    BY <1>1, <2>2 DEF Control, Waiting
  <2>4. Control'
    BY <1>1, <1>3, <2>1, <2>2, <2>3 DEF Control
  <2> QED BY <2>1, <2>2, <2>4, Parts DEF Fifo!Next
<1> QED BY <1>2, <1>3

LEMMA SendSound ==
  ASSUME FatInv, NEW o \in Objects, Send(o)
  PROVE  FatInv' /\ [Fifo!Next]_<<Queue, Later>>
<1>1. Typed /\ Control /\ o # NULL
  BY Parts, FatUdpAssumption
<1>2. /\ pc = "update" /\ o \in todo /\ todo' = todo \ {o} /\ pc' = pc
      /\ commMode' = commMode /\ udpSock' = udpSock /\ udpMode' = udpMode
      /\ clientDead' = clientDead
  BY DEF Send, modes
<1>3. Typed'
  BY <1>1 DEF Send, Typed, modes, locals, counters
<1>4. CASE commMode = "TCP"
  <2>1. mem' = mem /\ sending' = sending
    BY <1>4 DEF Send
  <2>2. Queue' = Queue /\ Later' = Later /\ Waiting' = Waiting => Control'
    BY <1>1, <1>2, <2>1 DEF Control
  <2> QED BY <1>3, <2>1, <2>2, Quiet
<1>5. CASE commMode # "TCP"
  <2>1. mem' = updateFat(o) /\ sending' = sending \cup {o}
    BY <1>5 DEF Send
  <2>2. commMode' = "UDP" => udpSock'
    BY <1>1, <1>2 DEF Control
  <2> QED BY <1>1, <1>2, <1>3, <2>1, <2>2, OutSound
<1> QED BY <1>4, <1>5

LEMMA SpillSound ==
  ASSUME FatInv, NEW o \in Objects \cup {NULL}, Spill(o)
  PROVE  FatInv' /\ [Fifo!Next]_<<Queue, Later>>
<1>1. Typed /\ Control
  BY Parts
<1>2. /\ pc = "update" /\ o \in todo \cup {NULL} /\ todo' = todo \ {o} /\ pc' = pc
      /\ udpMode' = udpMode /\ clientDead' = clientDead
      /\ mem' = IF o = NULL THEN mem ELSE updateFat(o)
      /\ sending' \subseteq {o} \ {NULL}
      /\ Arrives \/ IsLost \/ Fails
  BY DEF Spill
<1>3. /\ commMode' \in {"TCP", "UDP"} /\ udpSock' \in BOOLEAN
      /\ commMode' = "UDP" => udpSock'
      /\ fresh' \in [Objects -> BOOLEAN]
  BY <1>1, <1>2, WriteFacts
<1>4. Typed'
  BY <1>1, <1>2, <1>3 DEF Spill, Typed, locals
<1> QED BY <1>2, <1>3, <1>4, OutSound

LEMMA FattenSound ==
  ASSUME FatInv, Fatten
  PROVE  FatInv' /\ [Fifo!Next]_<<Queue, Later>>
<1> DEFINE o == fatp
           Q == [Queue EXCEPT ![list] = Fifo!Without(Queue[list], o)]
           m == Dequeue(mem, o)
           L == IF list + 1 = MaxFatList THEN Later
                ELSE [Later EXCEPT ![list + 1] = Append(Later[list + 1], o)]
<1>1. Typed /\ Control /\ Rep(mem, Queue, Later)
  BY Parts
<1>2. /\ pc = "fatten" /\ o # NULL /\ o \in Members(Queue[list])
      /\ udpSock /\ udpMode = "FAT" /\ (commMode = "UDP" => udpSock)
      /\ o \in Objects /\ list \in Lists /\ pkt_size(o) < bytesleft
  BY <1>1 DEF Fatten, Control, Typed
<1>3. PICK i \in 1 .. Len(Queue[list]) : o = Queue[list][i]
  BY <1>2 DEF Members
<1>4. Rep(m, Q, Later)
  BY <1>1, <1>2, <1>3, DequeueTakesOff
<1>5. /\ Queue \in [Lists -> Seq(Objects)] /\ Queue[list] \in Seq(Objects)
      /\ \A a, b \in 1 .. Len(Queue[list]) : Queue[list][a] = Queue[list][b] => a = b
      /\ \A l \in Lists : o \notin Members(Later[l])
      /\ \A l \in Lists : l # list => o \notin Members(Queue[l])
  <2>1. \A l \in Lists : l # list => o \notin Members(Queue[l])
    BY <1>1, <1>2, <1>3 DEF Rep, OnePlace, Members
  <2> QED BY <1>1, <1>2, <2>1, ListTypes
<1>6. /\ \A l \in Lists : l # list => Q[l] = Queue[l]
      /\ Q[list] = Fifo!Without(Queue[list], o)
  BY <1>2, <1>5
<1>7. Members(Q[list]) = Members(Queue[list]) \ {o}
  BY <1>2, <1>5, <1>6, WithoutMembers
<1>8. \A l \in Lists : o \notin Members(Q[l])
  BY <1>5, <1>6, <1>7
<1>9. mem' = IF list + 1 = MaxFatList THEN m ELSE Enqueue(m, o, list + 1)
  BY DEF Fatten
<1>10. list + 1 # MaxFatList => list + 1 \in Lists
  <2>1. list \in Lists /\ MaxFatList \in Nat
    BY <1>1, FatUdpAssumption DEF Typed
  <2> QED BY <2>1 DEF Lists
<1> HIDE DEF Q, m, o
<1>11. Rep(mem', Q, L)
  <2>1. CASE list + 1 = MaxFatList
    BY <1>4, <1>9, <2>1
  <2>2. CASE list + 1 # MaxFatList
    <3>1. Rep(Enqueue(m, o, list + 1), Q, [Later EXCEPT ![list + 1] = Append(Later[list + 1], o)])
      <4> DEFINE k == list + 1
      <4>1. k \in Lists
        BY <1>10, <2>2
      <4> HIDE DEF k
      <4>2. Rep(Enqueue(m, o, k), Q, [Later EXCEPT ![k] = Append(Later[k], o)])
        BY <1>2, <1>4, <1>5, <1>8, <4>1, EnqueueAdds
      <4> QED BY <4>2 DEF k
    <3> QED BY <1>9, <2>2, <3>1
  <2> QED BY <2>1, <2>2
<1>12. Queue' = Q /\ Later' = L /\ Rep(mem, Queue, Later)'
  <2> HIDE DEF L
  <2> QED BY <1>11, NewLists
<1>13. /\ pc' \in {"fatten", "send"} /\ list' = list
       /\ udpMode' = udpMode /\ udpSock' = udpSock /\ commMode' = commMode
       /\ fatp' = fatp \/ fatp' = mem.prev[fatp]
       /\ pc' = "fatten" => fatp' = mem.prev[fatp]
  BY <1>2 DEF Fatten, modes
<1>14. mem.prev[fatp] \in (Members(Queue[list]) \ {fatp}) \cup {NULL}
  BY <1>1, <1>2, NextOnList DEF o
<1>15. Typed'
  <2>1. bytesleft' \in 0 .. MaxFatData
    <3>1. pkt_size(o) \in Nat /\ bytesleft \in 0 .. MaxFatData /\ MaxFatData \in Nat
      BY <1>1, FatUdpAssumption DEF pkt_size, Typed
    <3>2. bytesleft' = bytesleft - pkt_size(o)
      BY DEF Fatten, o
    <3> QED BY <1>2, <3>1, <3>2
  <2>2. fatp' \in Objects \cup {NULL}
    <3>1. mem.prev[fatp] \in Objects \cup {NULL}
      BY <1>1, <1>2, MemoryParts DEF Rep, o
    <3> QED BY <1>2, <1>13, <3>1 DEF o
  <2>3. sending' \subseteq Objects
    BY <1>1, <1>2 DEF Fatten, Typed, o
  <2> QED BY <1>1, <1>13, <2>1, <2>2, <2>3 DEF Fatten, Typed, modes, counters
<1>16. Control'
  <2>1. pc' = "fatten" => fatp' \in Members(Queue'[list']) \cup {NULL}
    BY <1>7, <1>12, <1>13, <1>14 DEF o
  <2>2. udpMode' = "FAT" /\ udpSock'
    BY <1>2, <1>13
  <2> QED BY <1>13, <2>1, <2>2 DEF Control
<1>17. Fifo!SendAgain(list, o)
  BY <1>3, <1>12 DEF Fifo!SendAgain, Q
<1> QED BY <1>2, <1>12, <1>15, <1>16, <1>17, Zero, Parts DEF Fifo!Next

LEMMA fatMergeSound ==
  ASSUME FatInv, fatMerge
  PROVE  /\ FatInv' /\ [Fifo!Next]_<<Queue, Later>>
         /\ Members(Later[list]) \subseteq Members(Queue'[list])
<1> DEFINE Q == [Queue EXCEPT ![list] = Queue[list] \o Later[list]]
           L == [Later EXCEPT ![list] = <<>>]
<1>1. Typed /\ Control /\ Rep(mem, Queue, Later)
  BY Parts
<1>2. /\ pc = "merge" /\ mem' = MergeList(mem, list) /\ list \in Lists /\ sending = {}
      /\ sending' = sending /\ MaxFatList \in Nat /\ \A l \in Waiting : list <= l
  BY <1>1, FatUdpAssumption DEF fatMerge, Typed, Control
<1>3. Rep(MergeList(mem, list), Q, L)
  BY <1>1, <1>2, MergeJoins
<1>4. Rep(mem', Q, L)
  BY <1>2, <1>3
<1>5. Queue' = Q /\ Later' = L /\ Rep(mem, Queue, Later)'
  <2> HIDE DEF Q, L
  <2> QED BY <1>4, NewLists
<1>6. /\ Queue \in [Lists -> Seq(Objects)] /\ Later \in [Lists -> Seq(Objects)]
      /\ Queue[list] \in Seq(Objects) /\ Later[list] \in Seq(Objects)
  BY <1>1, <1>2, ListTypes
<1>7. /\ Later'[list] = <<>> /\ \A l \in Lists : l # list => Later'[l] = Later[l]
      /\ Queue'[list] = Queue[list] \o Later[list]
  BY <1>2, <1>5, <1>6
<1> HIDE DEF Q, L
<1>8. \A l \in Waiting' : l \in Waiting /\ l # list
  BY <1>7 DEF Waiting
<1>9. /\ list + 1 = MaxFatList => list' = 0 /\ pc' \in {"read", "gone"}
      /\ list + 1 # MaxFatList => list' = list + 1 /\ pc' = pc
  BY DEF fatMerge, Back
<1>10. list \in Lists /\ list' \in Lists
  BY <1>2, <1>9, Zero DEF Lists
<1>11. Typed'
  BY <1>1, <1>9, <1>10 DEF fatMerge, Typed, modes, counters
<1>12. \A l \in Waiting' : list + 1 <= l /\ list + 1 # MaxFatList
  <2>1. ASSUME NEW l \in Waiting' PROVE list + 1 <= l /\ list + 1 # MaxFatList
    <3>1. l \in Lists /\ list <= l /\ l # list
      BY <1>2, <1>8 DEF Waiting
    <3>2. l \in Int /\ list \in Int /\ l < MaxFatList
      BY <1>2, <3>1, Numbers
    <3> QED BY <1>2, <3>1, <3>2
  <2> QED BY <2>1
<1>13. Control'
  <2>1. commMode' = "UDP" => udpSock'
    BY <1>1 DEF Control, fatMerge, modes
  <2> QED BY <1>2, <1>9, <1>12, <2>1 DEF Control
<1>14. Fifo!Merge(list)
  BY <1>5 DEF Fifo!Merge, Q, L
<1>15. Members(Later[list]) \subseteq Members(Queue'[list])
  <2>1. ASSUME NEW o \in Members(Later[list]) PROVE o \in Members(Queue[list] \o Later[list])
    BY <1>6, JoinMembers
  <2> QED BY <1>7, <2>1
<1> QED BY <1>2, <1>5, <1>11, <1>13, <1>14, <1>15, Zero, Parts DEF Fifo!Next

-----------------------------------------------------------------------------
(* The theorems. *)

LEMMA Steps ==
  ASSUME FatInv, ~Late, [Next]_vars
  PROVE  FatInv' /\ [Fifo!Next]_<<Queue, Later>>
<1>1. ASSUME NEW o \in Objects, Change(o) PROVE FatInv' /\ [Fifo!Next]_<<Queue, Later>>
  BY <1>1, ChangeSound
<1>2. ASSUME NEW o \in Objects, Send(o) PROVE FatInv' /\ [Fifo!Next]_<<Queue, Later>>
  BY <1>2, SendSound
<1>3. CASE Interrupt
  BY <1>3, InterruptSound
<1>4. CASE Flush \/ Overfull
  BY <1>4, FlushSound
<1>5. CASE Fatten
  BY <1>5, FattenSound
<1>6. CASE TooBig
  BY <1>6, TooBigSound
<1>7. CASE NextList
  BY <1>7, NextListSound
<1>8. CASE Transmit \/ Lose \/ WriteFails
  BY <1>8, WritesSound
<1>9. CASE fatMerge
  BY <1>9, fatMergeSound
<1>10. CASE OpenUdp \/ Verify \/ ModeFat \/ ModeSimple \/ FullUpdate \/ ToTcp \/ Die
  BY <1>10, RequestsSound
<1>11. CASE Reconnect
  BY <1>11, ReconnectSound
<1>12. CASE UNCHANGED vars
  <2>1. mem' = mem
    BY <1>12 DEF vars
  <2>2. Typed /\ Control
    BY Parts
  <2>3. Queue' = Queue /\ Later' = Later /\ Waiting' = Waiting => Typed' /\ Control'
    <3>1. Typed'
      BY <1>12, <2>2 DEF vars, Typed, modes, locals
    <3>2. Queue' = Queue /\ Later' = Later /\ Waiting' = Waiting => Control'
      BY <1>12, <2>2 DEF vars, Control, modes, locals
    <3> QED BY <3>1, <3>2
  <2> QED BY <2>1, <2>3, Quiet
<1>13. ASSUME NEW o \in Objects \cup {NULL}, Spill(o)
       PROVE  FatInv' /\ [Fifo!Next]_<<Queue, Later>>
  BY <1>13, SpillSound
<1> QED
  BY <1>1, <1>2, <1>3, <1>4, <1>5, <1>6, <1>7, <1>8, <1>9, <1>10, <1>11, <1>12, <1>13
     DEF Next, Update

(* The lists stay lists, every node in one place, whatever is sent, lost,  *)
(* merged, switched or reconnected, as long as no update runs for a client *)
(* that is dead already.                                                   *)
THEOREM ListsInvariant ==
  ASSUME ~Late
  PROVE  Spec => []FatInv
<1>1. Init => FatInv
  BY InitSound
<1>2. FatInv /\ [Next]_vars => FatInv'
  BY Steps
<1> QED BY <1>1, <1>2, PTL DEF Spec

(* Every variable has its type, and the pointers describe lists.           *)
THEOREM FatUdpTyped ==
  ASSUME ~Late
  PROVE  Spec => []TypeOK
<1>1. FatInv => TypeOK
  BY DEF FatInv
<1> QED BY <1>1, ListsInvariant, PTL

(* The pointers of fatudp.c implement the queues of FatQueue: dequeue(),   *)
(* enqueue(), fatMerge() and reset_fat_list() are the steps of the queues. *)
THEOREM ImplementsQueues ==
  ASSUME ~Late
  PROVE  Spec => Queues
<1>1. Init => Fifo!Init
  BY InitSound
<1>2. FatInv /\ [Next]_vars => [Fifo!Next]_<<Queue, Later>>
  BY Steps
<1> QED BY <1>1, <1>2, ListsInvariant, PTL DEF Spec, Queues, Fifo!Spec

(* A packet sent in fat mode waits when the buffer is written, and joins a *)
(* queue when the lists are merged.                                        *)
THEOREM PacketsAreQueued ==
  ASSUME ~Late
  PROVE  Spec => EveryPacketQueued
<1>1. FatInv /\ [Next]_vars =>
        [ /\ Writes /\ udpMode = "FAT" /\ ~clientDead =>
               sending \subseteq UNION {Members(Later[l]) : l \in Lists}
          /\ fatMerge => Members(Later[list]) \subseteq Members(Queue'[list]) ]_vars
  <2>1. ASSUME FatInv, Writes, udpMode = "FAT"
        PROVE  sending \subseteq UNION {Members(Later[l]) : l \in Lists}
    <3>1. pc = "update"
      BY <2>1 DEF Writes, Flush, Overfull, Spill
    <3>2. sending \subseteq Members(Later[0])
      BY <2>1, <3>1, Parts DEF Control
    <3> QED BY <3>2, Zero
  <2>2. ASSUME FatInv, fatMerge
        PROVE  Members(Later[list]) \subseteq Members(Queue'[list])
    BY <2>2, fatMergeSound
  <2> QED BY <2>1, <2>2
<1> QED BY <1>1, ListsInvariant, PTL DEF Spec, EveryPacketQueued

=============================================================================
