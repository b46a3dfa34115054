--------------------------- MODULE ObjectsProofs ---------------------------
(***************************************************************************)
(* Proofs about Objects, for any number of objects, any built-ins that     *)
(* wait and any verbs they wait for: the linked lists agree with the back  *)
(* pointers, the two hierarchies have no cycles, recycle() and renumber()  *)
(* neither panic nor hang, and the lists implement the forests of Forests. *)
(***************************************************************************)
EXTENDS Objects, FiniteSetTheorems, SequenceTheorems, TLAPS

-----------------------------------------------------------------------------
(* What holds of 0, and of the number after each that it holds of, holds of  *)
(* every number: otherwise a finite set would be as small as a part of it.   *)
LEMMA Induct ==
  ASSUME NEW S, 0 \in S, \A i \in Nat : i \in S => i + 1 \in S, NEW m \in Nat
  PROVE  m \in S
<1> SUFFICES ASSUME m \notin S PROVE FALSE
  OBVIOUS
<1> DEFINE A == S \cap (0 .. m)
           B == A \ {0}
           f == [i \in A |-> i + 1]
<1>1. IsFiniteSet(A)
  <2>1. IsFiniteSet(0 .. m)
    BY FS_Interval
  <2> QED BY <2>1, FS_Subset
<1>2. 0 \in A
  OBVIOUS
<1>3. IsFiniteSet(B) /\ Cardinality(B) = Cardinality(A) - 1
  BY <1>1, <1>2, FS_RemoveElement
<1>4. Cardinality(A) \in Nat
  BY <1>1, FS_CardinalityType
<1>5. f \in [A -> B]
  OBVIOUS
<1>6. \A x, y \in A : f[x] = f[y] => x = y
  OBVIOUS
<1> HIDE DEF A, B, f
<1>7. Cardinality(B) < Cardinality(A)
  BY <1>3, <1>4
<1>8. \E x, y \in A : x # y /\ f[x] = f[y]
  BY <1>1, <1>3, <1>5, <1>7, FS_PigeonHole
<1> QED BY <1>6, <1>8

(* A function may be iterated. *)
LEMMA Iteration ==
  ASSUME NEW V, NEW b \in V, NEW F \in [V -> V]
  PROVE  \E g \in [Nat -> V] : g[0] = b /\ \A i \in Nat : g[i + 1] = F[g[i]]
<1> DEFINE Begins(k, h) == /\ h \in [0 .. k -> V] /\ h[0] = b
                           /\ \A i \in 0 .. k - 1 : h[i + 1] = F[h[i]]
           S == {k \in Nat : \E h : Begins(k, h)}
<1>1. 0 \in S
  <2>1. Begins(0, [i \in 0 .. 0 |-> b])
    OBVIOUS
  <2> HIDE DEF Begins
  <2> QED BY <2>1
<1>2. ASSUME NEW k \in Nat, k \in S PROVE k + 1 \in S
  <2> PICK h : Begins(k, h)
    BY <1>2
  <2> DEFINE j == [i \in 0 .. k + 1 |-> IF i = k + 1 THEN F[h[k]] ELSE h[i]]
  <2>1. h[k] \in V
    OBVIOUS
  <2>2. j \in [0 .. k + 1 -> V] /\ j[0] = b
    BY <2>1
  <2>3. \A i \in 0 .. k : j[i + 1] = F[j[i]]
    OBVIOUS
  <2>4. Begins(k + 1, j)
    BY <2>2, <2>3
  <2> HIDE DEF Begins, j
  <2> QED BY <2>4
<1>3. \A k \in Nat : \E h : Begins(k, h)
  <2> HIDE DEF Begins
  <2>1. \A k \in Nat : k \in S
    <3> HIDE DEF S
    <3> QED BY <1>1, <1>2, Induct
  <2> QED BY <2>1
<1>4. ASSUME NEW k \in Nat, NEW i \in Nat, i <= k, NEW h, NEW j, Begins(k, h), Begins(i, j)
      PROVE  h[i] = j[i]
  <2> DEFINE U == {m \in Nat : m <= i => h[m] = j[m]}
  <2>1. 0 \in U
    BY <1>4
  <2>2. ASSUME NEW m \in Nat, m \in U PROVE m + 1 \in U
    BY <1>4, <2>2
  <2>3. i \in U
    <3> HIDE DEF U
    <3> QED BY <2>1, <2>2, Induct
  <2> QED BY <2>3
<1> DEFINE h(k) == CHOOSE x : Begins(k, x)
           g == [i \in Nat |-> h(i)[i]]
<1>5. \A k \in Nat : Begins(k, h(k))
  <2> HIDE DEF Begins
  <2> QED BY <1>3
<1>6. \A k \in Nat : h(k)[k] \in V
  <2> HIDE DEF h
  <2> QED BY <1>5
<1>7. g \in [Nat -> V] /\ g[0] = b
  <2>1. h(0)[0] = b
    <3> HIDE DEF h
    <3> QED BY <1>5
  <2> HIDE DEF h
  <2> QED BY <1>6, <2>1
<1>8. ASSUME NEW i \in Nat PROVE g[i + 1] = F[g[i]]
  <2>1. h(i + 1)[i] = h(i)[i]
    <3> HIDE DEF Begins, h
    <3> QED BY <1>4, <1>5
  <2>2. h(i + 1)[i + 1] = F[h(i + 1)[i]]
    <3> HIDE DEF h
    <3> QED BY <1>5
  <2> HIDE DEF h
  <2> QED BY <2>1, <2>2
<1> HIDE DEF g
<1> QED BY <1>7, <1>8
-----------------------------------------------------------------------------
(* Tables of finitely many objects, and the links between them. *)
FiniteTable(s) == IsFiniteSet(DOMAIN s) /\ DOMAIN s \subseteq Nat

OrNone(s) == DOMAIN s \cup {NOTHING}

Links(s, f) == \A o \in DOMAIN s : s[o][f] \in OrNone(s)

(* A walk goes along the links of n. *)
LEMMA WalkIs ==
  ASSUME NEW s, FiniteTable(s), NEW w, NEW l, s[w][l] \in OrNone(s), NEW n, Links(s, n)
  PROVE  /\ Walk(s, w, l, n) \in [Nat -> OrNone(s)]
         /\ Walk(s, w, l, n)[0] = s[w][l]
         /\ \A i \in Nat : Walk(s, w, l, n)[i + 1] =
                             IF Walk(s, w, l, n)[i] = NOTHING THEN NOTHING
                             ELSE s[Walk(s, w, l, n)[i]][n]
<1> DEFINE O == OrNone(s)
           b == s[w][l]
           next(o) == IF o = NOTHING THEN NOTHING ELSE s[o][n]
           F == [o \in O |-> next(o)]
           from(g) == [i \in Nat |-> IF i = 0 THEN b ELSE next(g[i - 1])]
           G == CHOOSE g : g = from(g)
<1>1. F \in [O -> O]
  BY DEF OrNone, Links
<1>2. PICK g \in [Nat -> O] : g[0] = b /\ \A i \in Nat : g[i + 1] = F[g[i]]
  <2> HIDE DEF F, O
  <2>1. b \in O
    BY DEF O
  <2> HIDE DEF b
  <2> QED BY <1>1, <2>1, Iteration, SMTT(30)
<1>3. g = from(g)
  <2>1. ASSUME NEW i \in Nat PROVE g[i] = from(g)[i]
    <3>1. CASE i = 0
      BY <1>2, <3>1
    <3>2. CASE i # 0
      <4>1. i - 1 \in Nat /\ (i - 1) + 1 = i
        BY <3>2
      <4>2. g[i] = F[g[i - 1]] /\ g[i - 1] \in O
        <5> HIDE DEF F, O
        <5> QED BY <1>2, <4>1
      <4>3. g[i] = next(g[i - 1])
        <5> HIDE DEF next, O
        <5> QED BY <4>2
      <4> HIDE DEF next, b
      <4> QED BY <3>2, <4>3
    <3> QED BY <3>1, <3>2
  <2>2. g = [i \in Nat |-> g[i]] /\ from(g) = [i \in Nat |-> from(g)[i]]
    BY <1>2
  <2> HIDE DEF from
  <2> QED BY <2>1, <2>2
<1>4. G = from(G)
  <2> HIDE DEF from
  <2> QED BY <1>3
<1>5. Walk(s, w, l, n) = G
  BY DEF Walk
<1>6. G[0] = b /\ \A i \in Nat : G[i + 1] = next(G[i])
  <2> HIDE DEF next, G, b
  <2>1. \A i \in Nat : G[i] = IF i = 0 THEN b ELSE next(G[i - 1])
    BY <1>4
  <2>2. ASSUME NEW i \in Nat PROVE G[i + 1] = next(G[i])
    <3>1. i + 1 \in Nat /\ i + 1 # 0 /\ (i + 1) - 1 = i
      OBVIOUS
    <3> QED BY <2>1, <3>1
  <2> QED BY <2>1, <2>2
<1>7. G \in [Nat -> O]
  <2> DEFINE S == {i \in Nat : G[i] \in O}
  <2>1. 0 \in S
    BY <1>6
  <2>2. ASSUME NEW i \in Nat, i \in S PROVE i + 1 \in S
    <3>1. next(G[i]) = F[G[i]] /\ F[G[i]] \in O
      <4> HIDE DEF next, G, O
      <4> QED BY <1>1, <2>2
    <3> HIDE DEF next, F, G, O
    <3> QED BY <1>6, <2>2, <3>1
  <2>3. \A i \in Nat : i \in S
    <3> HIDE DEF S
    <3> QED BY <2>1, <2>2, Induct
  <2>4. G = [i \in Nat |-> G[i]]
    <3>1. DOMAIN G = Nat /\ G = [i \in DOMAIN G |-> G[i]]
      <4> HIDE DEF G, next, b
      <4> QED BY <1>4
    <3> HIDE DEF G
    <3> QED BY <3>1
  <2> HIDE DEF G, O
  <2> QED BY <2>3, <2>4
<1> HIDE DEF G, O
<1> QED BY <1>5, <1>6, <1>7 DEF O

(* What can be reached from o in as many steps as there are objects that lead  *)
(* somewhere leads nowhere else, and is the least such set.                    *)
LEMMA ReachedIs ==
  ASSUME NEW step, IsFiniteSet(DOMAIN step), NEW o
  PROVE  /\ o \in Reached(step, o)
         /\ \A x \in DOMAIN step : x \in Reached(step, o) => step[x] \subseteq Reached(step, o)
         /\ \A C : (o \in C /\ \A x \in DOMAIN step : x \in C => step[x] \subseteq C)
                    => Reached(step, o) \subseteq C
<1> DEFINE D == DOMAIN step
           V == SUBSET ({o} \cup UNION {step[x] : x \in D})
           more(r) == r \cup UNION {step[x] : x \in r \cap D}
           F == [r \in V |-> more(r)]
           from(g) == [d \in Nat |-> IF d = 0 THEN {o} ELSE more(g[d - 1])]
           G == CHOOSE g : g = from(g)
<1>1. F \in [V -> V]
  OBVIOUS
<1>2. PICK g \in [Nat -> V] : g[0] = {o} /\ \A i \in Nat : g[i + 1] = F[g[i]]
  <2>1. {o} \in V
    OBVIOUS
  <2> HIDE DEF F, V
  <2> QED BY <1>1, <2>1, Iteration, SMTT(30)
<1>3. g = from(g)
  <2>1. ASSUME NEW i \in Nat PROVE g[i] = from(g)[i]
    <3>1. CASE i = 0
      BY <1>2, <3>1
    <3>2. CASE i # 0
      <4>1. i - 1 \in Nat /\ (i - 1) + 1 = i
        BY <3>2
      <4>2. g[i] = F[g[i - 1]] /\ g[i - 1] \in V
        <5> HIDE DEF F, V
        <5> QED BY <1>2, <4>1
      <4>3. g[i] = more(g[i - 1])
        <5> HIDE DEF more, V
        <5> QED BY <4>2
      <4> HIDE DEF more
      <4> QED BY <3>2, <4>3
    <3> QED BY <3>1, <3>2
  <2>2. g = [i \in Nat |-> g[i]] /\ from(g) = [i \in Nat |-> from(g)[i]]
    BY <1>2
  <2> HIDE DEF from
  <2> QED BY <2>1, <2>2
<1>4. G = from(G)
  <2> HIDE DEF from
  <2> QED BY <1>3
<1>5. Reached(step, o) = G[Cardinality(D)]
  BY DEF Reached
<1>6. G[0] = {o} /\ \A i \in Nat : G[i + 1] = more(G[i])
  <2> HIDE DEF more, G
  <2>1. \A i \in Nat : G[i] = IF i = 0 THEN {o} ELSE more(G[i - 1])
    BY <1>4
  <2>2. ASSUME NEW i \in Nat PROVE G[i + 1] = more(G[i])
    <3>1. i + 1 \in Nat /\ i + 1 # 0 /\ (i + 1) - 1 = i
      OBVIOUS
    <3> QED BY <2>1, <3>1
  <2> QED BY <2>1, <2>2
<1> HIDE DEF G
<1>7. Cardinality(D) \in Nat
  BY FS_CardinalityType
<1>8. o \in Reached(step, o)
  <2> DEFINE S == {i \in Nat : o \in G[i]}
  <2>1. 0 \in S
    BY <1>6
  <2>2. \A i \in Nat : i \in S => i + 1 \in S
    BY <1>6
  <2>3. Cardinality(D) \in S
    <3> HIDE DEF S, D
    <3> QED BY <1>7, <2>1, <2>2, Induct
  <2> QED BY <1>5, <2>3
<1>9. ASSUME NEW C, o \in C, \A x \in DOMAIN step : x \in C => step[x] \subseteq C
      PROVE  Reached(step, o) \subseteq C
  <2> DEFINE S == {i \in Nat : G[i] \subseteq C}
  <2>1. 0 \in S
    BY <1>6, <1>9
  <2>2. \A i \in Nat : i \in S => i + 1 \in S
    BY <1>6, <1>9
  <2>3. Cardinality(D) \in S
    <3> HIDE DEF S, D
    <3> QED BY <1>7, <2>1, <2>2, Induct
  <2> QED BY <1>5, <2>3
<1>10. ASSUME NEW x \in DOMAIN step, x \in Reached(step, o) PROVE step[x] \subseteq Reached(step, o)
  <2> DEFINE closed(r) == \A y \in r \cap D : step[y] \subseteq r
             S == {i \in Nat : closed(G[i]) \/ Cardinality(G[i] \cap D) >= i + 1}
  <2>1. \A r : closed(r) => more(r) = r
    OBVIOUS
  <2>2. 0 \in S
    <3>1. CASE o \in D
      <4>1. {o} \cap D = {o}
        BY <3>1
      <4>2. Cardinality({o}) = 1
        BY FS_Singleton
      <4>3. Cardinality(G[0] \cap D) = 1
        BY <1>6, <4>1, <4>2
      <4> HIDE DEF D
      <4> QED BY <4>3
    <3>2. CASE o \notin D
      BY <1>6, <3>2
    <3> QED BY <3>1, <3>2
  <2>3. ASSUME NEW i \in Nat, i \in S PROVE i + 1 \in S
    <3>1. CASE closed(G[i])
      BY <1>6, <2>1, <3>1
    <3>2. CASE ~closed(G[i]) /\ G[i + 1] \cap D = G[i] \cap D
      <4>1. closed(G[i + 1])
        <5> SUFFICES ASSUME NEW y \in G[i + 1] \cap D PROVE step[y] \subseteq G[i + 1]
          OBVIOUS
        <5>1. y \in G[i] \cap D
          BY <3>2
        <5>2. step[y] \subseteq more(G[i])
          BY <5>1
        <5> QED BY <1>6, <5>2
      <4> QED BY <4>1
    <3>3. CASE ~closed(G[i]) /\ G[i + 1] \cap D # G[i] \cap D
      <4> DEFINE p == G[i] \cap D
                 q == G[i + 1] \cap D
      <4>1. p \subseteq q /\ p # q /\ IsFiniteSet(q)
        <5>1. p \subseteq q
          BY <1>6
        <5>2. q \subseteq D
          OBVIOUS
        <5> QED BY <3>3, <5>1, <5>2, FS_Subset
      <4>2. Cardinality(p) >= i + 1
        BY <2>3, <3>3
      <4> HIDE DEF p, q
      <4>3. Cardinality(p) <= Cardinality(q) /\ Cardinality(p) # Cardinality(q)
            /\ Cardinality(p) \in Nat /\ Cardinality(q) \in Nat
        <5>1. p \in SUBSET q
          BY <4>1
        <5>2. IsFiniteSet(p)
          BY <4>1, <5>1, FS_Subset
        <5> QED BY <4>1, <5>1, <5>2, FS_Subset, FS_CardinalityType
      <4>4. Cardinality(q) >= (i + 1) + 1
        BY <4>2, <4>3
      <4> QED BY <4>4 DEF q
    <3> QED BY <3>1, <3>2, <3>3
  <2>4. Cardinality(D) \in S
    <3> HIDE DEF S, D
    <3> QED BY <1>7, <2>2, <2>3, Induct
  <2>5. ~(Cardinality(G[Cardinality(D)] \cap D) >= Cardinality(D) + 1)
    <3> DEFINE q == G[Cardinality(D)] \cap D
    <3>1. q \in SUBSET D
      OBVIOUS
    <3> HIDE DEF q, D
    <3>2. Cardinality(q) <= Cardinality(D) /\ Cardinality(q) \in Nat
      <4>0. IsFiniteSet(D)
        BY DEF D
      <4> QED BY <3>1, <4>0, FS_Subset, FS_CardinalityType
    <3> QED BY <1>7, <3>2 DEF q
  <2>6. closed(G[Cardinality(D)])
    <3> HIDE DEF closed, D
    <3> QED BY <2>4, <2>5
  <2> QED BY <1>5, <1>10, <2>6
<1> QED BY <1>8, <1>9, <1>10

-----------------------------------------------------------------------------
(* Hierarchies.  Where the links of f lead to valid objects, what is above o is *)
(* the least set that has o and with each object the one it is under.           *)
LEMMA AncestorsAre ==
  ASSUME NEW s, FiniteTable(s), NEW f, Links(s, f), NEW o \in OrNone(s)
  PROVE  /\ Ancestors(s, o, f) \subseteq DOMAIN s
         /\ o # NOTHING => o \in Ancestors(s, o, f)
         /\ o = NOTHING => Ancestors(s, o, f) = {}
         /\ \A x \in Ancestors(s, o, f) : s[x][f] # NOTHING => s[x][f] \in Ancestors(s, o, f)
         /\ \A C : (o \in C /\ \A x \in C \cap DOMAIN s : s[x][f] # NOTHING => s[x][f] \in C)
                   => Ancestors(s, o, f) \subseteq C
<1> DEFINE step == [x \in DOMAIN s |-> {s[x][f]}]
           R == Reached(step, o)
<1>1. IsFiniteSet(DOMAIN step) /\ DOMAIN step = DOMAIN s /\ NOTHING \notin DOMAIN s
  BY DEF FiniteTable, NOTHING
<1>2. Ancestors(s, o, f) = R \ {NOTHING}
  BY DEF Ancestors
<1>3. /\ o \in R
      /\ \A x \in DOMAIN step : x \in R => step[x] \subseteq R
      /\ \A C : (o \in C /\ \A x \in DOMAIN step : x \in C => step[x] \subseteq C)
                => R \subseteq C
  <2> HIDE DEF step
  <2> QED BY <1>1, ReachedIs
<1>4. ASSUME NEW C, o \in C, \A x \in C \cap DOMAIN s : s[x][f] # NOTHING => s[x][f] \in C
      PROVE  R \subseteq C \cup {NOTHING}
  <2>1. \A x \in DOMAIN step : x \in C \cup {NOTHING} => step[x] \subseteq C \cup {NOTHING}
    BY <1>1, <1>4
  <2> HIDE DEF R, step
  <2>2. o \in C \cup {NOTHING}
    BY <1>4
  <2> QED BY <1>3, <2>1, <2>2
<1>5. \A x \in DOMAIN s : x \in R => s[x][f] \in R
  BY <1>3
<1> HIDE DEF R, step
<1>6. R \subseteq OrNone(s)
  <2>1. \A x \in DOMAIN step : x \in OrNone(s) => step[x] \subseteq OrNone(s)
    BY DEF step, OrNone, Links
  <2> QED BY <1>3, <2>1
<1>7. o = NOTHING => R \subseteq {NOTHING}
  <2> SUFFICES ASSUME o = NOTHING PROVE R \subseteq {NOTHING}
    OBVIOUS
  <2>1. \A x \in DOMAIN step : x \in {NOTHING} => step[x] \subseteq {NOTHING}
    BY <1>1
  <2>2. o \in {NOTHING}
    OBVIOUS
  <2> QED BY <1>3, <2>1, <2>2
<1>8. ASSUME NEW x \in R \ {NOTHING} PROVE x \in DOMAIN s /\ s[x][f] \in R
  BY <1>5, <1>6 DEF OrNone
<1>9. ASSUME NEW C, o \in C, \A x \in C \cap DOMAIN s : s[x][f] # NOTHING => s[x][f] \in C
      PROVE  R \ {NOTHING} \subseteq C
  BY <1>4, <1>9
<1> QED BY <1>2, <1>3, <1>7, <1>8, <1>9

(* What is above something above o is above o. *)
LEMMA AncestorsUp ==
  ASSUME NEW s, FiniteTable(s), NEW f, Links(s, f), NEW o \in OrNone(s),
         NEW x \in Ancestors(s, o, f)
  PROVE  Ancestors(s, x, f) \subseteq Ancestors(s, o, f)
<1> DEFINE C == Ancestors(s, o, f)
<1>1. x \in OrNone(s) /\ x \in C
  BY AncestorsAre DEF OrNone
<1>2. \A y \in C \cap DOMAIN s : s[y][f] # NOTHING => s[y][f] \in C
  BY AncestorsAre
<1> HIDE DEF C
<1>3. Ancestors(s, x, f) \subseteq C
  BY <1>1, <1>2, AncestorsAre
<1> QED BY <1>3 DEF C

(* Above o are o and what is above the object it is under. *)
LEMMA AncestorsStep ==
  ASSUME NEW s, FiniteTable(s), NEW f, Links(s, f), NEW o \in DOMAIN s
  PROVE  Ancestors(s, o, f) = {o} \cup Ancestors(s, s[o][f], f)
<1> DEFINE p == s[o][f]
           C == {o} \cup Ancestors(s, p, f)
<1>1. o \in OrNone(s) /\ p \in OrNone(s) /\ o # NOTHING
  BY DEF OrNone, Links, FiniteTable, NOTHING
<1>2. Ancestors(s, o, f) \subseteq C
  <2>1. \A y \in C \cap DOMAIN s : s[y][f] # NOTHING => s[y][f] \in C
    BY <1>1, AncestorsAre
  <2>2. o \in C
    OBVIOUS
  <2> HIDE DEF C
  <2> QED BY <1>1, <2>1, <2>2, AncestorsAre
<1>3. o \in Ancestors(s, o, f)
  BY <1>1, AncestorsAre
<1>4. Ancestors(s, p, f) \subseteq Ancestors(s, o, f)
  <2>1. CASE p = NOTHING
    BY <1>1, <2>1, AncestorsAre
  <2>2. CASE p # NOTHING
    <3>1. p \in Ancestors(s, o, f)
      BY <1>1, <1>3, <2>2, AncestorsAre
    <3> HIDE DEF p
    <3> QED BY <1>1, <3>1, AncestorsUp
  <2> QED BY <2>1, <2>2
<1> QED BY <1>2, <1>3, <1>4

(* In every set of objects there is one that is under none of them. *)
Acyclic(s, f) ==
  \A S \in SUBSET DOMAIN s : S # {} => \E o \in S : s[o][f] \notin S

(* Then nothing is above what it is under: the objects between the two would  *)
(* be such a set.                                                             *)
LEMMA NotUnderItself ==
  ASSUME NEW s, FiniteTable(s), NEW f, Links(s, f), Acyclic(s, f), NEW o \in DOMAIN s
  PROVE  o \notin Ancestors(s, s[o][f], f)
<1> SUFFICES ASSUME o \in Ancestors(s, s[o][f], f) PROVE FALSE
  OBVIOUS
<1> DEFINE p == s[o][f]
           S == {x \in Ancestors(s, p, f) : o \in Ancestors(s, x, f)}
<1>1. p \in OrNone(s) /\ p # NOTHING
  BY AncestorsAre DEF Links
<1>2. S \in SUBSET DOMAIN s
  BY <1>1, AncestorsAre
<1>3. p \in S
  BY <1>1, AncestorsAre
<1>4. ASSUME NEW x \in S PROVE s[x][f] \in S
  <2>1. CASE x = o
    BY <1>3, <2>1
  <2>2. CASE x # o
    <3>1. x \in DOMAIN s /\ s[x][f] \in OrNone(s)
      BY <1>2 DEF Links
    <3>2. o \in Ancestors(s, s[x][f], f)
      BY <2>2, <3>1, AncestorsStep
    <3>3. s[x][f] # NOTHING
      BY <3>1, <3>2, AncestorsAre
    <3>4. s[x][f] \in Ancestors(s, p, f)
      BY <1>1, <3>3, AncestorsAre
    <3> QED BY <3>2, <3>4
  <2> QED BY <2>1, <2>2
<1> HIDE DEF S
<1> QED BY <1>2, <1>3, <1>4 DEF Acyclic

(* So two objects above each other are one. *)
LEMMA AboveEachOther ==
  ASSUME NEW s, FiniteTable(s), NEW f, Links(s, f), Acyclic(s, f), NEW x \in DOMAIN s,
         NEW y \in Ancestors(s, x, f), x \in Ancestors(s, y, f)
  PROVE  x = y
<1> SUFFICES ASSUME x # y PROVE FALSE
  OBVIOUS
<1>1. s[x][f] \in OrNone(s) /\ x \in OrNone(s)
  BY DEF Links, OrNone
<1>2. y \in Ancestors(s, s[x][f], f)
  BY AncestorsStep
<1>3. Ancestors(s, y, f) \subseteq Ancestors(s, s[x][f], f)
  BY <1>1, <1>2, AncestorsUp
<1> QED BY <1>3, NotUnderItself

(* o may go under p if it is not above p already. *)
LEMMA AcyclicMoved ==
  ASSUME NEW s, FiniteTable(s), NEW f, Links(s, f), Acyclic(s, f),
         NEW o \in DOMAIN s, NEW p \in OrNone(s), o \notin Ancestors(s, p, f),
         NEW t, DOMAIN t = DOMAIN s,
         \A x \in DOMAIN s : t[x][f] = IF x = o THEN p ELSE s[x][f]
  PROVE  Acyclic(t, f)
<1> SUFFICES ASSUME NEW S \in SUBSET DOMAIN s, S # {}, \A x \in S : t[x][f] \in S
             PROVE  FALSE
  BY DEF Acyclic
<1>0. NOTHING \notin DOMAIN s
  BY DEF FiniteTable, NOTHING
<1>1. CASE o \notin S
  BY <1>1 DEF Acyclic
<1>2. CASE o \in S
  <2> DEFINE C == S \cap Ancestors(s, p, f)
  <2>1. p \in S /\ p # NOTHING
    BY <1>0, <1>2
  <2>2. p \in C
    BY <2>1, AncestorsAre
  <2>3. ASSUME NEW x \in C PROVE s[x][f] \in C
    <3>1. x # o /\ s[x][f] = t[x][f] /\ s[x][f] \in S
      OBVIOUS
    <3>2. s[x][f] \in Ancestors(s, p, f)
      BY <1>0, <3>1, AncestorsAre
    <3> QED BY <3>1, <3>2
  <2>4. C \in SUBSET DOMAIN s
    OBVIOUS
  <2> HIDE DEF C
  <2> QED BY <2>2, <2>3, <2>4 DEF Acyclic
<1> QED BY <1>1, <1>2

-----------------------------------------------------------------------------
(* Lists.  place[o] is the object in whose list o is, or none.  No object is   *)
(* linked to twice, by a list or another object; every object with a place is  *)
(* linked to, within its list; and in every set of objects there is one that   *)
(* none of them links to, so that no list runs in a circle.                    *)
Threaded(s, place, l, n) ==
  /\ place \in [DOMAIN s -> OrNone(s)]
  /\ Links(s, l) /\ Links(s, n)
  /\ \A o \in DOMAIN s : place[o] = NOTHING => s[o][n] = NOTHING
  /\ \A w \in DOMAIN s : s[w][l] # NOTHING => place[s[w][l]] = w
  /\ \A o \in DOMAIN s : s[o][n] # NOTHING => place[s[o][n]] = place[o]
  /\ \A o, w \in DOMAIN s : s[o][n] # NOTHING => s[o][n] # s[w][l]
  /\ \A o, x \in DOMAIN s : s[o][n] = s[x][n] /\ s[o][n] # NOTHING => o = x
  /\ \A o \in DOMAIN s : place[o] # NOTHING =>
       o = s[place[o]][l] \/ \E x \in DOMAIN s : s[x][n] = o
  /\ \A S \in SUBSET DOMAIN s : S # {} => \E o \in S : \A x \in S : s[x][n] # o

(* Every set of numbers has a least. *)
LEMMA Least ==
  ASSUME NEW S \in SUBSET Nat, NEW k \in S
  PROVE  \E m \in S : \A i \in S : m <= i
<1> SUFFICES ASSUME \A m \in S : \E i \in S : i < m PROVE FALSE
  OBVIOUS
<1> DEFINE T == {i \in Nat : \A j \in S : j >= i}
<1>1. 0 \in T
  OBVIOUS
<1>2. ASSUME NEW i \in Nat, i \in T PROVE i + 1 \in T
  <2> SUFFICES ASSUME NEW j \in S PROVE j >= i + 1
    OBVIOUS
  <2>1. PICK h \in S : h < j
    OBVIOUS
  <2>2. h >= i /\ h \in Nat /\ j \in Nat
    BY <1>2
  <2> QED BY <2>1, <2>2
<1>3. k + 1 \in T
  <2> HIDE DEF T
  <2> QED BY <1>1, <1>2, Induct
<1> QED BY <1>3

(* The walk along the list of w: what it passes is in the list, nothing twice, *)
(* until it comes to the end, with all of the list behind it.                  *)
LEMMA WalkEnds ==
  ASSUME NEW s, FiniteTable(s), NEW place, NEW l, NEW n, Threaded(s, place, l, n),
         NEW w \in DOMAIN s
  PROVE  LET at == Walk(s, w, l, n)
         IN \E m \in 0 .. Cardinality(DOMAIN s) :
              /\ at[m] = NOTHING
              /\ \A i \in Nat : at[i] # NOTHING <=> i < m
              /\ \A i, j \in 0 .. m - 1 : at[i] = at[j] => i = j
              /\ {at[i] : i \in 0 .. m - 1} = {o \in DOMAIN s : place[o] = w}
              /\ m > 0 => s[at[m - 1]][n] = NOTHING
<1> DEFINE at == Walk(s, w, l, n)
           N == Cardinality(DOMAIN s)
<1>0. NOTHING \notin DOMAIN s /\ IsFiniteSet(DOMAIN s) /\ N \in Nat
  BY FS_CardinalityType DEF FiniteTable, NOTHING
<1>1. /\ at \in [Nat -> OrNone(s)] /\ at[0] = s[w][l]
      /\ \A i \in Nat : at[i + 1] = IF at[i] = NOTHING THEN NOTHING ELSE s[at[i]][n]
  <2>1. s[w][l] \in OrNone(s) /\ Links(s, n)
    BY DEF Threaded, Links
  <2> QED BY <2>1, WalkIs
<1> HIDE DEF at
<1>2. \A i \in Nat : at[i] # NOTHING => at[i] \in DOMAIN s
  BY <1>1 DEF OrNone
<1>3. \A i \in Nat : at[i] # NOTHING => place[at[i]] = w
  <2> DEFINE S == {i \in Nat : at[i] # NOTHING => place[at[i]] = w}
  <2>1. 0 \in S
    BY <1>1 DEF Threaded
  <2>2. ASSUME NEW i \in Nat, i \in S PROVE i + 1 \in S
    <3> SUFFICES ASSUME at[i + 1] # NOTHING PROVE place[at[i + 1]] = w
      OBVIOUS
    <3>1. at[i] # NOTHING /\ at[i + 1] = s[at[i]][n] /\ at[i] \in DOMAIN s
      BY <1>1, <1>2
    <3> QED BY <2>2, <3>1 DEF Threaded
  <2>3. \A i \in Nat : i \in S
    <3> HIDE DEF S
    <3> QED BY <2>1, <2>2, Induct
  <2> QED BY <2>3
<1>4. ASSUME NEW i \in Nat, NEW j \in Nat, i <= j, at[i] = NOTHING PROVE at[j] = NOTHING
  <2> DEFINE S == {k \in Nat : at[i + k] = NOTHING}
  <2>1. 0 \in S
    BY <1>4
  <2>2. ASSUME NEW k \in Nat, k \in S PROVE k + 1 \in S
    <3>1. i + k \in Nat /\ i + (k + 1) = (i + k) + 1
      OBVIOUS
    <3> QED BY <1>1, <2>2, <3>1
  <2>3. j - i \in S
    <3>1. j - i \in Nat
      BY <1>4
    <3> HIDE DEF S
    <3> QED BY <2>1, <2>2, <3>1, Induct
  <2>4. i + (j - i) = j
    OBVIOUS
  <2> QED BY <2>3, <2>4
<1>5. ASSUME NEW i \in Nat, NEW j \in Nat, i < j, at[j] # NOTHING PROVE at[i] # at[j]
  <2> SUFFICES ASSUME at[i] = at[j] PROVE FALSE
    OBVIOUS
  <2> DEFINE S == {at[k] : k \in i .. j}
  <2>1. \A k \in i .. j : k \in Nat /\ at[k] # NOTHING
    BY <1>4, <1>5
  <2>2. S \in SUBSET DOMAIN s /\ S # {}
    BY <1>2, <1>5, <2>1
  <2>3. ASSUME NEW k \in i .. j PROVE \E x \in S : s[x][n] = at[k]
    <3>1. PICK h \in i .. j : at[h] = at[k] /\ h - 1 \in i .. j
      <4>1. CASE k = i
        BY <1>5, <4>1
      <4>2. CASE k # i
        BY <4>2
      <4> QED BY <4>1, <4>2
    <3>2. h - 1 \in Nat /\ (h - 1) + 1 = h /\ at[h - 1] # NOTHING
      BY <2>1, <3>1
    <3>3. s[at[h - 1]][n] = at[k]
      BY <1>1, <3>1, <3>2
    <3> QED BY <3>1, <3>3
  <2> HIDE DEF S
  <2>4. \E o \in S : \A x \in S : s[x][n] # o
    BY <2>2 DEF Threaded
  <2> QED BY <2>3, <2>4 DEF S
<1>6. \E i \in 0 .. N : at[i] = NOTHING
  <2> SUFFICES ASSUME \A i \in 0 .. N : at[i] # NOTHING PROVE FALSE
    OBVIOUS
  <2> DEFINE f == [i \in 0 .. N |-> at[i]]
  <2>1. f \in [0 .. N -> DOMAIN s]
    BY <1>2
  <2>2. IsFiniteSet(0 .. N) /\ Cardinality(0 .. N) = N + 1
    BY <1>0, FS_Interval
  <2>3. N < Cardinality(0 .. N)
    BY <1>0, <2>2
  <2> HIDE DEF f
  <2>4. PICK i, j \in 0 .. N : i # j /\ f[i] = f[j]
    BY <1>0, <2>1, <2>2, <2>3, FS_PigeonHole
  <2>5. i \in Nat /\ j \in Nat /\ (i < j \/ j < i) /\ at[i] = at[j]
    BY <2>4 DEF f
  <2> QED BY <1>5, <2>5
<1>7. PICK m \in 0 .. N : at[m] = NOTHING /\ \A i \in Nat : at[i] # NOTHING <=> i < m
  <2> DEFINE S == {i \in Nat : at[i] = NOTHING}
  <2>1. PICK k \in 0 .. N : at[k] = NOTHING
    BY <1>6
  <2>2. k \in S /\ S \in SUBSET Nat
    BY <2>1
  <2> HIDE DEF S
  <2>3. PICK m \in S : \A i \in S : m <= i
    BY <2>2, Least
  <2>4. m \in Nat /\ m <= k /\ at[m] = NOTHING /\ m \in 0 .. N
    BY <1>0, <2>2, <2>3 DEF S
  <2>5. ASSUME NEW i \in Nat PROVE at[i] # NOTHING <=> i < m
    <3>1. CASE i < m
      BY <2>3, <2>4, <3>1 DEF S
    <3>2. CASE ~(i < m)
      <4>1. m <= i
        BY <2>4, <3>2
      <4> QED BY <1>4, <2>4, <3>2, <4>1
    <3> QED BY <3>1, <3>2
  <2> QED BY <2>4, <2>5
<1>8. \A i, j \in 0 .. m - 1 : at[i] = at[j] => i = j
  <2> SUFFICES ASSUME NEW i \in 0 .. m - 1, NEW j \in 0 .. m - 1, at[i] = at[j], i # j PROVE FALSE
    OBVIOUS
  <2>1. i \in Nat /\ j \in Nat /\ i < m /\ j < m /\ (i < j \/ j < i)
    BY <1>0
  <2>2. at[i] # NOTHING /\ at[j] # NOTHING
    BY <1>7, <2>1
  <2> QED BY <1>5, <2>1, <2>2
<1>9. {at[i] : i \in 0 .. m - 1} = {o \in DOMAIN s : place[o] = w}
  <2> DEFINE A == {at[i] : i \in 0 .. m - 1}
             T == {o \in DOMAIN s : place[o] = w} \ A
  <2>1. \A i \in 0 .. m - 1 : i \in Nat /\ i < m
    BY <1>0
  <2>2. A \subseteq {o \in DOMAIN s : place[o] = w}
    BY <1>2, <1>3, <1>7, <2>1
  <2>3. ASSUME T # {} PROVE FALSE
    <3>1. T \in SUBSET DOMAIN s
      OBVIOUS
    <3> HIDE DEF T
    <3>2. PICK o \in T : \A x \in T : s[x][n] # o
      BY <2>3, <3>1 DEF Threaded
    <3>3. o \in DOMAIN s /\ place[o] = w /\ o \notin A /\ o # NOTHING /\ w # NOTHING
      BY <1>0, <3>1 DEF T
    <3>4. CASE o = s[w][l]
      <4>1. at[0] = o /\ at[0] # NOTHING
        BY <1>1, <3>3, <3>4
      <4>2. 0 < m
        BY <1>7, <4>1
      <4>3. 0 \in 0 .. m - 1
        BY <1>7, <4>2
      <4> QED BY <3>3, <4>1, <4>3
    <3>5. CASE o # s[w][l]
      <4>1. PICK x \in DOMAIN s : s[x][n] = o
        BY <3>3, <3>5 DEF Threaded
      <4>2. place[x] = w
        BY <3>3, <4>1 DEF Threaded
      <4>3. x \in A
        BY <3>2, <4>1, <4>2 DEF T
      <4>4. PICK i \in 0 .. m - 1 : x = at[i]
        BY <4>3
      <4>5. at[i + 1] = o /\ i + 1 \in Nat
        BY <1>0, <1>1, <1>7, <2>1, <4>1, <4>4
      <4>6. i + 1 < m
        BY <1>7, <3>3, <4>5
      <4>7. i + 1 \in 0 .. m - 1
        BY <1>7, <2>1, <4>6
      <4> QED BY <3>3, <4>5, <4>7
    <3> QED BY <3>4, <3>5
  <2> QED BY <2>2, <2>3
<1>10. m > 0 => s[at[m - 1]][n] = NOTHING
  <2> SUFFICES ASSUME m > 0 PROVE s[at[m - 1]][n] = NOTHING
    OBVIOUS
  <2>1. m - 1 \in Nat /\ m - 1 < m /\ (m - 1) + 1 = m
    BY <1>0
  <2>2. at[m - 1] # NOTHING
    BY <1>7, <2>1
  <2> QED BY <1>1, <1>7, <2>1, <2>2
<1> QED BY <1>7, <1>8, <1>9, <1>10 DEF at

(* A list is as long as the walk along it. *)
LEMMA ListedWalk ==
  ASSUME NEW s, FiniteTable(s), NEW place, NEW l, NEW n, Threaded(s, place, l, n),
         NEW w \in DOMAIN s
  PROVE  LET at == Walk(s, w, l, n)
         IN \E m \in Nat :
              /\ Listed(s, w, l, n) = [i \in 1 .. m |-> at[i - 1]]
              /\ at[m] = NOTHING
              /\ \A i \in Nat : at[i] # NOTHING <=> i < m
              /\ \A i, j \in 0 .. m - 1 : at[i] = at[j] => i = j
              /\ {at[i] : i \in 0 .. m - 1} = {o \in DOMAIN s : place[o] = w}
              /\ m > 0 => s[at[m - 1]][n] = NOTHING
<1> DEFINE at == Walk(s, w, l, n)
           N == Cardinality(DOMAIN s)
           len == Cardinality({i \in 0 .. N - 1 : at[i] # NOTHING})
<1>1. PICK m \in 0 .. N :
        /\ at[m] = NOTHING
        /\ \A i \in Nat : at[i] # NOTHING <=> i < m
        /\ \A i, j \in 0 .. m - 1 : at[i] = at[j] => i = j
        /\ {at[i] : i \in 0 .. m - 1} = {o \in DOMAIN s : place[o] = w}
        /\ m > 0 => s[at[m - 1]][n] = NOTHING
  BY WalkEnds
<1>2. N \in Nat /\ m \in Nat
  BY FS_CardinalityType DEF FiniteTable
<1>3. Listed(s, w, l, n) = [i \in 1 .. len |-> at[i - 1]]
  BY DEF Listed
<1> HIDE DEF at
<1>4. len = m
  <2>1. {i \in 0 .. N - 1 : at[i] # NOTHING} = 0 .. m - 1
    <3>1. \A i \in 0 .. N - 1 : i \in Nat
      BY <1>2
    <3>2. \A i : i \in 0 .. m - 1 => i \in 0 .. N - 1 /\ i \in Nat /\ i < m
      BY <1>2
    <3>3. \A i \in Nat : i < m => i \in 0 .. m - 1
      BY <1>2
    <3> QED BY <1>1, <3>1, <3>2, <3>3
  <2>2. Cardinality(0 .. m - 1) = m
    <3>1. m - 1 \in Int /\ 0 \in Int
      BY <1>2
    <3>2. Cardinality(0 .. m - 1) = IF 0 > m - 1 THEN 0 ELSE (m - 1) - 0 + 1
      BY <3>1, FS_Interval
    <3> QED BY <1>2, <3>2
  <2> QED BY <2>1, <2>2
<1> QED BY <1>1, <1>2, <1>3, <1>4 DEF at

(* So the list of w has, once each, the objects whose place is w; and when it  *)
(* has any, it has one with nothing behind it.                                 *)
LEMMA ListedIs ==
  ASSUME NEW s, FiniteTable(s), NEW place, NEW l, NEW n, Threaded(s, place, l, n),
         NEW w \in DOMAIN s
  PROVE  /\ IsInjective(Listed(s, w, l, n))
         /\ Members(s, w, l, n) = {o \in DOMAIN s : place[o] = w}
         /\ Members(s, w, l, n) # {} => \E o \in Members(s, w, l, n) : s[o][n] = NOTHING
<1> DEFINE at == Walk(s, w, l, n)
<1>1. PICK m \in Nat :
        /\ Listed(s, w, l, n) = [i \in 1 .. m |-> at[i - 1]]
        /\ \A i, j \in 0 .. m - 1 : at[i] = at[j] => i = j
        /\ {at[i] : i \in 0 .. m - 1} = {o \in DOMAIN s : place[o] = w}
        /\ m > 0 => s[at[m - 1]][n] = NOTHING
  BY ListedWalk
<1> HIDE DEF at
<1> DEFINE L == [i \in 1 .. m |-> at[i - 1]]
<1>5. \A i \in 1 .. m : i - 1 \in 0 .. m - 1
  OBVIOUS
<1>6. \A i \in 0 .. m - 1 : i + 1 \in 1 .. m /\ (i + 1) - 1 = i
  OBVIOUS
<1>7. IsInjective(L)
  <2> SUFFICES ASSUME NEW i \in 1 .. m, NEW j \in 1 .. m, at[i - 1] = at[j - 1] PROVE i = j
    BY DEF IsInjective
  <2>1. i - 1 = j - 1
    BY <1>1, <1>5
  <2> QED BY <2>1
<1>8. ToSet(L) = {at[i] : i \in 0 .. m - 1}
  BY <1>5, <1>6 DEF ToSet
<1>9. Members(s, w, l, n) = {at[i] : i \in 0 .. m - 1}
  BY <1>1, <1>8 DEF Members
<1>10. ASSUME Members(s, w, l, n) # {} PROVE \E o \in Members(s, w, l, n) : s[o][n] = NOTHING
  <2>1. m > 0 /\ m - 1 \in 0 .. m - 1
    BY <1>9, <1>10
  <2> QED BY <1>1, <1>9, <2>1
<1> QED BY <1>1, <1>7, <1>9, <1>10

-----------------------------------------------------------------------------
(* The fields of an object, and a table whose objects have them. *)
Fields == DOMAIN NewObject

Shaped(s) == FiniteTable(s) /\ \A o \in DOMAIN s : DOMAIN s[o] = Fields

(* t is s but for the fields F. *)
SameBut(s, t, F) ==
  /\ DOMAIN t = DOMAIN s /\ Shaped(t)
  /\ \A x \in DOMAIN s : \A f \in Fields \ F : t[x][f] = s[x][f]

(* LL_REMOVE lets what was linked to o be linked to what is behind o. *)
LEMMA RemoveIs ==
  ASSUME NEW s, Shaped(s), NEW place, NEW l \in Fields, NEW n \in Fields, l # n,
         Threaded(s, place, l, n), NEW o \in DOMAIN s, NEW w \in DOMAIN s, place[o] = w
  PROVE  LET t == LL_REMOVE(s, w, l, o, n)
         IN /\ SameBut(s, t, {l, n})
            /\ \A x \in DOMAIN s :
                 /\ t[x][l] = IF s[x][l] = o THEN s[o][n] ELSE s[x][l]
                 /\ t[x][n] = IF x = o THEN NOTHING
                              ELSE IF s[x][n] = o THEN s[o][n] ELSE s[x][n]
<1> DEFINE t == LL_REMOVE(s, w, l, o, n)
           before == {x \in Members(s, w, l, n) : s[x][n] = o}
           b == CHOOSE x \in before : TRUE
<1>0. NOTHING \notin DOMAIN s /\ FiniteTable(s) /\ \A x \in DOMAIN s : DOMAIN s[x] = Fields
  BY DEF FiniteTable, Shaped, NOTHING
<1>1. before = {x \in DOMAIN s : place[x] = w /\ s[x][n] = o}
  <2>1. Members(s, w, l, n) = {x \in DOMAIN s : place[x] = w}
    BY <1>0, ListedIs
  <2> QED BY <2>1
<1>2. \A x \in DOMAIN s : s[x][n] = o => x \in before
  BY <1>0, <1>1 DEF Threaded
<1>3. CASE s[w][l] = o
  <2>1. t = [s EXCEPT ![w][l] = s[o][n], ![o][n] = NOTHING]
    BY <1>3 DEF LL_REMOVE
  <2>2. \A x \in DOMAIN s : s[x][n] # o /\ (s[x][l] = o => x = w)
    BY <1>0, <1>3 DEF Threaded
  <2> HIDE DEF t
  <2>3. DOMAIN t = DOMAIN s /\ \A x \in DOMAIN s : DOMAIN t[x] = Fields
    BY <1>0, <2>1
  <2>4. \A x \in DOMAIN s : \A f \in Fields :
          t[x][f] = IF x = o /\ f = n THEN NOTHING
                    ELSE IF x = w /\ f = l THEN s[o][n] ELSE s[x][f]
    BY <1>0, <2>1
  <2>5. SameBut(s, t, {l, n})
    BY <1>0, <2>3, <2>4 DEF SameBut, Shaped, FiniteTable
  <2> QED BY <1>3, <2>2, <2>4, <2>5 DEF t
<1>4. CASE s[w][l] # o
  <2>1. before # {}
    <3>1. \E x \in DOMAIN s : s[x][n] = o
      BY <1>0, <1>4 DEF Threaded
    <3> QED BY <1>2, <3>1
  <2>2. b \in before
    BY <2>1
  <2>3. t = [s EXCEPT ![b][n] = s[o][n], ![o][n] = NOTHING]
    BY <1>4, <2>1 DEF LL_REMOVE
  <2> HIDE DEF t, b
  <2>4. /\ b \in DOMAIN s /\ \A x \in DOMAIN s : s[x][n] = o <=> x = b
        /\ \A x \in DOMAIN s : s[x][l] # o
    BY <1>0, <1>1, <1>4, <2>2 DEF Threaded
  <2>5. DOMAIN t = DOMAIN s /\ \A x \in DOMAIN s : DOMAIN t[x] = Fields
    BY <1>0, <2>3, <2>4
  <2>6. \A x \in DOMAIN s : \A f \in Fields :
          t[x][f] = IF x = o /\ f = n THEN NOTHING
                    ELSE IF x = b /\ f = n THEN s[o][n] ELSE s[x][f]
    BY <1>0, <2>3, <2>4
  <2>7. SameBut(s, t, {l, n})
    BY <1>0, <2>5, <2>6 DEF SameBut, Shaped, FiniteTable
  <2> QED BY <2>4, <2>6, <2>7 DEF t
<1> QED BY <1>3, <1>4

(* Then o has left the list. *)
LEMMA RemoveThreaded ==
  ASSUME NEW s, Shaped(s), NEW place, NEW l \in Fields, NEW n \in Fields, l # n,
         Threaded(s, place, l, n), NEW o \in DOMAIN s, NEW w \in DOMAIN s, place[o] = w
  PROVE  Threaded(LL_REMOVE(s, w, l, o, n), [place EXCEPT ![o] = NOTHING], l, n)
<1> DEFINE t == LL_REMOVE(s, w, l, o, n)
           v == s[o][n]
           p == [place EXCEPT ![o] = NOTHING]
<1>0. NOTHING \notin DOMAIN s
  BY DEF Shaped, FiniteTable, NOTHING
<1>1. /\ DOMAIN t = DOMAIN s
      /\ \A x \in DOMAIN s :
           /\ t[x][l] = IF s[x][l] = o THEN v ELSE s[x][l]
           /\ t[x][n] = IF x = o THEN NOTHING ELSE IF s[x][n] = o THEN v ELSE s[x][n]
  BY RemoveIs DEF SameBut
<1>2. /\ p \in [DOMAIN s -> OrNone(s)] /\ p[o] = NOTHING
      /\ \A x \in DOMAIN s : x # o => p[x] = place[x]
      /\ OrNone(t) = OrNone(s) /\ v \in OrNone(s)
  BY <1>1 DEF Threaded, OrNone, Links
<1>3. v # o /\ \A x \in DOMAIN s : s[x][n] # x
  <2> SUFFICES ASSUME NEW x \in DOMAIN s, s[x][n] = x PROVE FALSE
    OBVIOUS
  <2>1. {x} \in SUBSET DOMAIN s /\ {x} # {}
    OBVIOUS
  <2>2. \E y \in {x} : \A z \in {x} : s[z][n] # y
    BY <2>1 DEF Threaded
  <2> QED BY <2>2
<1>4. Links(t, l) /\ Links(t, n)
  BY <1>1, <1>2 DEF Threaded, Links, OrNone
<1>5. \A x \in DOMAIN s : p[x] = NOTHING => t[x][n] = NOTHING
  BY <1>0, <1>1, <1>2 DEF Threaded
<1>6. \A u \in DOMAIN s : t[u][l] # NOTHING => p[t[u][l]] = u
  <2> SUFFICES ASSUME NEW u \in DOMAIN s, t[u][l] # NOTHING PROVE p[t[u][l]] = u
    OBVIOUS
  <2>1. t[u][l] \in DOMAIN s
    BY <1>1, <1>2, <1>4 DEF Links, OrNone
  <2>2. CASE s[u][l] = o
    <3>1. t[u][l] = v /\ place[o] = u /\ place[v] = u
      BY <1>0, <1>1, <2>2 DEF Threaded
    <3> QED BY <1>2, <1>3, <2>1, <3>1
  <2>3. CASE s[u][l] # o
    <3>1. t[u][l] = s[u][l] /\ place[s[u][l]] = u
      BY <1>1, <2>3 DEF Threaded
    <3> QED BY <1>2, <2>1, <2>3, <3>1
  <2> QED BY <2>2, <2>3
<1>7. \A x \in DOMAIN s : t[x][n] # NOTHING => p[t[x][n]] = p[x]
  <2> SUFFICES ASSUME NEW x \in DOMAIN s, t[x][n] # NOTHING PROVE p[t[x][n]] = p[x]
    OBVIOUS
  <2>1. t[x][n] \in DOMAIN s /\ x # o
    BY <1>1, <1>2, <1>4 DEF Links, OrNone
  <2>2. CASE s[x][n] = o
    <3>1. t[x][n] = v /\ place[o] = place[x] /\ place[v] = place[o]
      BY <1>0, <1>1, <2>1, <2>2 DEF Threaded
    <3> QED BY <1>2, <1>3, <2>1, <3>1
  <2>3. CASE s[x][n] # o
    <3>1. t[x][n] = s[x][n] /\ place[s[x][n]] = place[x]
      BY <1>1, <2>1, <2>3 DEF Threaded
    <3> QED BY <1>2, <2>1, <2>3, <3>1
  <2> QED BY <2>2, <2>3
<1>8. \A x, u \in DOMAIN s : t[x][n] # NOTHING => t[x][n] # t[u][l]
  BY <1>0, <1>1 DEF Threaded
<1>9. \A x, y \in DOMAIN s : t[x][n] = t[y][n] /\ t[x][n] # NOTHING => x = y
  BY <1>0, <1>1 DEF Threaded
<1>10. \A x \in DOMAIN s : p[x] # NOTHING =>
         x = t[p[x]][l] \/ \E y \in DOMAIN s : t[y][n] = x
  <2> SUFFICES ASSUME NEW x \in DOMAIN s, p[x] # NOTHING
               PROVE  x = t[p[x]][l] \/ \E y \in DOMAIN s : t[y][n] = x
    OBVIOUS
  <2>1. x # o /\ p[x] = place[x] /\ place[x] \in DOMAIN s
    BY <1>2 DEF OrNone
  <2>2. CASE x = s[place[x]][l]
    BY <1>1, <2>1, <2>2
  <2>3. CASE x # s[place[x]][l]
    <3>1. PICK y \in DOMAIN s : s[y][n] = x
      BY <2>1, <2>3 DEF Threaded
    <3>2. CASE y # o
      BY <1>1, <2>1, <3>1, <3>2
    <3>3. CASE y = o
      <4>1. x = v /\ place[o] = place[x]
        BY <1>0, <3>1, <3>3 DEF Threaded
      <4>2. CASE o = s[place[o]][l]
        BY <1>1, <2>1, <4>1, <4>2
      <4>3. CASE o # s[place[o]][l]
        <5>1. PICK z \in DOMAIN s : s[z][n] = o
          BY <2>1, <4>1, <4>3 DEF Threaded
        <5>2. z # o
          BY <1>3, <5>1
        <5> QED BY <1>1, <4>1, <5>1, <5>2
      <4> QED BY <4>2, <4>3
    <3> QED BY <3>2, <3>3
  <2> QED BY <2>2, <2>3
<1>11. ASSUME NEW S \in SUBSET DOMAIN s, S # {}, \A y \in S : \E x \in S : t[x][n] = y
       PROVE  FALSE
  <2>1. o \notin S
    <3> SUFFICES ASSUME o \in S PROVE FALSE
      OBVIOUS
    <3>1. PICK x \in S : t[x][n] = o
      BY <1>11
    <3> QED BY <1>0, <1>1, <1>3, <3>1
  <2>2. CASE \E x \in S : s[x][n] = o
    <3> DEFINE S2 == S \cup {o}
    <3>1. S2 \in SUBSET DOMAIN s /\ S2 # {}
      OBVIOUS
    <3>2. ASSUME NEW y \in S2 PROVE \E x \in S2 : s[x][n] = y
      <4>1. CASE y = o
        BY <2>2, <4>1
      <4>2. CASE y # o
        <5>1. PICK x \in S : t[x][n] = y
          BY <1>11, <4>2
        <5>2. s[x][n] = y \/ s[o][n] = y
          BY <1>1, <2>1, <5>1
        <5> QED BY <5>2
      <4> QED BY <4>1, <4>2
    <3> HIDE DEF S2
    <3> QED BY <3>1, <3>2 DEF Threaded
  <2>3. CASE \A x \in S : s[x][n] # o
    <3>1. \A y \in S : \E x \in S : s[x][n] = y
      BY <1>1, <1>11, <2>1, <2>3
    <3>2. \E y \in S : \A x \in S : s[x][n] # y
      BY <1>11 DEF Threaded
    <3> QED BY <3>1, <3>2
  <2> QED BY <2>2, <2>3
<1>12. \A S \in SUBSET DOMAIN s : S # {} => \E y \in S : \A x \in S : t[x][n] # y
  BY <1>11
<1> HIDE DEF t, p, v
<1>13. Threaded(t, p, l, n)
  BY <1>1, <1>2, <1>4, <1>5, <1>6, <1>7, <1>8, <1>9, <1>10, <1>12 DEF Threaded
<1> QED BY <1>13 DEF t, p

(* A list with no first object is empty. *)
LEMMA NoneListed ==
  ASSUME NEW s, FiniteTable(s), NEW place, NEW l, NEW n, Threaded(s, place, l, n),
         NEW w \in DOMAIN s, s[w][l] = NOTHING
  PROVE  \A x \in DOMAIN s : place[x] # w
<1> DEFINE S == {x \in DOMAIN s : place[x] = w}
<1>1. ASSUME NEW x \in S PROVE \E y \in S : s[y][n] = x
  <2>1. x \in DOMAIN s /\ place[x] = w /\ x # NOTHING /\ w # NOTHING
    BY DEF FiniteTable, NOTHING
  <2>2. PICK y \in DOMAIN s : s[y][n] = x
    BY <2>1 DEF Threaded
  <2>3. place[y] = w
    BY <2>1, <2>2 DEF Threaded
  <2> QED BY <2>2, <2>3
<1>2. S \in SUBSET DOMAIN s
  OBVIOUS
<1>3. S # {} => \E x \in S : \A y \in S : s[y][n] # x
  <2> HIDE DEF S
  <2> QED BY <1>2 DEF Threaded
<1> QED BY <1>1, <1>3

(* t is s with o the first of the list of w, or behind b in it. *)
MadeFirst(s, t, place, l, n, o, w) ==
  /\ \A x \in DOMAIN s : place[x] # w
  /\ \A x \in DOMAIN s : /\ t[x][l] = IF x = w THEN o ELSE s[x][l]
                         /\ t[x][n] = s[x][n]

PutBehind(s, t, place, l, n, o, w, b) ==
  /\ place[b] = w /\ s[b][n] = NOTHING
  /\ \A x \in DOMAIN s : /\ t[x][l] = s[x][l]
                         /\ t[x][n] = IF x = b THEN o ELSE s[x][n]

(* LL_APPEND links o to the last of the list of w, or makes it the first. *)
LEMMA AppendIs ==
  ASSUME NEW s, Shaped(s), NEW place, NEW l \in Fields, NEW n \in Fields, l # n,
         Threaded(s, place, l, n), NEW o \in DOMAIN s, NEW w \in DOMAIN s, place[o] = NOTHING
  PROVE  LET t == LL_APPEND(s, w, l, o, n)
         IN /\ SameBut(s, t, {l, n})
            /\ \/ MadeFirst(s, t, place, l, n, o, w)
               \/ \E b \in DOMAIN s : PutBehind(s, t, place, l, n, o, w, b)
<1> DEFINE t == LL_APPEND(s, w, l, o, n)
           b == CHOOSE x \in Members(s, w, l, n) : s[x][n] = NOTHING
<1>0. /\ NOTHING \notin DOMAIN s /\ FiniteTable(s)
      /\ \A x \in DOMAIN s : DOMAIN s[x] = Fields
      /\ s[o][n] = NOTHING
  BY DEF FiniteTable, Shaped, NOTHING, Threaded
<1>1. /\ Members(s, w, l, n) = {x \in DOMAIN s : place[x] = w}
      /\ Members(s, w, l, n) # {} => \E x \in Members(s, w, l, n) : s[x][n] = NOTHING
  BY <1>0, ListedIs
<1>2. CASE s[w][l] = NOTHING
  <2>1. t = [s EXCEPT ![w][l] = o, ![o][n] = NOTHING]
    BY <1>2 DEF LL_APPEND
  <2> HIDE DEF t
  <2>2. \A x \in DOMAIN s : place[x] # w
    BY <1>0, <1>2, NoneListed
  <2>3. DOMAIN t = DOMAIN s /\ \A x \in DOMAIN s : DOMAIN t[x] = Fields
    BY <1>0, <2>1
  <2>4. \A x \in DOMAIN s : \A f \in Fields :
          t[x][f] = IF x = o /\ f = n THEN NOTHING
                    ELSE IF x = w /\ f = l THEN o ELSE s[x][f]
    BY <1>0, <2>1
  <2>5. SameBut(s, t, {l, n})
    BY <1>0, <2>3, <2>4 DEF SameBut, Shaped, FiniteTable
  <2>6. \A x \in DOMAIN s : /\ t[x][l] = IF x = w THEN o ELSE s[x][l]
                            /\ t[x][n] = s[x][n]
    BY <1>0, <2>4
  <2> QED BY <2>2, <2>5, <2>6 DEF t, MadeFirst
<1>3. CASE s[w][l] # NOTHING
  <2>1. t = [s EXCEPT ![b][n] = o, ![o][n] = NOTHING]
    BY <1>3 DEF LL_APPEND
  <2>2. b \in DOMAIN s /\ place[b] = w /\ s[b][n] = NOTHING
    <3>1. s[w][l] \in DOMAIN s /\ place[s[w][l]] = w
      BY <1>3 DEF Threaded, Links, OrNone
    <3>2. b \in Members(s, w, l, n) /\ s[b][n] = NOTHING
      BY <1>1, <3>1
    <3> QED BY <1>1, <3>2
  <2>3. b # o
    BY <1>0, <2>2
  <2> HIDE DEF t, b
  <2>4. DOMAIN t = DOMAIN s /\ \A x \in DOMAIN s : DOMAIN t[x] = Fields
    BY <1>0, <2>1, <2>2
  <2>5. \A x \in DOMAIN s : \A f \in Fields :
          t[x][f] = IF x = o /\ f = n THEN NOTHING
                    ELSE IF x = b /\ f = n THEN o ELSE s[x][f]
    BY <1>0, <2>1, <2>2
  <2>6. SameBut(s, t, {l, n})
    BY <1>0, <2>4, <2>5 DEF SameBut, Shaped, FiniteTable
  <2>7. \A x \in DOMAIN s : /\ t[x][l] = s[x][l]
                            /\ t[x][n] = IF x = b THEN o ELSE s[x][n]
    BY <1>0, <2>3, <2>5
  <2> QED BY <2>2, <2>6, <2>7 DEF t, PutBehind
<1> QED BY <1>2, <1>3

(* Then o is in the list of w. *)
LEMMA AppendThreaded ==
  ASSUME NEW s, Shaped(s), NEW place, NEW l \in Fields, NEW n \in Fields, l # n,
         Threaded(s, place, l, n), NEW o \in DOMAIN s, NEW w \in DOMAIN s, place[o] = NOTHING
  PROVE  Threaded(LL_APPEND(s, w, l, o, n), [place EXCEPT ![o] = w], l, n)
<1> DEFINE t == LL_APPEND(s, w, l, o, n)
           p == [place EXCEPT ![o] = w]
           first == MadeFirst(s, t, place, l, n, o, w)
           behind(b) == PutBehind(s, t, place, l, n, o, w, b)
<1>0. NOTHING \notin DOMAIN s /\ o # NOTHING /\ w # NOTHING
  BY DEF Shaped, FiniteTable, NOTHING
<1>1. DOMAIN t = DOMAIN s /\ (first \/ \E b \in DOMAIN s : behind(b))
  <2>1. /\ SameBut(s, t, {l, n})
        /\ first \/ \E b \in DOMAIN s : behind(b)
    BY AppendIs
  <2> QED BY <2>1 DEF SameBut
<1>2. /\ p \in [DOMAIN s -> OrNone(s)] /\ p[o] = w
      /\ \A x \in DOMAIN s : x # o => p[x] = place[x]
      /\ OrNone(t) = OrNone(s) /\ o \in OrNone(s)
  BY <1>1 DEF Threaded, OrNone
<1>3. /\ \A x \in DOMAIN s : s[x][n] # o /\ s[x][l] # o
      /\ s[o][n] = NOTHING
  BY <1>0 DEF Threaded
<1> HIDE DEF p, t
<1>4. CASE first
  <2>1. /\ \A x \in DOMAIN s : place[x] # w
        /\ \A x \in DOMAIN s : t[x][l] = IF x = w THEN o ELSE s[x][l]
        /\ \A x \in DOMAIN s : t[x][n] = s[x][n]
    BY <1>4 DEF MadeFirst
  <2> HIDE DEF first
  <2>2. Links(t, l) /\ Links(t, n)
    BY <1>1, <1>2, <2>1 DEF Threaded, Links
  <2>3. \A x \in DOMAIN s : p[x] = NOTHING => t[x][n] = NOTHING
    BY <1>2, <1>3, <2>1 DEF Threaded
  <2>4. \A u \in DOMAIN s : t[u][l] # NOTHING => p[t[u][l]] = u
    <3> SUFFICES ASSUME NEW u \in DOMAIN s, t[u][l] # NOTHING PROVE p[t[u][l]] = u
      OBVIOUS
    <3>1. CASE u = w
      BY <1>2, <2>1, <3>1
    <3>2. CASE u # w
      <4>1. t[u][l] = s[u][l] /\ s[u][l] \in DOMAIN s /\ place[s[u][l]] = u /\ s[u][l] # o
        BY <1>3, <2>1, <3>2 DEF Threaded, Links, OrNone
      <4> QED BY <1>2, <4>1
    <3> QED BY <3>1, <3>2
  <2>5. \A x \in DOMAIN s : t[x][n] # NOTHING => p[t[x][n]] = p[x]
    <3> SUFFICES ASSUME NEW x \in DOMAIN s, t[x][n] # NOTHING PROVE p[t[x][n]] = p[x]
      OBVIOUS
    <3>1. /\ t[x][n] = s[x][n] /\ s[x][n] \in DOMAIN s /\ s[x][n] # o /\ x # o
          /\ place[s[x][n]] = place[x]
      BY <1>3, <2>1 DEF Threaded, Links, OrNone
    <3> QED BY <1>2, <3>1
  <2>6. \A x, u \in DOMAIN s : t[x][n] # NOTHING => t[x][n] # t[u][l]
    BY <1>3, <2>1 DEF Threaded
  <2>7. \A x, y \in DOMAIN s : t[x][n] = t[y][n] /\ t[x][n] # NOTHING => x = y
    BY <2>1 DEF Threaded
  <2>8. \A x \in DOMAIN s : p[x] # NOTHING =>
          x = t[p[x]][l] \/ \E y \in DOMAIN s : t[y][n] = x
    <3> SUFFICES ASSUME NEW x \in DOMAIN s, p[x] # NOTHING
                 PROVE  x = t[p[x]][l] \/ \E y \in DOMAIN s : t[y][n] = x
      OBVIOUS
    <3>1. CASE x = o
      BY <1>2, <2>1, <3>1
    <3>2. CASE x # o
      <4>1. p[x] = place[x] /\ place[x] # w /\ place[x] \in DOMAIN s
        BY <1>2, <2>1, <3>2 DEF OrNone
      <4>2. x = s[place[x]][l] \/ \E y \in DOMAIN s : s[y][n] = x
        BY <4>1 DEF Threaded
      <4> QED BY <2>1, <4>1, <4>2
    <3> QED BY <3>1, <3>2
  <2>9. \A S \in SUBSET DOMAIN s : S # {} => \E y \in S : \A x \in S : t[x][n] # y
    <3> SUFFICES ASSUME NEW S \in SUBSET DOMAIN s, S # {}
                 PROVE  \E y \in S : \A x \in S : t[x][n] # y
      OBVIOUS
    <3>1. \E y \in S : \A x \in S : s[x][n] # y
      BY DEF Threaded
    <3> QED BY <2>1, <3>1
  <2>10. Threaded(t, p, l, n)
    BY <1>1, <1>2, <2>2, <2>3, <2>4, <2>5, <2>6, <2>7, <2>8, <2>9 DEF Threaded
  <2> QED BY <2>10 DEF t, p
<1>5. CASE \E b \in DOMAIN s : behind(b)
  <2>1. PICK b \in DOMAIN s : behind(b)
    BY <1>5
  <2>2. /\ place[b] = w /\ s[b][n] = NOTHING /\ b # o
        /\ \A x \in DOMAIN s : t[x][l] = s[x][l]
        /\ \A x \in DOMAIN s : t[x][n] = IF x = b THEN o ELSE s[x][n]
    BY <1>0, <2>1 DEF PutBehind
  <2> HIDE DEF behind
  <2>3. Links(t, l) /\ Links(t, n)
    BY <1>1, <1>2, <2>2 DEF Threaded, Links
  <2>4. \A x \in DOMAIN s : p[x] = NOTHING => t[x][n] = NOTHING
    BY <1>0, <1>2, <1>3, <2>2 DEF Threaded
  <2>5. \A u \in DOMAIN s : t[u][l] # NOTHING => p[t[u][l]] = u
    <3> SUFFICES ASSUME NEW u \in DOMAIN s, t[u][l] # NOTHING PROVE p[t[u][l]] = u
      OBVIOUS
    <3>1. t[u][l] = s[u][l] /\ s[u][l] \in DOMAIN s /\ place[s[u][l]] = u /\ s[u][l] # o
      BY <1>3, <2>2 DEF Threaded, Links, OrNone
    <3> QED BY <1>2, <3>1
  <2>6. \A x \in DOMAIN s : t[x][n] # NOTHING => p[t[x][n]] = p[x]
    <3> SUFFICES ASSUME NEW x \in DOMAIN s, t[x][n] # NOTHING PROVE p[t[x][n]] = p[x]
      OBVIOUS
    <3>1. CASE x = b
      BY <1>2, <2>2, <3>1
    <3>2. CASE x # b
      <4>1. /\ t[x][n] = s[x][n] /\ s[x][n] \in DOMAIN s /\ s[x][n] # o /\ x # o
            /\ place[s[x][n]] = place[x]
        BY <1>3, <2>2, <3>2 DEF Threaded, Links, OrNone
      <4> QED BY <1>2, <4>1
    <3> QED BY <3>1, <3>2
  <2>7. \A x, u \in DOMAIN s : t[x][n] # NOTHING => t[x][n] # t[u][l]
    BY <1>3, <2>2 DEF Threaded
  <2>8. \A x, y \in DOMAIN s : t[x][n] = t[y][n] /\ t[x][n] # NOTHING => x = y
    BY <1>3, <2>2 DEF Threaded
  <2>9. \A x \in DOMAIN s : p[x] # NOTHING =>
          x = t[p[x]][l] \/ \E y \in DOMAIN s : t[y][n] = x
    <3> SUFFICES ASSUME NEW x \in DOMAIN s, p[x] # NOTHING
                 PROVE  x = t[p[x]][l] \/ \E y \in DOMAIN s : t[y][n] = x
      OBVIOUS
    <3>1. CASE x = o
      BY <2>2, <3>1
    <3>2. CASE x # o
      <4>1. p[x] = place[x] /\ place[x] \in DOMAIN s /\ x # NOTHING
        BY <1>0, <1>2, <3>2 DEF OrNone
      <4>2. x = s[place[x]][l] \/ \E y \in DOMAIN s : s[y][n] = x
        BY <4>1 DEF Threaded
      <4> QED BY <2>2, <4>1, <4>2
    <3> QED BY <3>1, <3>2
  <2>10. ASSUME NEW S \in SUBSET DOMAIN s, S # {}, \A y \in S : \E x \in S : t[x][n] = y
         PROVE  FALSE
    <3> DEFINE S2 == S \ {o}
    <3>1. b \in S => S2 # {}
      BY <2>2
    <3>2. S2 # {}
      <4>1. PICK y \in S : TRUE
        BY <2>10
      <4>2. CASE y = o
        <5>1. PICK x \in S : t[x][n] = o
          BY <2>10, <4>2
        <5>2. x = b
          BY <1>3, <2>2, <5>1
        <5> QED BY <3>1, <5>2
      <4>3. CASE y # o
        BY <4>3
      <4> QED BY <4>2, <4>3
    <3>3. ASSUME NEW y \in S2 PROVE \E x \in S2 : s[x][n] = y
      <4>1. PICK x \in S : t[x][n] = y
        BY <2>10
      <4>2. y # o /\ y # NOTHING
        BY <1>0
      <4>3. s[x][n] = y /\ x # o
        BY <1>3, <2>2, <4>1, <4>2
      <4> QED BY <4>3
    <3>4. S2 \in SUBSET DOMAIN s
      OBVIOUS
    <3> HIDE DEF S2
    <3>5. \E y \in S2 : \A x \in S2 : s[x][n] # y
      BY <3>2, <3>4 DEF Threaded
    <3> QED BY <3>3, <3>5
  <2>11. \A S \in SUBSET DOMAIN s : S # {} => \E y \in S : \A x \in S : t[x][n] # y
    BY <2>10
  <2>12. Threaded(t, p, l, n)
    BY <1>1, <1>2, <2>3, <2>4, <2>5, <2>6, <2>7, <2>8, <2>9, <2>11 DEF Threaded
  <2> QED BY <2>12 DEF t, p
<1> QED BY <1>1, <1>4, <1>5

-----------------------------------------------------------------------------
(* The links of one hierarchy: up leads to what an object is under, l to the   *)
(* first of what is under it and n to the next.                                *)
Place(s, up) == [x \in DOMAIN s |-> s[x][up]]

Hierarchy(s, up, l, n) ==
  Links(s, up) /\ Acyclic(s, up) /\ Threaded(s, Place(s, up), l, n)

(* The lists depend on their own links only, *)
LEMMA ThreadedSame ==
  ASSUME NEW s, NEW t, DOMAIN t = DOMAIN s, NEW place, NEW l, NEW n,
         \A x \in DOMAIN s : t[x][l] = s[x][l] /\ t[x][n] = s[x][n],
         Threaded(s, place, l, n)
  PROVE  Threaded(t, place, l, n)
<1>1. OrNone(t) = OrNone(s)
  BY DEF OrNone
<1>2. Links(t, l) /\ Links(t, n)
  BY <1>1 DEF Threaded, Links
<1>3. \A o \in DOMAIN s : place[o] # NOTHING =>
         o = t[place[o]][l] \/ \E x \in DOMAIN s : t[x][n] = o
  <2> SUFFICES ASSUME NEW o \in DOMAIN s, place[o] # NOTHING
               PROVE  o = t[place[o]][l] \/ \E x \in DOMAIN s : t[x][n] = o
    OBVIOUS
  <2>1. place[o] \in DOMAIN s
    BY DEF Threaded, OrNone
  <2>2. o = s[place[o]][l] \/ \E x \in DOMAIN s : s[x][n] = o
    BY DEF Threaded
  <2> QED BY <2>1, <2>2
<1>4. \A S \in SUBSET DOMAIN s : S # {} => \E o \in S : \A x \in S : t[x][n] # o
  <2> SUFFICES ASSUME NEW S \in SUBSET DOMAIN s, S # {}
               PROVE  \E o \in S : \A x \in S : t[x][n] # o
    OBVIOUS
  <2>1. \E o \in S : \A x \in S : s[x][n] # o
    BY DEF Threaded
  <2> QED BY <2>1
<1>5. /\ place \in [DOMAIN s -> OrNone(s)]
      /\ \A o \in DOMAIN s : place[o] = NOTHING => t[o][n] = NOTHING
      /\ \A w \in DOMAIN s : t[w][l] # NOTHING => place[t[w][l]] = w
      /\ \A o \in DOMAIN s : t[o][n] # NOTHING => place[t[o][n]] = place[o]
      /\ \A o, w \in DOMAIN s : t[o][n] # NOTHING => t[o][n] # t[w][l]
      /\ \A o, x \in DOMAIN s : t[o][n] = t[x][n] /\ t[o][n] # NOTHING => o = x
  BY DEF Threaded
<1> QED BY <1>1, <1>2, <1>3, <1>4, <1>5 DEF Threaded

(* and so does what is above an object, *)
LEMMA AncestorsSame ==
  ASSUME NEW s, NEW t, DOMAIN t = DOMAIN s, NEW f,
         \A x \in DOMAIN s : t[x][f] = s[x][f], NEW o
  PROVE  Ancestors(t, o, f) = Ancestors(s, o, f)
<1>1. [x \in DOMAIN t |-> {t[x][f]}] = [x \in DOMAIN s |-> {s[x][f]}]
  OBVIOUS
<1> QED BY <1>1 DEF Ancestors

(* and so the whole hierarchy. *)
LEMMA HierarchySame ==
  ASSUME NEW s, NEW t, DOMAIN t = DOMAIN s, NEW up, NEW l, NEW n,
         \A x \in DOMAIN s : \A f \in {up, l, n} : t[x][f] = s[x][f],
         Hierarchy(s, up, l, n)
  PROVE  Hierarchy(t, up, l, n)
<1>1. \A x \in DOMAIN s : /\ t[x][up] = s[x][up]
                          /\ t[x][l] = s[x][l] /\ t[x][n] = s[x][n]
  OBVIOUS
<1>2. Links(t, up)
  BY <1>1 DEF Hierarchy, Links, OrNone
<1>3. Acyclic(t, up)
  <2> SUFFICES ASSUME NEW S \in SUBSET DOMAIN s, S # {} PROVE \E o \in S : t[o][up] \notin S
    BY DEF Acyclic
  <2>1. \E o \in S : s[o][up] \notin S
    BY DEF Hierarchy, Acyclic
  <2> QED BY <1>1, <2>1
<1>4. Place(t, up) = Place(s, up)
  BY <1>1 DEF Place
<1>5. Threaded(t, Place(s, up), l, n)
  BY <1>1, ThreadedSame DEF Hierarchy
<1> QED BY <1>2, <1>3, <1>4, <1>5 DEF Hierarchy

(* What db_change_parent() and db_change_location() do to one hierarchy. *)
Relocated(s, o, p, up, l, n) ==
  LET old == s[o][up]
      s1  == IF old # NOTHING THEN LL_REMOVE(s, old, l, o, n) ELSE s
      s2  == IF p # NOTHING THEN LL_APPEND(s1, p, l, o, n) ELSE s1
  IN [s2 EXCEPT ![o][up] = p]

LEMMA RelocatedIs ==
  ASSUME NEW s, Shaped(s),
         NEW up \in Fields, NEW l \in Fields, NEW n \in Fields, up # l, up # n, l # n,
         Hierarchy(s, up, l, n),
         NEW o \in DOMAIN s, NEW p \in OrNone(s), o \notin Ancestors(s, p, up)
  PROVE  LET t == Relocated(s, o, p, up, l, n)
         IN /\ SameBut(s, t, {up, l, n})
            /\ \A x \in DOMAIN s : t[x][up] = IF x = o THEN p ELSE s[x][up]
            /\ Hierarchy(t, up, l, n)
<1> DEFINE old == s[o][up]
           s1 == IF old # NOTHING THEN LL_REMOVE(s, old, l, o, n) ELSE s
           s2 == IF p # NOTHING THEN LL_APPEND(s1, p, l, o, n) ELSE s1
           t == [s2 EXCEPT ![o][up] = p]
           q == Place(s, up)
           q1 == [q EXCEPT ![o] = NOTHING]
           q2 == [q1 EXCEPT ![o] = p]
<1>1. old \in OrNone(s) /\ q[o] = old /\ q \in [DOMAIN s -> OrNone(s)]
  BY DEF Hierarchy, Links, Place
<1>2. SameBut(s, s1, {l, n}) /\ Threaded(s1, q1, l, n)
  <2>1. CASE old # NOTHING
    <3>1. old \in DOMAIN s /\ s1 = LL_REMOVE(s, old, l, o, n) /\ Threaded(s, q, l, n)
      BY <1>1, <2>1 DEF OrNone, Hierarchy
    <3> HIDE DEF s1, old, q
    <3>2. SameBut(s, s1, {l, n})
      BY <1>1, <3>1, RemoveIs
    <3>3. Threaded(s1, [q EXCEPT ![o] = NOTHING], l, n)
      BY <1>1, <3>1, RemoveThreaded
    <3> QED BY <3>2, <3>3
  <2>2. CASE old = NOTHING
    <3>1. s1 = s /\ Threaded(s, q, l, n)
      BY <2>2 DEF Hierarchy
    <3>2. q1 = q
      <4> HIDE DEF q
      <4> QED BY <1>1, <2>2
    <3> QED BY <3>1, <3>2 DEF SameBut
  <2> QED BY <2>1, <2>2
<1>3. q1 \in [DOMAIN s -> OrNone(s)] /\ q1[o] = NOTHING
  BY <1>1 DEF OrNone
<1>4. DOMAIN s1 = DOMAIN s /\ Shaped(s1) /\ \A x \in DOMAIN s : s1[x][up] = s[x][up]
  BY <1>2 DEF SameBut
<1> HIDE DEF s1, q, q1
<1>5. SameBut(s1, s2, {l, n}) /\ Threaded(s2, q2, l, n)
  <2>1. CASE p # NOTHING
    <3>1. p \in DOMAIN s1 /\ s2 = LL_APPEND(s1, p, l, o, n)
      BY <1>4, <2>1 DEF OrNone
    <3> HIDE DEF s2
    <3>2. SameBut(s1, s2, {l, n})
      BY <1>2, <1>3, <1>4, <3>1, AppendIs
    <3>3. Threaded(s2, [q1 EXCEPT ![o] = p], l, n)
      BY <1>2, <1>3, <1>4, <3>1, AppendThreaded
    <3> QED BY <3>2, <3>3
  <2>2. CASE p = NOTHING
    <3>1. s2 = s1
      BY <2>2
    <3>2. q2 = q1
      BY <1>3, <2>2
    <3> QED BY <1>2, <1>4, <3>1, <3>2 DEF SameBut
  <2> QED BY <2>1, <2>2
<1>6. /\ DOMAIN s2 = DOMAIN s /\ Shaped(s2)
      /\ \A x \in DOMAIN s : \A f \in Fields \ {l, n} : s2[x][f] = s[x][f]
  BY <1>2, <1>5 DEF SameBut
<1> HIDE DEF s2
<1>7. /\ DOMAIN t = DOMAIN s
      /\ \A x \in DOMAIN s : DOMAIN t[x] = Fields
      /\ \A x \in DOMAIN s : \A f \in Fields :
           t[x][f] = IF x = o /\ f = up THEN p ELSE s2[x][f]
  BY <1>6 DEF Shaped
<1> HIDE DEF t
<1>8. SameBut(s, t, {up, l, n})
  <2>1. FiniteTable(t)
    BY <1>7 DEF Shaped, FiniteTable
  <2>2. \A x \in DOMAIN s : \A f \in Fields \ {up, l, n} : t[x][f] = s[x][f]
    BY <1>6, <1>7
  <2> QED BY <1>7, <2>1, <2>2 DEF SameBut, Shaped
<1>9. \A x \in DOMAIN s : t[x][up] = IF x = o THEN p ELSE s[x][up]
  BY <1>6, <1>7
<1>10. Links(t, up)
  BY <1>7, <1>9 DEF Hierarchy, Links, OrNone
<1>11. Acyclic(t, up)
  BY <1>7, <1>9, AcyclicMoved DEF Hierarchy, Shaped
<1>12. Place(t, up) = q2
  <2>1. /\ q2 \in [DOMAIN s -> OrNone(s)]
        /\ \A x \in DOMAIN s : q2[x] = IF x = o THEN p ELSE s[x][up]
    BY <1>1, <1>3 DEF q1, q, Place
  <2> HIDE DEF q2
  <2> QED BY <1>7, <1>9, <2>1 DEF Place
<1>13. Threaded(t, q2, l, n)
  <2>1. \A x \in DOMAIN s2 : t[x][l] = s2[x][l] /\ t[x][n] = s2[x][n]
    BY <1>6, <1>7
  <2> HIDE DEF q2
  <2> QED BY <1>5, <1>6, <1>7, <2>1, ThreadedSame
<1>14. Hierarchy(t, up, l, n)
  BY <1>10, <1>11, <1>12, <1>13 DEF Hierarchy
<1> QED BY <1>8, <1>9, <1>14 DEF Relocated, t, s2, s1

-----------------------------------------------------------------------------
(* A sound table: two hierarchies, and no property is defined both on an       *)
(* object and above it.                                                        *)
Inheritance(s) == Hierarchy(s, "parent", "child", "sibling")

Whereabouts(s) == Hierarchy(s, "location", "contents", "next")

DefinedOnce(s) ==
  \A x \in DOMAIN s : \A y \in Ancestors(s, x, "parent") :
    y # x => s[x].propdefs \cap s[y].propdefs = {}

Sound(s) == Shaped(s) /\ Inheritance(s) /\ Whereabouts(s) /\ DefinedOnce(s)

LEMMA FieldNames ==
  Fields = {"parent", "child", "sibling", "location", "contents", "next", "user", "propdefs"}
BY DEF Fields, NewObject

(* A table with the links and definitions of a sound one is sound. *)
LEMMA SoundSame ==
  ASSUME NEW s, Sound(s), NEW t, SameBut(s, t, {"user"})
  PROVE  Sound(t)
<1>1. /\ DOMAIN t = DOMAIN s
      /\ \A x \in DOMAIN s :
           \A f \in {"parent", "child", "sibling", "location", "contents", "next", "propdefs"} :
             t[x][f] = s[x][f]
  BY FieldNames DEF SameBut
<1>2. Inheritance(t)
  BY <1>1, HierarchySame DEF Sound, Inheritance
<1>3. Whereabouts(t)
  BY <1>1, HierarchySame DEF Sound, Whereabouts
<1>4. \A x : Ancestors(t, x, "parent") = Ancestors(s, x, "parent")
  BY <1>1, AncestorsSame
<1>5. DefinedOnce(t)
  <2> SUFFICES ASSUME NEW x \in DOMAIN s, NEW y \in Ancestors(s, x, "parent"), y # x
               PROVE  t[x].propdefs \cap t[y].propdefs = {}
    BY <1>1, <1>4 DEF DefinedOnce
  <2>1. y \in DOMAIN s
    BY AncestorsAre DEF Sound, Shaped, Inheritance, Hierarchy, OrNone
  <2>2. s[x].propdefs \cap s[y].propdefs = {}
    BY DEF Sound, DefinedOnce
  <2> QED BY <1>1, <2>1, <2>2
<1> QED BY <1>2, <1>3, <1>5 DEF Sound, SameBut

(* Moving an object to where it is not inside itself. *)
LEMMA LocationChanged ==
  ASSUME NEW s, Sound(s), NEW o \in DOMAIN s, NEW p \in OrNone(s),
         o \notin Ancestors(s, p, "location")
  PROVE  LET t == db_change_location(s, o, p)
         IN /\ Sound(t) /\ DOMAIN t = DOMAIN s
            /\ \A x \in DOMAIN s : /\ t[x].location = IF x = o THEN p ELSE s[x].location
                                   /\ t[x].user = s[x].user
<1> DEFINE t == db_change_location(s, o, p)
<1>1. s[o].location \in OrNone(s) /\ NOTHING \notin DOMAIN s
  BY DEF Sound, Whereabouts, Hierarchy, Links, Shaped, FiniteTable, NOTHING
<1>2. t = Relocated(s, o, p, "location", "contents", "next")
  BY <1>1 DEF db_change_location, Relocated, Valid, OrNone
<1> HIDE DEF t
<1>3. Shaped(s) /\ Hierarchy(s, "location", "contents", "next")
  BY DEF Sound, Whereabouts
<1>4. "location" \in Fields /\ "contents" \in Fields /\ "next" \in Fields
  BY FieldNames
<1>5. /\ SameBut(s, t, {"location", "contents", "next"})
      /\ \A x \in DOMAIN s : t[x]["location"] = IF x = o THEN p ELSE s[x]["location"]
      /\ Hierarchy(t, "location", "contents", "next")
  <2>1. "location" # "contents" /\ "location" # "next" /\ "contents" # "next"
    OBVIOUS
  <2>2. LET r == Relocated(s, o, p, "location", "contents", "next")
        IN /\ SameBut(s, r, {"location", "contents", "next"})
           /\ \A x \in DOMAIN s : r[x]["location"] = IF x = o THEN p ELSE s[x]["location"]
           /\ Hierarchy(r, "location", "contents", "next")
    BY <1>3, <1>4, <2>1, RelocatedIs
  <2> QED BY <1>2, <2>2
<1>6. /\ DOMAIN t = DOMAIN s /\ Shaped(t)
      /\ \A x \in DOMAIN s :
           \A f \in {"parent", "child", "sibling", "user", "propdefs"} : t[x][f] = s[x][f]
  BY <1>5, FieldNames DEF SameBut
<1>7. Inheritance(t)
  BY <1>6, HierarchySame DEF Sound, Inheritance
<1>8. \A x : Ancestors(t, x, "parent") = Ancestors(s, x, "parent")
  BY <1>6, AncestorsSame
<1>9. DefinedOnce(t)
  <2> SUFFICES ASSUME NEW x \in DOMAIN s, NEW y \in Ancestors(s, x, "parent"), y # x
               PROVE  t[x].propdefs \cap t[y].propdefs = {}
    BY <1>6, <1>8 DEF DefinedOnce
  <2>1. y \in DOMAIN s
    BY AncestorsAre DEF Sound, Shaped, Inheritance, Hierarchy, OrNone
  <2>2. s[x].propdefs \cap s[y].propdefs = {}
    BY DEF Sound, DefinedOnce
  <2> QED BY <1>6, <2>1, <2>2
<1> QED BY <1>5, <1>6, <1>7, <1>9 DEF Sound, Whereabouts, t

(* x is at or below o if and only if o is at or above x. *)
LEMMA BelowIsAbove ==
  ASSUME NEW s, Shaped(s), Inheritance(s), NEW o \in DOMAIN s
  PROVE  AtOrBelow(s, o) = {x \in DOMAIN s : o \in Ancestors(s, x, "parent")}
<1> DEFINE step == [x \in DOMAIN s |-> Members(s, x, "child", "sibling")]
<1>0. /\ FiniteTable(s) /\ Links(s, "parent") /\ NOTHING \notin DOMAIN s
      /\ Threaded(s, Place(s, "parent"), "child", "sibling")
  BY DEF Shaped, Inheritance, Hierarchy, FiniteTable, NOTHING
<1>1. \A w \in DOMAIN s : Members(s, w, "child", "sibling") = {x \in DOMAIN s : s[x].parent = w}
  <2> TAKE w \in DOMAIN s
  <2>1. Members(s, w, "child", "sibling") = {x \in DOMAIN s : Place(s, "parent")[x] = w}
    BY <1>0, ListedIs
  <2> QED BY <2>1 DEF Place
<1>2. /\ DOMAIN step = DOMAIN s /\ IsFiniteSet(DOMAIN step)
      /\ \A w \in DOMAIN s : step[w] = {x \in DOMAIN s : s[x].parent = w}
  BY <1>0, <1>1 DEF FiniteTable
<1> HIDE DEF step
<1>3. \A y : /\ y \in Reached(step, y)
             /\ \A x \in DOMAIN s : x \in Reached(step, y) => step[x] \subseteq Reached(step, y)
             /\ \A C : (y \in C /\ \A x \in DOMAIN s : x \in C => step[x] \subseteq C)
                        => Reached(step, y) \subseteq C
  BY <1>2, ReachedIs
<1>4. \A y : AtOrBelow(s, y) = Reached(step, y)
  BY DEF AtOrBelow, step
<1>5. ASSUME NEW x \in DOMAIN s, o \in Ancestors(s, x, "parent") PROVE x \in Reached(step, o)
  <2> DEFINE C == {y \in DOMAIN s : x \in Reached(step, y)}
  <2>1. x \in C
    BY <1>3
  <2>2. ASSUME NEW y \in C, s[y].parent # NOTHING PROVE s[y].parent \in C
    <3>1. s[y].parent \in DOMAIN s
      BY <1>0, <2>2 DEF Links, OrNone
    <3> DEFINE p == s[y].parent
    <3>2. y \in step[p]
      BY <1>2, <3>1
    <3>3. y \in Reached(step, p)
      BY <1>3, <3>1, <3>2
    <3>4. Reached(step, y) \subseteq Reached(step, p)
      <4> DEFINE D == Reached(step, p)
      <4>1. y \in D /\ \A z \in DOMAIN s : z \in D => step[z] \subseteq D
        BY <1>3, <3>3
      <4> HIDE DEF D
      <4>2. Reached(step, y) \subseteq D
        BY <1>3, <4>1
      <4> QED BY <4>2 DEF D
    <3> QED BY <2>2, <3>1, <3>4
  <2>3. x \in OrNone(s) /\ \A y \in C \cap DOMAIN s : s[y]["parent"] # NOTHING => s[y]["parent"] \in C
    BY <2>2 DEF OrNone
  <2> HIDE DEF C
  <2>4. Ancestors(s, x, "parent") \subseteq C
    BY <1>0, <2>1, <2>3, AncestorsAre
  <2> QED BY <1>5, <2>4 DEF C
<1>6. Reached(step, o) \subseteq {x \in DOMAIN s : o \in Ancestors(s, x, "parent")}
  <2> DEFINE C == {x \in DOMAIN s : o \in Ancestors(s, x, "parent")}
  <2>1. o \in C
    BY <1>0, AncestorsAre DEF OrNone
  <2>2. ASSUME NEW y \in C, NEW x \in step[y] PROVE x \in C
    <3>1. x \in DOMAIN s /\ s[x].parent = y
      BY <1>2, <2>2
    <3>2. Ancestors(s, x, "parent") = {x} \cup Ancestors(s, y, "parent")
      BY <1>0, <3>1, AncestorsStep
    <3> QED BY <2>2, <3>1, <3>2
  <2> HIDE DEF C
  <2>3. Reached(step, o) \subseteq C
    BY <1>3, <2>1, <2>2
  <2> QED BY <2>3 DEF C
<1> QED BY <1>4, <1>5, <1>6

(* After o has gone under p, what is above x was above it before or is above p. *)
LEMMA AncestorsMoved ==
  ASSUME NEW s, Shaped(s), NEW f, Links(s, f), NEW o \in DOMAIN s, NEW p \in OrNone(s),
         NEW t, DOMAIN t = DOMAIN s, \A x \in DOMAIN s : t[x][f] = IF x = o THEN p ELSE s[x][f],
         NEW x \in DOMAIN s, NEW y \in Ancestors(t, x, f)
  PROVE  y \in Ancestors(s, x, f) \/ (o \in Ancestors(s, x, f) /\ y \in Ancestors(s, p, f))
<1>0. /\ FiniteTable(s) /\ FiniteTable(t) /\ Links(t, f)
      /\ x \in OrNone(s) /\ x \in OrNone(t) /\ x # NOTHING
  BY DEF Shaped, FiniteTable, Links, OrNone, NOTHING
<1> DEFINE A == Ancestors(s, x, f)
           B == Ancestors(s, p, f)
           C == IF o \in A THEN A \cup B ELSE A
<1>1. /\ x \in A /\ A \subseteq DOMAIN s
      /\ \A z \in A : s[z][f] # NOTHING => s[z][f] \in A
  BY <1>0, AncestorsAre
<1>2. /\ B \subseteq DOMAIN s /\ (p # NOTHING => p \in B)
      /\ \A z \in B : s[z][f] # NOTHING => s[z][f] \in B
  BY <1>0, AncestorsAre
<1> HIDE DEF A, B
<1>3. x \in C /\ \A z \in C \cap DOMAIN t : t[z][f] # NOTHING => t[z][f] \in C
  BY <1>1, <1>2
<1> HIDE DEF C
<1>4. Ancestors(t, x, f) \subseteq C
  BY <1>0, <1>3, AncestorsAre
<1> QED BY <1>4 DEF A, B, C

(* db_change_parent() for a parent that is not below o; it does nothing when   *)
(* the new ancestors define what o or a descendant defines.                    *)
LEMMA ParentChanged ==
  ASSUME NEW s, Sound(s), NEW o \in DOMAIN s, NEW p \in OrNone(s),
         o \notin Ancestors(s, p, "parent")
  PROVE  LET t == db_change_parent(s, o, p)
         IN /\ Sound(t) /\ DOMAIN t = DOMAIN s
            /\ \A x \in DOMAIN s :
                 /\ t[x].parent = IF x = o /\ MayBeUnder(s, o, p) THEN p ELSE s[x].parent
                 /\ \A f \in {"location", "contents", "next", "user", "propdefs"} : t[x][f] = s[x][f]
<1> DEFINE t == db_change_parent(s, o, p)
<1>0. /\ s[o].parent \in OrNone(s) /\ NOTHING \notin DOMAIN s
      /\ FiniteTable(s) /\ Links(s, "parent")
  BY DEF Sound, Inheritance, Hierarchy, Links, Shaped, FiniteTable, NOTHING
<1>1. CASE ~MayBeUnder(s, o, p)
  BY <1>1 DEF db_change_parent
<1>2. CASE MayBeUnder(s, o, p)
  <2>1. t = Relocated(s, o, p, "parent", "child", "sibling")
    BY <1>2 DEF db_change_parent, Relocated
  <2> HIDE DEF t
  <2>2. Shaped(s) /\ Hierarchy(s, "parent", "child", "sibling")
    BY DEF Sound, Inheritance
  <2>3. /\ "parent" \in Fields /\ "child" \in Fields /\ "sibling" \in Fields
        /\ "parent" # "child" /\ "parent" # "sibling" /\ "child" # "sibling"
    BY FieldNames
  <2>4. /\ SameBut(s, t, {"parent", "child", "sibling"})
        /\ \A x \in DOMAIN s : t[x]["parent"] = IF x = o THEN p ELSE s[x]["parent"]
        /\ Hierarchy(t, "parent", "child", "sibling")
    <3>1. LET r == Relocated(s, o, p, "parent", "child", "sibling")
          IN /\ SameBut(s, r, {"parent", "child", "sibling"})
             /\ \A x \in DOMAIN s : r[x]["parent"] = IF x = o THEN p ELSE s[x]["parent"]
             /\ Hierarchy(r, "parent", "child", "sibling")
      BY <2>2, <2>3, RelocatedIs
    <3> QED BY <2>1, <3>1
  <2>5. /\ DOMAIN t = DOMAIN s /\ Shaped(t)
        /\ \A x \in DOMAIN s :
             \A f \in {"location", "contents", "next", "user", "propdefs"} : t[x][f] = s[x][f]
    BY <2>4, FieldNames DEF SameBut
  <2>6. Whereabouts(t)
    BY <2>5, HierarchySame DEF Sound, Whereabouts
  <2>7. DefinedOnce(t)
    <3> SUFFICES ASSUME NEW x \in DOMAIN s, NEW y \in Ancestors(t, x, "parent"), y # x
                 PROVE  t[x].propdefs \cap t[y].propdefs = {}
      BY <2>5 DEF DefinedOnce
    <3>1. \/ y \in Ancestors(s, x, "parent")
          \/ o \in Ancestors(s, x, "parent") /\ y \in Ancestors(s, p, "parent")
      BY <1>0, <2>2, <2>4, <2>5, AncestorsMoved
    <3>2. /\ Ancestors(s, x, "parent") \subseteq DOMAIN s
          /\ Ancestors(s, p, "parent") \subseteq DOMAIN s
      BY <1>0, AncestorsAre DEF OrNone
    <3>3. t[x].propdefs = s[x].propdefs /\ t[y].propdefs = s[y].propdefs
      BY <2>5, <3>1, <3>2
    <3>4. CASE y \in Ancestors(s, x, "parent")
      BY <3>3, <3>4 DEF Sound, DefinedOnce
    <3>5. CASE o \in Ancestors(s, x, "parent") /\ y \in Ancestors(s, p, "parent")
      <4>1. x \in AtOrBelow(s, o)
        BY <2>2, <3>5, BelowIsAbove DEF Inheritance
      <4>2. s[x].propdefs \subseteq DefinedAtOrBelow(s, o)
        BY <4>1 DEF DefinedAtOrBelow
      <4>3. s[y].propdefs \subseteq DefinedAtOrAbove(s, p)
        BY <3>5 DEF DefinedAtOrAbove
      <4> QED BY <1>2, <3>3, <4>2, <4>3 DEF MayBeUnder
    <3> QED BY <3>1, <3>4, <3>5
  <2>8. Sound(t)
    BY <2>4, <2>5, <2>6, <2>7 DEF Sound, Inheritance
  <2> QED BY <1>2, <2>4, <2>5, <2>8 DEF t
<1> QED BY <1>1, <1>2

-----------------------------------------------------------------------------
(* A new object, linked to nothing. *)
Extended(s, o) == [x \in DOMAIN s \cup {o} |-> IF x = o THEN NewObject ELSE s[x]]

LEMMA HierarchyExtended ==
  ASSUME NEW s, Shaped(s), NEW up, NEW l, NEW n, Hierarchy(s, up, l, n),
         NewObject[up] = NOTHING, NewObject[l] = NOTHING, NewObject[n] = NOTHING,
         NEW o \in Nat, o \notin DOMAIN s
  PROVE  Hierarchy(Extended(s, o), up, l, n)
<1> DEFINE t == Extended(s, o)
           D == DOMAIN s
<1>1. /\ DOMAIN t = D \cup {o} /\ o \notin D
      /\ t[o][up] = NOTHING /\ t[o][l] = NOTHING /\ t[o][n] = NOTHING
      /\ \A x \in D : t[x] = s[x]
  BY DEF Extended
<1>2. NOTHING \notin D /\ o # NOTHING
  BY DEF Shaped, FiniteTable, NOTHING
<1> HIDE DEF t
<1>3. /\ OrNone(s) = D \cup {NOTHING}
      /\ OrNone(t) = D \cup {o, NOTHING}
  BY <1>1 DEF OrNone
<1>4. Links(s, up) /\ Links(s, l) /\ Links(s, n) /\ Threaded(s, Place(s, up), l, n)
  BY DEF Hierarchy, Threaded
<1>5. Links(t, up) /\ Links(t, l) /\ Links(t, n)
  BY <1>1, <1>3, <1>4 DEF Links
<1>6. Acyclic(t, up)
  <2> SUFFICES ASSUME NEW S \in SUBSET (D \cup {o}), S # {}, \A x \in S : t[x][up] \in S
               PROVE  FALSE
    BY <1>1 DEF Acyclic
  <2>1. o \notin S
    BY <1>1, <1>2
  <2>2. S \in SUBSET D /\ \A x \in S : s[x][up] \in S
    BY <1>1, <2>1
  <2> QED BY <2>2 DEF Hierarchy, Acyclic
<1>7. /\ Place(t, up) \in [D \cup {o} -> OrNone(t)] /\ Place(t, up)[o] = NOTHING
      /\ \A x \in D : Place(t, up)[x] = Place(s, up)[x]
      /\ \A x \in D : Place(s, up)[x] \in D \cup {NOTHING}
  BY <1>1, <1>3, <1>4, <1>5 DEF Place, Links
<1> DEFINE p == Place(s, up)
           q == Place(t, up)
<1> HIDE DEF p, q
<1>8. /\ \A x \in DOMAIN t : q[x] = NOTHING => t[x][n] = NOTHING
      /\ \A w \in DOMAIN t : t[w][l] # NOTHING => q[t[w][l]] = w
      /\ \A x \in DOMAIN t : t[x][n] # NOTHING => q[t[x][n]] = q[x]
  BY <1>1, <1>3, <1>4, <1>7 DEF Threaded, Links, p, q
<1>9. /\ \A x, w \in DOMAIN t : t[x][n] # NOTHING => t[x][n] # t[w][l]
      /\ \A x, y \in DOMAIN t : t[x][n] = t[y][n] /\ t[x][n] # NOTHING => x = y
  BY <1>1, <1>4 DEF Threaded
<1>10. \A x \in DOMAIN t : q[x] # NOTHING =>
         x = t[q[x]][l] \/ \E y \in DOMAIN t : t[y][n] = x
  <2> SUFFICES ASSUME NEW x \in DOMAIN t, q[x] # NOTHING
               PROVE  x = t[q[x]][l] \/ \E y \in DOMAIN t : t[y][n] = x
    OBVIOUS
  <2>1. x \in D /\ p[x] = q[x] /\ q[x] \in D
    BY <1>1, <1>7 DEF p, q
  <2>2. x = s[q[x]][l] \/ \E y \in D : s[y][n] = x
    BY <1>4, <2>1 DEF Threaded, p
  <2> QED BY <1>1, <2>1, <2>2
<1>11. \A S \in SUBSET DOMAIN t : S # {} => \E y \in S : \A x \in S : t[x][n] # y
  <2> SUFFICES ASSUME NEW S \in SUBSET (D \cup {o}), S # {},
                      \A y \in S : \E x \in S : t[x][n] = y
               PROVE  FALSE
    BY <1>1
  <2>1. o \notin S
    BY <1>1, <1>2, <1>3, <1>4 DEF Links
  <2>2. S \in SUBSET D /\ \A y \in S : \E x \in S : s[x][n] = y
    BY <1>1, <2>1
  <2>3. \E y \in S : \A x \in S : s[x][n] # y
    BY <1>4, <2>2 DEF Threaded
  <2> QED BY <2>2, <2>3
<1>12. Threaded(t, q, l, n)
  BY <1>1, <1>5, <1>7, <1>8, <1>9, <1>10, <1>11 DEF Threaded, q
<1> QED BY <1>5, <1>6, <1>12 DEF Hierarchy, q, t

LEMMA ExtendedSound ==
  ASSUME NEW s, Sound(s), NEW o \in Nat, o \notin DOMAIN s
  PROVE  Sound(Extended(s, o))
<1> DEFINE t == Extended(s, o)
<1>1. /\ DOMAIN t = DOMAIN s \cup {o} /\ t[o] = NewObject
      /\ \A x \in DOMAIN s : t[x] = s[x]
  BY DEF Extended
<1>2. /\ NewObject.parent = NOTHING /\ NewObject.child = NOTHING /\ NewObject.sibling = NOTHING
      /\ NewObject.location = NOTHING /\ NewObject.contents = NOTHING
      /\ NewObject.next = NOTHING /\ NewObject.propdefs = {}
  BY DEF NewObject
<1>3. Inheritance(t)
  <2>1. Hierarchy(s, "parent", "child", "sibling")
    BY DEF Sound, Inheritance
  <2>2. NewObject["parent"] = NOTHING /\ NewObject["child"] = NOTHING /\ NewObject["sibling"] = NOTHING
    BY <1>2
  <2> QED BY <2>1, <2>2, HierarchyExtended DEF Sound, Inheritance
<1>4. Whereabouts(t)
  <2>1. Hierarchy(s, "location", "contents", "next")
    BY DEF Sound, Whereabouts
  <2>2. NewObject["location"] = NOTHING /\ NewObject["contents"] = NOTHING /\ NewObject["next"] = NOTHING
    BY <1>2
  <2> QED BY <2>1, <2>2, HierarchyExtended DEF Sound, Whereabouts
<1> HIDE DEF t
<1>5. Shaped(t) /\ FiniteTable(t) /\ FiniteTable(s) /\ Links(s, "parent") /\ Links(t, "parent")
  <2>1. IsFiniteSet(DOMAIN t)
    BY <1>1, FS_AddElement DEF Sound, Shaped, FiniteTable
  <2> QED BY <1>1, <1>3, <2>1 DEF Sound, Shaped, FiniteTable, Fields, Inheritance, Hierarchy
<1>6. DefinedOnce(t)
  <2> SUFFICES ASSUME NEW x \in DOMAIN t, NEW y \in Ancestors(t, x, "parent"), y # x
               PROVE  t[x].propdefs \cap t[y].propdefs = {}
    BY DEF DefinedOnce
  <2>1. CASE x = o
    BY <1>1, <1>2, <2>1
  <2>2. CASE x \in DOMAIN s
    <3> DEFINE C == Ancestors(s, x, "parent")
    <3>1. /\ x \in OrNone(s) /\ x \in OrNone(t) /\ x # NOTHING
      BY <1>5, <2>2 DEF OrNone, FiniteTable, NOTHING
    <3>2. /\ x \in C /\ C \subseteq DOMAIN s
          /\ \A z \in C : s[z]["parent"] # NOTHING => s[z]["parent"] \in C
      BY <1>5, <3>1, AncestorsAre
    <3> HIDE DEF C
    <3>3. \A z \in C \cap DOMAIN t : t[z]["parent"] # NOTHING => t[z]["parent"] \in C
      BY <1>1, <3>2
    <3>4. Ancestors(t, x, "parent") \subseteq C
      BY <1>5, <3>1, <3>2, <3>3, AncestorsAre
    <3>5. y \in Ancestors(s, x, "parent") /\ y \in DOMAIN s
      BY <3>2, <3>4 DEF C
    <3> QED BY <1>1, <2>2, <3>5 DEF Sound, DefinedOnce
  <2> QED BY <1>1, <2>1, <2>2
<1> QED BY <1>3, <1>4, <1>5, <1>6 DEF Sound, t

(* A new object is not above any other. *)
LEMMA NotAboveYet ==
  ASSUME NEW s, Sound(s), NEW o \in Nat, o \notin DOMAIN s, NEW p \in OrNone(s)
  PROVE  o \notin Ancestors(Extended(s, o), p, "parent")
<1> DEFINE t == Extended(s, o)
           C == Ancestors(s, p, "parent") \cup {p}
<1>1. /\ DOMAIN t = DOMAIN s \cup {o} /\ t[o]["parent"] = NOTHING
      /\ \A x \in DOMAIN s : t[x] = s[x]
  BY DEF Extended, NewObject
<1>2. /\ FiniteTable(s) /\ Links(s, "parent") /\ o # NOTHING
      /\ FiniteTable(t) /\ Links(t, "parent") /\ p \in OrNone(t)
  BY <1>1, ExtendedSound DEF Sound, Shaped, Inheritance, Hierarchy, OrNone, NOTHING
<1> HIDE DEF t
<1>3. /\ Ancestors(s, p, "parent") \subseteq DOMAIN s
      /\ p # NOTHING => p \in Ancestors(s, p, "parent")
      /\ \A x \in Ancestors(s, p, "parent") :
           s[x]["parent"] # NOTHING => s[x]["parent"] \in Ancestors(s, p, "parent")
  BY <1>2, AncestorsAre
<1>4. p \in C /\ o \notin C
  BY <1>2, <1>3 DEF OrNone
<1>5. \A x \in C \cap DOMAIN t : t[x]["parent"] # NOTHING => t[x]["parent"] \in C
  <2>1. NOTHING \notin DOMAIN t
    BY <1>2 DEF FiniteTable, NOTHING
  <2> QED BY <1>1, <1>3, <2>1
<1> HIDE DEF C
<1>6. Ancestors(t, p, "parent") \subseteq C
  BY <1>2, <1>4, <1>5, AncestorsAre
<1> QED BY <1>4, <1>6 DEF t

(* An object that is under nothing, with nothing under it, may go away. *)
LEMMA HierarchyWithout ==
  ASSUME NEW s, Shaped(s), NEW up, NEW l, NEW n, Hierarchy(s, up, l, n),
         NEW o \in DOMAIN s, s[o][up] = NOTHING, s[o][l] = NOTHING
  PROVE  Hierarchy(Without(s, o), up, l, n)
<1> DEFINE t == Without(s, o)
           D == DOMAIN s \ {o}
           p == Place(s, up)
           q == Place(t, up)
<1>1. DOMAIN t = D /\ \A x \in D : t[x] = s[x]
  BY DEF Without
<1>2. NOTHING \notin DOMAIN s /\ o # NOTHING /\ FiniteTable(s)
  BY DEF Shaped, FiniteTable, NOTHING
<1> HIDE DEF t
<1>3. /\ OrNone(s) = DOMAIN s \cup {NOTHING}
      /\ OrNone(t) = D \cup {NOTHING}
  BY <1>1 DEF OrNone
<1>4. Links(s, up) /\ Links(s, l) /\ Links(s, n) /\ Threaded(s, p, l, n)
  BY DEF Hierarchy, Threaded
<1>5. /\ p \in [DOMAIN s -> OrNone(s)] /\ \A x \in DOMAIN s : p[x] = s[x][up]
      /\ q \in [D -> {s[x][up] : x \in D}] /\ \A x \in D : q[x] = p[x]
  BY <1>1, <1>4 DEF Place, Links
<1> HIDE DEF p, q
<1>6. \A x \in DOMAIN s : p[x] # o
  BY <1>2, <1>4, NoneListed
<1>7. /\ \A x \in DOMAIN s : s[x][up] # o /\ s[x][l] # o /\ s[x][n] # o
      /\ s[o][n] = NOTHING
  BY <1>2, <1>4, <1>5, <1>6 DEF Threaded
<1>8. Links(t, up) /\ Links(t, l) /\ Links(t, n) /\ q \in [D -> OrNone(t)]
  BY <1>1, <1>3, <1>4, <1>5, <1>7 DEF Links
<1>9. Acyclic(t, up)
  <2> SUFFICES ASSUME NEW S \in SUBSET D, S # {} PROVE \E x \in S : t[x][up] \notin S
    BY <1>1 DEF Acyclic
  <2>1. S \in SUBSET DOMAIN s
    OBVIOUS
  <2>2. \E x \in S : s[x][up] \notin S
    BY <2>1 DEF Hierarchy, Acyclic
  <2> QED BY <1>1, <2>2
<1>10. /\ \A x \in D : q[x] = NOTHING => t[x][n] = NOTHING
       /\ \A w \in D : t[w][l] # NOTHING => q[t[w][l]] = w
       /\ \A x \in D : t[x][n] # NOTHING => q[t[x][n]] = q[x]
  BY <1>1, <1>3, <1>4, <1>5, <1>7 DEF Threaded, Links
<1>11. /\ \A x, w \in D : t[x][n] # NOTHING => t[x][n] # t[w][l]
       /\ \A x, y \in D : t[x][n] = t[y][n] /\ t[x][n] # NOTHING => x = y
  BY <1>1, <1>4 DEF Threaded
<1>12. \A x \in D : q[x] # NOTHING => x = t[q[x]][l] \/ \E y \in D : t[y][n] = x
  <2> SUFFICES ASSUME NEW x \in D, q[x] # NOTHING
               PROVE  x = t[q[x]][l] \/ \E y \in D : t[y][n] = x
    OBVIOUS
  <2>1. x \in DOMAIN s /\ p[x] = q[x] /\ q[x] \in D /\ x # NOTHING
    BY <1>2, <1>3, <1>5, <1>8
  <2>2. x = s[q[x]][l] \/ \E y \in DOMAIN s : s[y][n] = x
    BY <1>4, <2>1 DEF Threaded
  <2> QED BY <1>1, <1>7, <2>1, <2>2
<1>13. \A S \in SUBSET D : S # {} => \E y \in S : \A x \in S : t[x][n] # y
  <2> SUFFICES ASSUME NEW S \in SUBSET D, S # {}
               PROVE  \E y \in S : \A x \in S : t[x][n] # y
    OBVIOUS
  <2>1. S \in SUBSET DOMAIN s
    OBVIOUS
  <2>2. \E y \in S : \A x \in S : s[x][n] # y
    BY <1>4, <2>1 DEF Threaded
  <2> QED BY <1>1, <2>2
<1>14. Threaded(t, q, l, n)
  BY <1>1, <1>8, <1>10, <1>11, <1>12, <1>13 DEF Threaded
<1> QED BY <1>8, <1>9, <1>14 DEF Hierarchy, q, t

LEMMA WithoutSound ==
  ASSUME NEW s, Sound(s), NEW o \in DOMAIN s,
         s[o].parent = NOTHING, s[o].child = NOTHING,
         s[o].location = NOTHING, s[o].contents = NOTHING
  PROVE  Sound(Without(s, o))
<1> DEFINE t == Without(s, o)
<1>1. DOMAIN t = DOMAIN s \ {o} /\ \A x \in DOMAIN t : t[x] = s[x]
  BY DEF Without
<1>2. Inheritance(t) /\ Whereabouts(t)
  BY HierarchyWithout DEF Sound, Inheritance, Whereabouts
<1> HIDE DEF t
<1>3. IsFiniteSet(DOMAIN t)
  BY <1>1, FS_RemoveElement DEF Sound, Shaped, FiniteTable
<1>4. Shaped(t) /\ FiniteTable(t) /\ FiniteTable(s) /\ Links(s, "parent") /\ Links(t, "parent")
  BY <1>1, <1>2, <1>3 DEF Sound, Shaped, FiniteTable, Inheritance, Hierarchy
<1>5. DefinedOnce(t)
  <2> SUFFICES ASSUME NEW x \in DOMAIN t, NEW y \in Ancestors(t, x, "parent"), y # x
               PROVE  t[x].propdefs \cap t[y].propdefs = {}
    BY DEF DefinedOnce
  <2> DEFINE C == Ancestors(s, x, "parent")
  <2>1. x \in OrNone(s) /\ x \in OrNone(t) /\ x # NOTHING /\ x \in DOMAIN s
    BY <1>1, <1>4 DEF OrNone, FiniteTable, NOTHING
  <2>2. /\ x \in C /\ \A z \in C : z \in DOMAIN s /\ s[z]["parent"] # NOTHING => s[z]["parent"] \in C
    BY <1>4, <2>1, AncestorsAre
  <2> HIDE DEF C
  <2>3. \A z \in C \cap DOMAIN t : t[z]["parent"] # NOTHING => t[z]["parent"] \in C
    BY <1>1, <2>2
  <2>4. Ancestors(t, x, "parent") \subseteq C /\ Ancestors(t, x, "parent") \subseteq DOMAIN t
    BY <1>4, <2>1, <2>2, <2>3, AncestorsAre
  <2>5. y \in Ancestors(s, x, "parent") /\ y \in DOMAIN t
    BY <2>4 DEF C
  <2> QED BY <1>1, <2>1, <2>5 DEF Sound, DefinedOnce
<1> QED BY <1>2, <1>4, <1>5 DEF Sound, t

-----------------------------------------------------------------------------
(* recycle() gives the children of an object to its parent. *)
Adopted(t, o) ==
  IF t[o].child = NOTHING THEN t ELSE db_change_parent(t, t[o].child, t[o].parent)

LEMMA AdoptionIs ==
  ASSUME NEW s, NEW o
  PROVE  \E g : /\ g[0] = s /\ \A i \in Nat : g[i + 1] = Adopted(g[i], o)
                /\ Orphaned(s, o) = g[Cardinality(DOMAIN s)]
<1> DEFINE from(D, h) == [i \in D |-> IF i = 0 THEN s ELSE Adopted(h[i - 1], o)]
           Begins(k, h) == h = from(0 .. k, h)
           S == {k \in Nat : \E h : Begins(k, h)}
<1>1. 0 \in S
  <2> DEFINE h == [i \in 0 .. 0 |-> s]
  <2>1. Begins(0, h)
    OBVIOUS
  <2> QED BY <2>1
<1>2. ASSUME NEW k \in Nat, k \in S PROVE k + 1 \in S
  <2>1. PICK h : Begins(k, h)
    BY <1>2
  <2> DEFINE j == [i \in 0 .. k + 1 |-> IF i <= k THEN h[i] ELSE Adopted(h[k], o)]
  <2>2. ASSUME NEW i \in 0 .. k + 1
        PROVE  j[i] = IF i = 0 THEN s ELSE Adopted(j[i - 1], o)
    <3>1. CASE i = 0
      <4>1. h[0] = s /\ j[0] = h[0]
        BY <2>1
      <4> QED BY <3>1, <4>1
    <3>2. CASE i \in 1 .. k
      <4>1. i \in 0 .. k /\ i # 0 /\ i - 1 \in 0 .. k + 1 /\ i <= k /\ i - 1 <= k
        BY <3>2
      <4>2. h[i] = Adopted(h[i - 1], o)
        BY <2>1, <4>1
      <4>3. j[i] = h[i] /\ j[i - 1] = h[i - 1]
        BY <4>1
      <4> QED BY <4>1, <4>2, <4>3
    <3>3. CASE i = k + 1
      <4>1. j[i] = Adopted(h[k], o) /\ j[k] = h[k] /\ i - 1 = k /\ i # 0
        BY <3>3
      <4> QED BY <4>1
    <3> QED BY <3>1, <3>2, <3>3
  <2>3. DOMAIN j = 0 .. k + 1 /\ j = [i \in 0 .. k + 1 |-> j[i]]
    OBVIOUS
  <2> HIDE DEF j
  <2>4. Begins(k + 1, j)
    BY <2>2, <2>3
  <2> QED BY <2>4
<1>3. ASSUME NEW k \in Nat PROVE \E h : Begins(k, h)
  <2> HIDE DEF Begins
  <2>1. k \in S
    <3> HIDE DEF S
    <3> QED BY <1>1, <1>2, Induct
  <2> QED BY <2>1
<1>4. ASSUME NEW k \in Nat, NEW i \in Nat, i <= k, NEW h, NEW j, Begins(k, h), Begins(i, j)
      PROVE  h[i] = j[i]
  <2> DEFINE T == {n \in Nat : n <= i => h[n] = j[n]}
  <2>1. 0 \in T
    BY <1>4
  <2>2. ASSUME NEW n \in Nat, n \in T PROVE n + 1 \in T
    <3> SUFFICES ASSUME n + 1 <= i PROVE h[n + 1] = j[n + 1]
      OBVIOUS
    <3>1. n + 1 \in 0 .. k /\ n + 1 \in 0 .. i /\ n + 1 # 0 /\ (n + 1) - 1 = n /\ n <= i
      BY <1>4
    <3>2. h[n] = j[n]
      BY <2>2, <3>1
    <3>3. h[n + 1] = Adopted(h[(n + 1) - 1], o) /\ j[n + 1] = Adopted(j[(n + 1) - 1], o)
      BY <1>4, <3>1
    <3> QED BY <3>1, <3>2, <3>3
  <2>3. i \in T
    <3> HIDE DEF T
    <3> QED BY <2>1, <2>2, Induct
  <2> QED BY <2>3
<1> DEFINE h(k) == CHOOSE x : Begins(k, x)
           g == [i \in Nat |-> h(i)[i]]
           G == CHOOSE x : x = from(Nat, x)
<1>5. \A k \in Nat : Begins(k, h(k))
  <2> HIDE DEF Begins
  <2> QED BY <1>3
<1>6. ASSUME NEW i \in Nat PROVE g[i] = IF i = 0 THEN s ELSE Adopted(g[i - 1], o)
  <2> HIDE DEF h
  <2>1. CASE i = 0
    BY <1>5, <2>1
  <2>2. CASE i # 0
    <3>1. i - 1 \in Nat /\ i - 1 <= i
      BY <2>2
    <3>2. h(i)[i] = Adopted(h(i)[i - 1], o)
      BY <1>5, <2>2
    <3>3. h(i)[i - 1] = h(i - 1)[i - 1]
      <4> HIDE DEF Begins
      <4> QED BY <1>4, <1>5, <3>1
    <3>4. g[i] = h(i)[i] /\ g[i - 1] = h(i - 1)[i - 1]
      BY <3>1
    <3> QED BY <2>2, <3>2, <3>3, <3>4
  <2> QED BY <2>1, <2>2
<1>7. g = from(Nat, g)
  <2>1. g = [i \in Nat |-> g[i]]
    OBVIOUS
  <2> HIDE DEF g
  <2> QED BY <1>6, <2>1
<1> HIDE DEF g
<1>8. G = from(Nat, G)
  <2> HIDE DEF from
  <2> QED BY <1>7
<1>9. Orphaned(s, o) = G[Cardinality(DOMAIN s)]
  BY DEF Orphaned, Adopted
<1> HIDE DEF G
<1>10. G[0] = s /\ \A i \in Nat : G[i + 1] = Adopted(G[i], o)
  <2>1. G[0] = s
    BY <1>8
  <2>2. ASSUME NEW i \in Nat PROVE G[i + 1] = Adopted(G[i], o)
    <3>1. i + 1 \in Nat /\ i + 1 # 0 /\ (i + 1) - 1 = i
      OBVIOUS
    <3>2. G[i + 1] = Adopted(G[(i + 1) - 1], o)
      BY <1>8, <3>1
    <3> QED BY <3>1, <3>2
  <2> QED BY <2>1, <2>2
<1> QED BY <1>9, <1>10

(* A child may always go to its grandparent: what is above that is above the    *)
(* child already, and so defines nothing that is defined at or below the child. *)
LEMMA Adoptable ==
  ASSUME NEW s, Sound(s), NEW o \in DOMAIN s, s[o].child # NOTHING
  PROVE  LET c == s[o].child
             g == s[o].parent
         IN /\ c \in DOMAIN s /\ s[c].parent = o /\ c # o
            /\ g \in OrNone(s) /\ g # o
            /\ c \notin Ancestors(s, g, "parent")
            /\ MayBeUnder(s, c, g)
<1> DEFINE c == s[o].child
           g == s[o].parent
           up(x) == Ancestors(s, x, "parent")
<1>1. /\ FiniteTable(s) /\ Shaped(s) /\ Links(s, "parent") /\ Acyclic(s, "parent")
      /\ Links(s, "child") /\ NOTHING \notin DOMAIN s /\ Inheritance(s)
      /\ Threaded(s, Place(s, "parent"), "child", "sibling")
  BY DEF Sound, Shaped, Inheritance, Hierarchy, Threaded, FiniteTable, NOTHING
<1>2. c \in DOMAIN s /\ g \in OrNone(s) /\ s[c].parent = o
  BY <1>1 DEF Links, OrNone, Threaded, Place
<1>3. o \notin up(g) /\ c \notin up(o)
  <2>1. o \notin up(g)
    BY <1>1, NotUnderItself
  <2>2. c \notin Ancestors(s, s[c]["parent"], "parent")
    BY <1>1, <1>2, NotUnderItself
  <2> QED BY <1>2, <2>1, <2>2
<1>4. up(o) = {o} \cup up(g)
  BY <1>1, AncestorsStep
<1>5. g # o /\ c # o /\ c \notin up(g)
  BY <1>1, <1>2, <1>3, <1>4, AncestorsAre
<1>6. ASSUME NEW x \in AtOrBelow(s, c), NEW y \in up(g)
      PROVE  s[x].propdefs \cap s[y].propdefs = {}
  <2>1. x \in DOMAIN s /\ c \in up(x)
    BY <1>1, <1>2, <1>6, BelowIsAbove
  <2>2. x \in OrNone(s) /\ c \in OrNone(s) /\ o \in OrNone(s)
    BY <1>2, <2>1 DEF OrNone
  <2>3. up(c) \subseteq up(x)
    BY <1>1, <2>1, <2>2, AncestorsUp
  <2>4. up(c) = {c} \cup Ancestors(s, s[c]["parent"], "parent")
    BY <1>1, <1>2, AncestorsStep
  <2>5. y \in up(x)
    BY <1>2, <1>4, <1>6, <2>3, <2>4
  <2>6. y # x
    <3>1. SUFFICES ASSUME x \in up(g) PROVE FALSE
      BY <1>6
    <3>2. up(x) \subseteq up(g)
      BY <1>1, <1>2, <3>1, AncestorsUp
    <3> QED BY <1>5, <2>1, <3>2
  <2> QED BY <2>1, <2>5, <2>6 DEF Sound, DefinedOnce
<1>7. MayBeUnder(s, c, g)
  <2>1. DefinedAtOrAbove(s, g) \cap DefinedAtOrBelow(s, c) = {}
    BY <1>6 DEF DefinedAtOrAbove, DefinedAtOrBelow
  <2> QED BY <2>1 DEF MayBeUnder
<1> QED BY <1>2, <1>5, <1>7

(* Each turn gives away one child; in as many turns as there are objects all   *)
(* of them, and nothing else changes.                                          *)
LEMMA OrphanedIs ==
  ASSUME NEW s, Sound(s), NEW o \in DOMAIN s
  PROVE  LET t == Orphaned(s, o)
         IN /\ Sound(t) /\ DOMAIN t = DOMAIN s /\ t[o].child = NOTHING
            /\ \A x \in DOMAIN s :
                 \A f \in {"location", "contents", "next", "user", "propdefs"} : t[x][f] = s[x][f]
<1> DEFINE N == Cardinality(DOMAIN s)
           Alike(t) == /\ Sound(t) /\ DOMAIN t = DOMAIN s
                       /\ \A x \in DOMAIN s :
                            \A f \in {"location", "contents", "next", "user", "propdefs"} :
                              t[x][f] = s[x][f]
           kids(t) == {x \in DOMAIN s : t[x].parent = o}
<1>1. PICK g : /\ g[0] = s /\ \A i \in Nat : g[i + 1] = Adopted(g[i], o)
               /\ Orphaned(s, o) = g[N]
  BY AdoptionIs
<1>2. IsFiniteSet(DOMAIN s) /\ N \in Nat
  BY FS_CardinalityType DEF Sound, Shaped, FiniteTable
<1>3. \A t : /\ IsFiniteSet(kids(t)) /\ Cardinality(kids(t)) \in 0 .. N
             /\ Cardinality(kids(t)) = 0 <=> kids(t) = {}
  <2> TAKE t
  <2> DEFINE K == kids(t)
  <2>1. K \subseteq DOMAIN s
    OBVIOUS
  <2> HIDE DEF K
  <2>2. IsFiniteSet(K) /\ Cardinality(K) <= N
    BY <1>2, <2>1, FS_Subset
  <2>3. Cardinality(K) \in Nat /\ (Cardinality(K) = 0 <=> K = {})
    BY <2>2, FS_CardinalityType, FS_EmptySet
  <2> QED BY <1>2, <2>2, <2>3 DEF K
<1>4. ASSUME NEW t, Alike(t)
      PROVE  /\ t[o].child = NOTHING <=> kids(t) = {}
             /\ Alike(Adopted(t, o))
             /\ t[o].child # NOTHING =>
                  Cardinality(kids(Adopted(t, o))) = Cardinality(kids(t)) - 1
  <2>0. /\ FiniteTable(t) /\ Shaped(t) /\ Links(t, "parent") /\ Links(t, "child")
        /\ Threaded(t, Place(t, "parent"), "child", "sibling") /\ DOMAIN t = DOMAIN s
        /\ Sound(t)
    BY <1>4 DEF Sound, Shaped, Inheritance, Hierarchy, Threaded
  <2>1. CASE t[o].child = NOTHING
    <3>1. \A x \in DOMAIN s : Place(t, "parent")[x] # o
      BY <2>0, <2>1, NoneListed
    <3>2. kids(t) = {}
      BY <2>0, <3>1 DEF Place
    <3>3. Adopted(t, o) = t
      BY <2>1 DEF Adopted
    <3> QED BY <1>4, <2>1, <3>2, <3>3
  <2>2. CASE t[o].child # NOTHING
    <3> DEFINE c == t[o].child
               p == t[o].parent
               r == Adopted(t, o)
    <3>1. /\ c \in DOMAIN t /\ t[c].parent = o /\ c # o
          /\ p \in OrNone(t) /\ p # o
          /\ c \notin Ancestors(t, p, "parent")
          /\ MayBeUnder(t, c, p)
      BY <2>0, <2>2, Adoptable
    <3>2. r = db_change_parent(t, c, p)
      BY <2>2 DEF Adopted
    <3> HIDE DEF c, p, r
    <3>3. /\ Sound(r) /\ DOMAIN r = DOMAIN t
          /\ \A x \in DOMAIN t :
               /\ r[x].parent = IF x = c /\ MayBeUnder(t, c, p) THEN p ELSE t[x].parent
               /\ \A f \in {"location", "contents", "next", "user", "propdefs"} : r[x][f] = t[x][f]
      BY <2>0, <3>1, <3>2, ParentChanged
    <3>4. Alike(r)
      BY <1>4, <2>0, <3>3
    <3>5. kids(r) = kids(t) \ {c} /\ c \in kids(t)
      BY <2>0, <3>1, <3>3
    <3> HIDE DEF kids
    <3>6. Cardinality(kids(r)) = Cardinality(kids(t)) - 1
      BY <1>3, <3>5, FS_RemoveElement
    <3>7. kids(t) # {}
      BY <3>5
    <3> QED BY <2>2, <3>4, <3>6, <3>7 DEF r
  <2> QED BY <2>1, <2>2
<1> DEFINE S == {i \in Nat : /\ Alike(g[i])
                             /\ g[i][o].child = NOTHING \/ Cardinality(kids(g[i])) + i <= N}
<1> HIDE DEF Alike, kids
<1>5. Alike(s)
  BY DEF Alike
<1>6. 0 \in S
  BY <1>1, <1>2, <1>3, <1>5
<1>7. ASSUME NEW i \in Nat, i \in S PROVE i + 1 \in S
  <2>1. Alike(g[i]) /\ g[i + 1] = Adopted(g[i], o) /\ Alike(g[i + 1])
    BY <1>1, <1>4, <1>7
  <2>2. CASE g[i][o].child = NOTHING
    <3>1. g[i + 1] = g[i]
      BY <2>1, <2>2 DEF Adopted
    <3> QED BY <2>1, <2>2, <3>1
  <2>3. CASE g[i][o].child # NOTHING
    <3>1. Cardinality(kids(g[i])) + i <= N
      BY <1>7, <2>3
    <3>2. Cardinality(kids(g[i + 1])) = Cardinality(kids(g[i])) - 1
      BY <1>4, <2>1, <2>3
    <3>3. Cardinality(kids(g[i + 1])) + (i + 1) <= N
      BY <1>2, <1>3, <3>1, <3>2
    <3> QED BY <2>1, <3>3
  <2> QED BY <2>2, <2>3
<1>8. N \in S
  <2> HIDE DEF S, N
  <2> QED BY <1>2, <1>6, <1>7, Induct
<1>9. Alike(g[N]) /\ g[N][o].child = NOTHING
  <2>1. Alike(g[N]) /\ (g[N][o].child = NOTHING \/ Cardinality(kids(g[N])) + N <= N)
    BY <1>8
  <2>2. ASSUME Cardinality(kids(g[N])) + N <= N PROVE g[N][o].child = NOTHING
    <3>1. Cardinality(kids(g[N])) = 0
      BY <1>2, <1>3, <2>2
    <3>2. kids(g[N]) = {}
      BY <1>3, <3>1
    <3> QED BY <1>4, <2>1, <3>2
  <2> QED BY <2>1, <2>2
<1> QED BY <1>1, <1>9 DEF Alike

(* So what is left of an object that recycle() destroys is barren, and the     *)
(* table without it is sound.                                                  *)
LEMMA Destroyed ==
  ASSUME NEW s, Sound(s), NEW o \in DOMAIN s,
         s[o].location = NOTHING, s[o].contents = NOTHING
  PROVE  LET r == Orphaned(s, o)
             t == db_change_parent(r, o, NOTHING)
         IN /\ r[o].child = NOTHING
            /\ t[o].location = NOTHING /\ t[o].contents = NOTHING
            /\ t[o].parent = NOTHING /\ t[o].child = NOTHING
            /\ DOMAIN t = DOMAIN s /\ \A x \in DOMAIN s : t[x].user = s[x].user
            /\ Sound(Without(t, o))
<1> DEFINE r == Orphaned(s, o)
           t == db_change_parent(r, o, NOTHING)
<1>1. /\ Sound(r) /\ DOMAIN r = DOMAIN s /\ r[o].child = NOTHING
      /\ \A x \in DOMAIN s : r[x].user = s[x].user
      /\ r[o].location = NOTHING /\ r[o].contents = NOTHING
  <2>1. /\ Sound(r) /\ DOMAIN r = DOMAIN s /\ r[o].child = NOTHING
        /\ \A x \in DOMAIN s :
             \A f \in {"location", "contents", "next", "user", "propdefs"} : r[x][f] = s[x][f]
    BY OrphanedIs
  <2> QED BY <2>1
<1> HIDE DEF r
<1>2. /\ FiniteTable(r) /\ Links(r, "parent") /\ NOTHING \in OrNone(r)
      /\ Threaded(r, Place(r, "parent"), "child", "sibling")
  BY <1>1 DEF Sound, Shaped, Inheritance, Hierarchy, OrNone
<1>3. Ancestors(r, NOTHING, "parent") = {}
  BY <1>2, AncestorsAre
<1>4. MayBeUnder(r, o, NOTHING)
  BY <1>3 DEF MayBeUnder, DefinedAtOrAbove
<1>5. /\ Sound(t) /\ DOMAIN t = DOMAIN r
      /\ \A x \in DOMAIN r :
           /\ t[x].parent = IF x = o /\ MayBeUnder(r, o, NOTHING) THEN NOTHING ELSE r[x].parent
           /\ \A f \in {"location", "contents", "next", "user", "propdefs"} : t[x][f] = r[x][f]
  BY <1>1, <1>2, <1>3, ParentChanged
<1> HIDE DEF t
<1>6. \A x \in DOMAIN r : r[x].parent # o
  <2>1. \A x \in DOMAIN r : Place(r, "parent")[x] # o
    BY <1>1, <1>2, NoneListed
  <2> QED BY <2>1 DEF Place
<1>7. o # NOTHING /\ o \in DOMAIN t /\ \A x \in DOMAIN t : t[x].parent # o
  BY <1>1, <1>2, <1>5, <1>6 DEF FiniteTable, NOTHING
<1>8. t[o].child = NOTHING
  <2>1. Links(t, "child") /\ Threaded(t, Place(t, "parent"), "child", "sibling")
    BY <1>5 DEF Sound, Inheritance, Hierarchy, Threaded
  <2>2. SUFFICES ASSUME t[o].child # NOTHING PROVE FALSE
    OBVIOUS
  <2>3. t[o].child \in DOMAIN t /\ t[t[o].child].parent = o
    BY <1>7, <2>1, <2>2 DEF Threaded, Links, OrNone, Place
  <2> QED BY <1>7, <2>3
<1>9. /\ t[o].location = NOTHING /\ t[o].contents = NOTHING /\ t[o].parent = NOTHING
      /\ \A x \in DOMAIN s : t[x].user = s[x].user
  BY <1>1, <1>4, <1>5
<1>10. Sound(Without(t, o))
  BY <1>5, <1>7, <1>8, <1>9, WithoutSound
<1> QED BY <1>1, <1>5, <1>8, <1>9, <1>10 DEF t, r

-----------------------------------------------------------------------------
(* renumber().  The table u is s with other numbers: R takes the old to the new. *)
Renames(R, s, u, F) ==
  /\ R \in [OrNone(s) -> OrNone(u)]
  /\ R[NOTHING] = NOTHING
  /\ \A x \in DOMAIN s : R[x] \in DOMAIN u
  /\ \A x, y \in OrNone(s) : R[x] = R[y] => x = y
  /\ \A y \in DOMAIN u : \E x \in DOMAIN s : R[x] = y
  /\ \A x \in DOMAIN s : \A f \in F : u[R[x]][f] = R[s[x][f]]

LEMMA HierarchyRenamed ==
  ASSUME NEW s, Shaped(s), NEW u, Shaped(u), NEW up, NEW l, NEW n, Hierarchy(s, up, l, n),
         NEW R, Renames(R, s, u, {up, l, n})
  PROVE  Hierarchy(u, up, l, n)
<1> DEFINE p == Place(s, up)
           q == Place(u, up)
           D == DOMAIN s
           E == DOMAIN u
<1>1. /\ NOTHING \notin D /\ NOTHING \notin E
      /\ OrNone(s) = D \cup {NOTHING} /\ OrNone(u) = E \cup {NOTHING}
  BY DEF Shaped, FiniteTable, OrNone, NOTHING
<1>2. /\ R[NOTHING] = NOTHING
      /\ \A x \in D : R[x] \in E
      /\ \A x, y \in D \cup {NOTHING} : R[x] = R[y] => x = y
      /\ \A y \in E : \E x \in D : R[x] = y
      /\ \A x \in D : /\ u[R[x]][up] = R[s[x][up]]
                      /\ u[R[x]][l] = R[s[x][l]]
                      /\ u[R[x]][n] = R[s[x][n]]
  BY <1>1 DEF Renames
<1>3. /\ \A x \in D : /\ s[x][up] \in D \cup {NOTHING} /\ s[x][l] \in D \cup {NOTHING}
                      /\ s[x][n] \in D \cup {NOTHING}
      /\ Threaded(s, p, l, n) /\ Acyclic(s, up)
  BY <1>1 DEF Hierarchy, Threaded, Links
<1>4. \A x \in D \cup {NOTHING} : R[x] \in E \cup {NOTHING} /\ (R[x] = NOTHING <=> x = NOTHING)
  BY <1>1, <1>2
<1>5. Links(u, up) /\ Links(u, l) /\ Links(u, n)
  BY <1>1, <1>2, <1>3, <1>4 DEF Links
<1>6. Acyclic(u, up)
  <2> SUFFICES ASSUME NEW S \in SUBSET E, S # {} PROVE \E o \in S : u[o][up] \notin S
    BY DEF Acyclic
  <2> DEFINE T == {x \in D : R[x] \in S}
  <2>1. T \in SUBSET D /\ T # {}
    BY <1>2
  <2>2. PICK o \in T : s[o][up] \notin T
    <3> HIDE DEF T
    <3> QED BY <1>3, <2>1 DEF Acyclic
  <2>3. R[s[o][up]] \notin S
    BY <1>1, <1>2, <1>3, <2>2
  <2> QED BY <1>2, <2>2, <2>3
<1>7. /\ q \in [E -> OrNone(u)]
      /\ \A x \in D : p[x] = s[x][up] /\ q[R[x]] = R[p[x]] /\ p[x] \in D \cup {NOTHING}
  BY <1>2, <1>3, <1>5 DEF Place, Links
<1> HIDE DEF p, q
<1>8. \A x \in D : p[x] = NOTHING => s[x][n] = NOTHING
  BY <1>3 DEF Threaded
<1>9. \A y \in E : q[y] = NOTHING => u[y][n] = NOTHING
  <2> SUFFICES ASSUME NEW x \in D, q[R[x]] = NOTHING PROVE u[R[x]][n] = NOTHING
    BY <1>2
  <2> QED BY <1>2, <1>4, <1>7, <1>8
<1>10. \A y \in E : u[y][l] # NOTHING => q[u[y][l]] = y
  <2> SUFFICES ASSUME NEW x \in D, u[R[x]][l] # NOTHING PROVE q[u[R[x]][l]] = R[x]
    BY <1>2
  <2>1. s[x][l] \in D /\ s[x][l] # NOTHING /\ u[R[x]][l] = R[s[x][l]]
    BY <1>1, <1>2, <1>3
  <2>2. p[s[x][l]] = x
    BY <1>3, <2>1 DEF Threaded
  <2> QED BY <1>7, <2>1, <2>2
<1>11. \A y \in E : u[y][n] # NOTHING => q[u[y][n]] = q[y]
  <2> SUFFICES ASSUME NEW x \in D, u[R[x]][n] # NOTHING PROVE q[u[R[x]][n]] = q[R[x]]
    BY <1>2
  <2>1. s[x][n] \in D /\ s[x][n] # NOTHING /\ u[R[x]][n] = R[s[x][n]]
    BY <1>1, <1>2, <1>3
  <2>2. p[s[x][n]] = p[x]
    BY <1>3, <2>1 DEF Threaded
  <2> QED BY <1>7, <2>1, <2>2
<1>12. \A y, w \in E : u[y][n] # NOTHING => u[y][n] # u[w][l]
  <2> SUFFICES ASSUME NEW x \in D, NEW w \in D, u[R[x]][n] # NOTHING
               PROVE  u[R[x]][n] # u[R[w]][l]
    BY <1>2
  <2>1. s[x][n] # NOTHING
    BY <1>2
  <2>2. s[x][n] # s[w][l]
    BY <1>3, <2>1 DEF Threaded
  <2> QED BY <1>2, <1>3, <2>2
<1>13. \A y, z \in E : u[y][n] = u[z][n] /\ u[y][n] # NOTHING => y = z
  <2> SUFFICES ASSUME NEW x \in D, NEW w \in D, u[R[x]][n] # NOTHING, u[R[x]][n] = u[R[w]][n]
               PROVE  R[x] = R[w]
    BY <1>2
  <2>1. s[x][n] # NOTHING /\ s[x][n] = s[w][n]
    BY <1>2, <1>3
  <2> QED BY <1>3, <2>1 DEF Threaded
<1>14. \A y \in E : q[y] # NOTHING => y = u[q[y]][l] \/ \E z \in E : u[z][n] = y
  <2> SUFFICES ASSUME NEW x \in D, q[R[x]] # NOTHING
               PROVE  R[x] = u[q[R[x]]][l] \/ \E z \in E : u[z][n] = R[x]
    BY <1>2
  <2>1. p[x] # NOTHING /\ p[x] \in D /\ q[R[x]] = R[p[x]]
    BY <1>2, <1>7
  <2>2. x = s[p[x]][l] \/ \E z \in D : s[z][n] = x
    BY <1>3, <2>1 DEF Threaded
  <2>3. CASE x = s[p[x]][l]
    BY <1>2, <2>1, <2>3
  <2>4. CASE \E z \in D : s[z][n] = x
    BY <1>2, <2>4
  <2> QED BY <2>2, <2>3, <2>4
<1>15. \A S \in SUBSET E : S # {} => \E y \in S : \A z \in S : u[z][n] # y
  <2> SUFFICES ASSUME NEW S \in SUBSET E, S # {} PROVE \E y \in S : \A z \in S : u[z][n] # y
    OBVIOUS
  <2> DEFINE T == {x \in D : R[x] \in S}
  <2>1. T \in SUBSET D /\ T # {}
    BY <1>2
  <2>2. PICK o \in T : \A x \in T : s[x][n] # o
    <3> HIDE DEF T
    <3> QED BY <1>3, <2>1 DEF Threaded
  <2>3. ASSUME NEW z \in S PROVE u[z][n] # R[o]
    <3>1. PICK x \in D : R[x] = z
      BY <1>2
    <3>2. x \in T /\ s[x][n] # o /\ o \in D
      BY <2>2, <3>1
    <3> QED BY <1>2, <1>3, <3>1, <3>2
  <2> QED BY <2>2, <2>3
<1>16. Threaded(u, q, l, n)
  BY <1>5, <1>7, <1>9, <1>10, <1>11, <1>12, <1>13, <1>14, <1>15 DEF Threaded
<1> QED BY <1>5, <1>6, <1>16 DEF Hierarchy, q

LEMMA SoundRenamed ==
  ASSUME NEW s, Sound(s), NEW u, Shaped(u), NEW R,
         Renames(R, s, u, {"parent", "child", "sibling", "location", "contents", "next"}),
         \A x \in DOMAIN s : u[R[x]].propdefs = s[x].propdefs
  PROVE  Sound(u)
<1>1. /\ Renames(R, s, u, {"parent", "child", "sibling"})
      /\ Renames(R, s, u, {"location", "contents", "next"})
  BY DEF Renames
<1>2. Inheritance(u)
  BY <1>1, HierarchyRenamed DEF Sound, Inheritance
<1>3. Whereabouts(u)
  BY <1>1, HierarchyRenamed DEF Sound, Whereabouts
<1>4. DefinedOnce(u)
  <2> SUFFICES ASSUME NEW x \in DOMAIN s, NEW y \in Ancestors(u, R[x], "parent"), y # R[x]
               PROVE  u[R[x]].propdefs \cap u[y].propdefs = {}
    BY DEF DefinedOnce, Renames
  <2> DEFINE A == Ancestors(s, x, "parent")
             C == {R[z] : z \in A}
  <2>1. /\ FiniteTable(s) /\ Links(s, "parent") /\ FiniteTable(u) /\ Links(u, "parent")
        /\ x \in OrNone(s) /\ x # NOTHING /\ R[x] \in OrNone(u)
        /\ NOTHING \notin DOMAIN u
    BY <1>2 DEF Sound, Shaped, Inheritance, Hierarchy, OrNone, FiniteTable, NOTHING, Renames
  <2>2. x \in A /\ A \subseteq DOMAIN s /\ \A z \in A : s[z]["parent"] # NOTHING => s[z]["parent"] \in A
    BY <2>1, AncestorsAre
  <2> HIDE DEF A
  <2>3. R[x] \in C
    BY <2>2
  <2>4. ASSUME NEW z \in A, u[R[z]]["parent"] # NOTHING PROVE u[R[z]]["parent"] \in C
    <3>1. u[R[z]]["parent"] = R[s[z]["parent"]] /\ R[NOTHING] = NOTHING
      BY <1>1, <2>2 DEF Renames
    <3>2. s[z]["parent"] \in A
      BY <2>2, <2>4, <3>1
    <3> QED BY <3>1, <3>2
  <2>5. \A z \in C \cap DOMAIN u : u[z]["parent"] # NOTHING => u[z]["parent"] \in C
    BY <2>4
  <2> HIDE DEF C
  <2>6. Ancestors(u, R[x], "parent") \subseteq C
    BY <2>1, <2>3, <2>5, AncestorsAre
  <2>7. PICK z \in A : y = R[z]
    BY <2>6 DEF C
  <2>8. z \in DOMAIN s /\ z # x /\ s[x].propdefs \cap s[z].propdefs = {}
    BY <2>2, <2>7 DEF Sound, DefinedOnce, A
  <2> QED BY <2>7, <2>8
<1> QED BY <1>2, <1>3, <1>4 DEF Sound

(* Relinking one hierarchy turns every link to old into one to newbie. *)
Renumbered(old, newbie, x) == IF x = old THEN newbie ELSE x

(* t has the links F of s at the new numbers, still to the old numbers, *)
Stale(s, t, old, newbie, F) ==
  \A x \in DOMAIN s : \A f \in F : t[Renumbered(old, newbie, x)][f] = s[x][f]

(* or to the new ones. *)
Fresh(s, t, old, newbie, F) ==
  \A x \in DOMAIN s : \A f \in F :
    t[Renumbered(old, newbie, x)][f] = Renumbered(old, newbie, s[x][f])

LEMMA RelinkedIs ==
  ASSUME NEW s, Shaped(s), NEW up \in Fields, NEW l \in Fields, NEW n \in Fields,
         up # l, up # n, l # n, Hierarchy(s, up, l, n),
         NEW old \in DOMAIN s, NEW newbie \in Nat, newbie \notin DOMAIN s,
         NEW t, Shaped(t), DOMAIN t = (DOMAIN s \ {old}) \cup {newbie},
         Stale(s, t, old, newbie, {up, l, n})
  PROVE  LET u == Relinked(s, t, old, newbie, up, l, n)
         IN SameBut(t, u, {up, l, n}) /\ Fresh(s, u, old, newbie, {up, l, n})
<1> DEFINE u == Relinked(s, t, old, newbie, up, l, n)
           p == s[old][up]
           siblings == IF p = NOTHING THEN {} ELSE Members(s, p, l, n)
           below == Members(s, old, l, n)
           new(x) == IF x = old THEN newbie ELSE x
           D == DOMAIN s
<1>1. /\ NOTHING \notin D /\ newbie # NOTHING /\ old # NOTHING /\ FiniteTable(s)
      /\ Threaded(s, Place(s, up), l, n) /\ p \in OrNone(s) /\ p # newbie
  BY DEF Shaped, FiniteTable, NOTHING, Hierarchy, Links, OrNone
<1>2. \A w \in D : Members(s, w, l, n) = {x \in D : s[x][up] = w}
  <2> TAKE w \in D
  <2>1. Members(s, w, l, n) = {x \in D : Place(s, up)[x] = w}
    BY <1>1, ListedIs
  <2> QED BY <2>1 DEF Place
<1>3. /\ siblings = {x \in D : p # NOTHING /\ s[x][up] = p}
      /\ below = {x \in D : s[x][up] = old}
  BY <1>1, <1>2 DEF OrNone
<1>4. u = [x \in DOMAIN t |->
             [t[x] EXCEPT ![l] = IF x = p THEN new(@) ELSE @,
                          ![n] = IF x \in siblings THEN new(@) ELSE @,
                          ![up] = IF x \in below THEN newbie ELSE @]]
  BY ZenonT(60) DEF Relinked
<1>5. /\ s[old][up] # old /\ s[old][l] # old /\ s[old][n] # old
  <2>1. {old} \in SUBSET D /\ {old} # {}
    OBVIOUS
  <2>2. s[old][up] # old
    BY <2>1 DEF Hierarchy, Acyclic
  <2>3. s[old][n] # old
    <3>1. \E o \in {old} : \A x \in {old} : s[x][n] # o
      BY <1>1, <2>1 DEF Threaded
    <3> QED BY <3>1
  <2>4. s[old][l] # old
    BY <1>1, <2>2, ZenonT(60) DEF Threaded, Place
  <2> QED BY <2>2, <2>3, <2>4
<1>6. /\ \A x \in D : s[x][l] = old => x = p
      /\ \A x \in D : s[x][n] = old => x \in siblings
      /\ \A x \in D : s[x][up] = old <=> x \in below
  <2>1. \A x \in D : Place(s, up)[x] = s[x][up]
    BY DEF Place
  <2>2. ASSUME NEW x \in D, s[x][l] = old PROVE x = p
    BY <1>1, <2>1, <2>2 DEF Threaded
  <2>3. ASSUME NEW x \in D, s[x][n] = old PROVE x \in siblings
    <3>1. Place(s, up)[old] = Place(s, up)[x] /\ Place(s, up)[x] # NOTHING
      BY <1>1, <2>3 DEF Threaded
    <3> QED BY <1>3, <2>1, <3>1
  <2> QED BY <1>3, <2>2, <2>3
<1>7. newbie \notin siblings /\ newbie \notin below
  BY <1>3
<1> HIDE DEF u, siblings, below, p
<1>8. /\ DOMAIN u = DOMAIN t
      /\ \A y \in DOMAIN t : DOMAIN u[y] = Fields
      /\ \A y \in DOMAIN t : \A f \in Fields \ {up, l, n} : u[y][f] = t[y][f]
      /\ \A y \in DOMAIN t :
           /\ u[y][l] = IF y = p THEN new(t[y][l]) ELSE t[y][l]
           /\ u[y][n] = IF y \in siblings THEN new(t[y][n]) ELSE t[y][n]
           /\ u[y][up] = IF y \in below THEN newbie ELSE t[y][up]
  BY <1>4 DEF Shaped
<1>9. SameBut(t, u, {up, l, n})
  BY <1>8 DEF SameBut, Shaped, FiniteTable
<1>10. ASSUME NEW x \in D
       PROVE  /\ u[new(x)][up] = new(s[x][up])
              /\ u[new(x)][l] = new(s[x][l])
              /\ u[new(x)][n] = new(s[x][n])
  <2>1. /\ new(x) \in DOMAIN t
        /\ t[new(x)][up] = s[x][up] /\ t[new(x)][l] = s[x][l] /\ t[new(x)][n] = s[x][n]
    BY DEF Renumbered, Stale
  <2>2. CASE x = old
    BY <1>1, <1>5, <1>7, <1>8, <2>1, <2>2
  <2>3. CASE x # old
    BY <1>6, <1>8, <2>1, <2>3
  <2> QED BY <2>2, <2>3
<1>11. \A x \in D : \A f \in {up, l, n} :
         u[Renumbered(old, newbie, x)][f] = Renumbered(old, newbie, s[x][f])
  BY <1>10 DEF Renumbered
<1> QED BY <1>9, <1>11 DEF u, Fresh

Renumbering(s, old, newbie) == [x \in OrNone(s) |-> Renumbered(old, newbie, x)]

LinkFields == {"parent", "child", "sibling", "location", "contents", "next"}

(* db_renumber_object() finds old in the lists and leaves a sound table. *)
LEMMA RenumberedSound ==
  ASSUME NEW s, Sound(s), NEW old \in DOMAIN s, NEW newbie \in Nat, newbie \notin DOMAIN s
  PROVE  LET t  == [x \in (DOMAIN s \ {old}) \cup {newbie} |->
                      IF x = newbie THEN s[old] ELSE s[x]]
             t1 == Relinked(s, t, old, newbie, "parent", "child", "sibling")
             t2 == Relinked(s, t1, old, newbie, "location", "contents", "next")
         IN /\ Found(s, old, "parent", "child", "sibling")
            /\ Found(s, old, "location", "contents", "next")
            /\ Sound(t2) /\ DOMAIN t2 = (DOMAIN s \ {old}) \cup {newbie}
            /\ \A x \in DOMAIN s : t2[Renumbered(old, newbie, x)].user = s[x].user
            /\ Renames(Renumbering(s, old, newbie), s, t2, LinkFields)
<1> DEFINE t == [x \in (DOMAIN s \ {old}) \cup {newbie} |->
                   IF x = newbie THEN s[old] ELSE s[x]]
           t1 == Relinked(s, t, old, newbie, "parent", "child", "sibling")
           t2 == Relinked(s, t1, old, newbie, "location", "contents", "next")
           E == (DOMAIN s \ {old}) \cup {newbie}
           new(x) == Renumbered(old, newbie, x)
<1>1. /\ Shaped(s) /\ FiniteTable(s) /\ NOTHING \notin DOMAIN s /\ newbie # NOTHING
      /\ Hierarchy(s, "parent", "child", "sibling")
      /\ Hierarchy(s, "location", "contents", "next")
  BY DEF Sound, Shaped, FiniteTable, NOTHING, Inheritance, Whereabouts
<1>2. /\ "parent" \in Fields /\ "child" \in Fields /\ "sibling" \in Fields
      /\ "location" \in Fields /\ "contents" \in Fields /\ "next" \in Fields
      /\ "user" \in Fields /\ "propdefs" \in Fields
      /\ "parent" # "child" /\ "parent" # "sibling" /\ "child" # "sibling"
      /\ "location" # "contents" /\ "location" # "next" /\ "contents" # "next"
  BY FieldNames
<1>3. /\ Found(s, old, "parent", "child", "sibling")
      /\ Found(s, old, "location", "contents", "next")
  <2>1. ASSUME NEW up, NEW l, NEW n, Hierarchy(s, up, l, n) PROVE Found(s, old, up, l, n)
    <3>1. SUFFICES ASSUME s[old][up] # NOTHING PROVE old \in Members(s, s[old][up], l, n)
      BY DEF Found
    <3>2. s[old][up] \in DOMAIN s /\ Threaded(s, Place(s, up), l, n)
      BY <2>1, <3>1 DEF Hierarchy, Links, OrNone
    <3>3. Members(s, s[old][up], l, n) = {x \in DOMAIN s : Place(s, up)[x] = s[old][up]}
      BY <1>1, <3>2, ListedIs
    <3> QED BY <3>3 DEF Place
  <2> QED BY <1>1, <2>1
<1>4. /\ DOMAIN t = E
      /\ \A x \in DOMAIN s : new(x) \in E /\ t[new(x)] = s[x]
  BY DEF Renumbered
<1>5. Shaped(t)
  <2>1. IsFiniteSet(DOMAIN s \ {old}) /\ IsFiniteSet(E)
    BY <1>1, FS_RemoveElement, FS_AddElement DEF FiniteTable
  <2>2. \A x \in E : DOMAIN t[x] = Fields
    BY <1>1 DEF Shaped
  <2> QED BY <1>1, <1>4, <2>1, <2>2 DEF Shaped, FiniteTable
<1> HIDE DEF t
<1>6. /\ SameBut(t, t1, {"parent", "child", "sibling"})
      /\ \A x \in DOMAIN s : \A f \in {"parent", "child", "sibling"} : t1[new(x)][f] = new(s[x][f])
  <2>1. Stale(s, t, old, newbie, {"parent", "child", "sibling"})
    BY <1>4 DEF Stale
  <2>2. LET r == Relinked(s, t, old, newbie, "parent", "child", "sibling")
        IN /\ SameBut(t, r, {"parent", "child", "sibling"})
           /\ Fresh(s, r, old, newbie, {"parent", "child", "sibling"})
    BY <1>1, <1>2, <1>4, <1>5, <2>1, RelinkedIs
  <2> QED BY <2>2 DEF Fresh
<1> HIDE DEF t1
<1>7. /\ DOMAIN t1 = E /\ Shaped(t1)
      /\ \A x \in DOMAIN s : \A f \in {"location", "contents", "next", "user", "propdefs"} :
           t1[new(x)][f] = s[x][f]
  BY <1>2, <1>4, <1>6, FieldNames DEF SameBut
<1>8. /\ SameBut(t1, t2, {"location", "contents", "next"})
      /\ \A x \in DOMAIN s : \A f \in {"location", "contents", "next"} : t2[new(x)][f] = new(s[x][f])
  <2>1. Stale(s, t1, old, newbie, {"location", "contents", "next"})
    BY <1>7 DEF Stale
  <2>2. LET r == Relinked(s, t1, old, newbie, "location", "contents", "next")
        IN /\ SameBut(t1, r, {"location", "contents", "next"})
           /\ Fresh(s, r, old, newbie, {"location", "contents", "next"})
    BY <1>1, <1>2, <1>7, <2>1, RelinkedIs
  <2> QED BY <2>2 DEF Fresh
<1> HIDE DEF t2
<1>9. /\ DOMAIN t2 = E /\ Shaped(t2)
      /\ \A x \in DOMAIN s :
           /\ \A f \in {"parent", "child", "sibling"} : t2[new(x)][f] = new(s[x][f])
           /\ \A f \in {"location", "contents", "next"} : t2[new(x)][f] = new(s[x][f])
           /\ t2[new(x)].user = s[x].user /\ t2[new(x)].propdefs = s[x].propdefs
  <2>1. \A y \in E : \A f \in {"parent", "child", "sibling", "user", "propdefs"} :
          t2[y][f] = t1[y][f]
    BY <1>7, <1>8, FieldNames DEF SameBut
  <2>2. DOMAIN t2 = E /\ Shaped(t2)
    BY <1>7, <1>8 DEF SameBut
  <2> QED BY <1>4, <1>6, <1>7, <1>8, <2>1, <2>2
<1> DEFINE R == Renumbering(s, old, newbie)
           F == LinkFields
<1> USE DEF Renumbering, LinkFields
<1>10. Renames(R, s, t2, F)
  <2>1. /\ OrNone(s) = DOMAIN s \cup {NOTHING} /\ OrNone(t2) = E \cup {NOTHING}
        /\ old # NOTHING
    BY <1>1, <1>9 DEF OrNone
  <2>2. /\ R \in [OrNone(s) -> OrNone(t2)] /\ R[NOTHING] = NOTHING
        /\ \A x \in DOMAIN s : R[x] = new(x) /\ R[x] \in E
        /\ \A x, y \in OrNone(s) : R[x] = R[y] => x = y
    BY <1>1, <2>1 DEF Renumbered
  <2>3. \A y \in E : \E x \in DOMAIN s : R[x] = y
    BY <1>1, <2>2 DEF Renumbered
  <2>4. \A x \in DOMAIN s : \A f \in F : s[x][f] \in OrNone(s) /\ R[s[x][f]] = new(s[x][f])
    <3>1. \A x \in DOMAIN s : \A f \in F : s[x][f] \in OrNone(s)
      BY <1>1 DEF Hierarchy, Threaded, Links
    <3> QED BY <3>1
  <2>5. \A x \in DOMAIN s : \A f \in F : t2[R[x]][f] = R[s[x][f]]
    BY <1>9, <2>2, <2>4
  <2> HIDE DEF R
  <2> QED BY <1>9, <2>2, <2>3, <2>5 DEF Renames
<1>11. \A x \in DOMAIN s : t2[R[x]].propdefs = s[x].propdefs
  BY <1>9 DEF OrNone
<1>12. Sound(t2)
  <2> HIDE DEF R
  <2> QED BY <1>9, <1>10, <1>11, SoundRenamed
<1> QED BY <1>3, <1>9, <1>10, <1>12 DEF t, t1, t2

-----------------------------------------------------------------------------
(* The inductive invariant.  A built-in that waits for a verb keeps numbers only; *)
(* nothing is asked of them, for what they number may be gone or elsewhere when   *)
(* the verb returns.                                                              *)
NumbersBelow(s, n) == n \in Nat /\ \A o \in DOMAIN s : o < n

PlayersAre(s, users) ==
  /\ \A o \in DOMAIN s : s[o].user \in BOOLEAN
  /\ users = {o \in DOMAIN s : s[o].user}

FramesWait(fr) ==
  /\ DOMAIN fr = Slots
  /\ \A k \in Slots : fr[k].fn = "move" => fr[k].pc \in {2, 3, 4}

DatabaseSound ==
  /\ Sound(objects)
  /\ NumbersBelow(objects, num_objects)
  /\ PlayersAre(objects, all_users)
  /\ FramesWait(frames)
  /\ fate = "runs"

(* The table an operation leaves when it moves objects and no more. *)
Kept(s, t) ==
  Sound(t) /\ DOMAIN t = DOMAIN s /\ \A x \in DOMAIN s : t[x].user = s[x].user

LEMMA KeptStill ==
  ASSUME NEW s, NEW t, Kept(s, t), NEW n, NumbersBelow(s, n), NEW users, PlayersAre(s, users)
  PROVE  Sound(t) /\ NumbersBelow(t, n) /\ PlayersAre(t, users)
<1>1. {o \in DOMAIN t : t[o].user} = {o \in DOMAIN s : s[o].user}
  BY DEF Kept
<1> QED BY <1>1 DEF Kept, NumbersBelow, PlayersAre

-----------------------------------------------------------------------------
(* What a step of move() may leave: a table with the same objects, and if it calls *)
(* :enterfunc next, the object is where it is to enter; and a frame that keeps the *)
(* number of the object it moves, or none.                                         *)
Entered(out) ==
  out.f.pc = 4 => /\ Valid(out.s, out.f.what) /\ Valid(out.s, out.f.where)
                  /\ out.s[out.f.what].location = out.f.where

Arrives(s, w, out) ==
  /\ Kept(s, out.s)
  /\ out.f.what \in {w, NOTHING}
  /\ out.f.fn = "move" => out.f.pc \in {2, 3, 4}
  /\ Entered(out)

LEMMA OverArrives ==
  ASSUME NEW s, NEW t, Kept(s, t), NEW w
  PROVE  Arrives(s, w, Over(t))
BY DEF Arrives, Entered, Over, NoFrame

LEMMA WaitsArrives ==
  ASSUME NEW s, NEW t, Kept(s, t), NEW w, NEW h, NEW pc \in {2, 3}
  PROVE  Arrives(s, w, Waits(t, w, h, pc))
BY DEF Arrives, Entered, Waits

LEMMA EnterArrives ==
  ASSUME NEW s, NEW t, Kept(s, t), NEW w, NEW h, NEW out \in Enter(t, w, h)
  PROVE  Arrives(s, w, out)
<1>1. CASE Valid(t, h) /\ Valid(t, w) /\ t[w].location = h
  <2>1. PICK e \in call_verb(t, h) : out = IF e = "E_NONE" THEN Waits(t, w, h, 4) ELSE Over(t)
    BY <1>1 DEF Enter
  <2>2. CASE out = Over(t)
    BY <2>2, OverArrives
  <2>3. CASE out = Waits(t, w, h, 4)
    BY <1>1, <2>3 DEF Arrives, Entered, Waits
  <2> QED BY <2>1, <2>2, <2>3
<1>2. CASE ~(Valid(t, h) /\ Valid(t, w) /\ t[w].location = h)
  <2>1. out = Over(t)
    BY <1>2 DEF Enter
  <2> QED BY <2>1, OverArrives
<1> QED BY <1>1, <1>2

LEMMA KeptItself ==
  ASSUME NEW s, Sound(s)
  PROVE  Kept(s, s)
BY DEF Kept

LEMMA AcceptsArrives ==
  ASSUME NEW s, Sound(s), NEW w, NEW h, NEW a, NEW wizard,
         NEW out \in AcceptsDecided(s, w, h, a, wizard)
  PROVE  Arrives(s, w, out)
<1> DEFINE old == s[w].location
           t == db_change_location(s, w, h)
           stop == \/ ~wizard /\ ~a
                   \/ ~Valid(s, w)
                   \/ h # NOTHING /\ ~Valid(s, h)
                   \/ old = h
                   \/ w \in Ancestors(s, h, "location")
<1>1. CASE stop
  <2>1. out = Over(s)
    BY <1>1 DEF AcceptsDecided
  <2> QED BY <2>1, KeptItself, OverArrives
<1>2. CASE ~stop
  <2>1. w \in DOMAIN s /\ h \in OrNone(s) /\ w \notin Ancestors(s, h, "location")
    BY <1>2 DEF Valid, OrNone
  <2>2. Kept(s, t)
    BY <2>1, LocationChanged DEF Kept
  <2>3. PICK e \in call_verb(s, old) :
          out \in CASE e = "E_NONE"   -> {Waits(t, w, h, 3)}
                    [] e = "E_MAXREC" -> {Over(t)}
                    [] OTHER          -> Enter(t, w, h)
    BY <1>2 DEF AcceptsDecided
  <2> HIDE DEF t
  <2>4. CASE e = "E_NONE"
    <3>1. out = Waits(t, w, h, 3)
      BY <2>3, <2>4
    <3> QED BY <2>2, <3>1, WaitsArrives
  <2>5. CASE e = "E_MAXREC"
    <3>1. out = Over(t)
      BY <2>3, <2>5
    <3> QED BY <2>2, <3>1, OverArrives
  <2>6. CASE e # "E_NONE" /\ e # "E_MAXREC"
    <3>1. out \in Enter(t, w, h)
      BY <2>3, <2>6
    <3> QED BY <2>2, <3>1, EnterArrives
  <2> QED BY <2>4, <2>5, <2>6
<1> QED BY <1>1, <1>2

(* What a step does to the frames: nothing begins to enter but where it is; and a *)
(* frame keeps the number it had, or gets that of an object there now is.         *)
EntersThere ==
  \A k \in Slots : frames'[k] # frames[k] /\ frames'[k].pc = 4 =>
    /\ Valid(objects', frames'[k].what) /\ Valid(objects', frames'[k].where)
    /\ objects'[frames'[k].what].location = frames'[k].where

NumbersLast ==
  \A k \in Slots : frames'[k].what \in {frames[k].what, NOTHING} \cup DOMAIN objects'

(* Objects come with new numbers only. *)
NumbersGrow ==
  num_objects' >= num_objects /\ DOMAIN objects' \subseteq DOMAIN objects \cup {num_objects}

Follows ==
  /\ EntersThere
  /\ {"renumber", "reset_max_object"} \cap Builtins = {} => NumbersLast /\ NumbersGrow

LEMMA LeavesSound ==
  ASSUME DatabaseSound, NEW k \in Slots, NEW out,
         NEW w \in {frames[k].what} \cup DOMAIN objects, Arrives(objects, w, out), Leaves(k, out)
  PROVE  DatabaseSound' /\ Follows
<1>1. /\ objects' = out.s /\ frames' = [frames EXCEPT ![k] = out.f]
      /\ num_objects' = num_objects /\ all_users' = all_users /\ fate' = fate
  BY DEF Leaves, UnchangedTable
<1>2. /\ Sound(objects') /\ NumbersBelow(objects', num_objects')
      /\ PlayersAre(objects', all_users')
  BY <1>1, KeptStill DEF DatabaseSound, Arrives
<1>3. FramesWait(frames')
  BY <1>1 DEF DatabaseSound, FramesWait, Arrives
<1>4. \A j \in Slots : frames'[j] = IF j = k THEN out.f ELSE frames[j]
  BY <1>1 DEF DatabaseSound, FramesWait
<1>5. EntersThere
  BY <1>1, <1>4 DEF EntersThere, Arrives, Entered
<1>6. NumbersLast /\ NumbersGrow
  <2>1. DOMAIN objects' = DOMAIN objects /\ out.f.what \in {w, NOTHING}
    BY <1>1 DEF Arrives, Kept
  <2>2. num_objects \in Nat
    BY DEF DatabaseSound, NumbersBelow
  <2> QED BY <1>1, <1>4, <2>1, <2>2 DEF NumbersLast, NumbersGrow
<1> QED BY <1>1, <1>2, <1>3, <1>5, <1>6 DEF DatabaseSound, Follows

LEMMA NumbersSame ==
  ASSUME DatabaseSound, DOMAIN objects' = DOMAIN objects, UNCHANGED <<frames, num_objects>>
  PROVE  NumbersLast /\ NumbersGrow
BY DEF NumbersLast, NumbersGrow, DatabaseSound, NumbersBelow

-----------------------------------------------------------------------------
(* The steps. *)
LEMMA CreateSound ==
  ASSUME DatabaseSound, NEW k \in Slots, NEW p \in OrNone(objects), Create(k, p)
  PROVE  DatabaseSound' /\ Follows
<1> DEFINE oid == num_objects
           s == Extended(objects, oid)
           t == db_change_parent(s, oid, p)
<1>1. /\ Sound(objects) /\ oid \in Nat /\ oid \notin DOMAIN objects
      /\ \A o \in DOMAIN objects : o < oid
      /\ PlayersAre(objects, all_users) /\ FramesWait(frames) /\ fate = "runs"
  BY DEF DatabaseSound, NumbersBelow
<1>2. /\ objects' = t /\ num_objects' = num_objects + 1
      /\ all_users' = all_users /\ fate' = fate
  BY DEF Create, Extended
<1>3. PICK new : /\ frames' = [frames EXCEPT ![k] = new]
                 /\ new.fn # "move" /\ new.pc # 4 /\ new.what \in {oid, NOTHING}
  <2> DEFINE waits == [fn |-> "create", what |-> oid, where |-> NOTHING, pc |-> 2]
  <2>1. PICK e \in call_verb(s, oid) :
          frames' = [frames EXCEPT ![k] = IF e = "E_NONE" THEN waits ELSE NoFrame]
    BY DEF Create, Extended
  <2>2. /\ waits.fn # "move" /\ waits.pc # 4 /\ waits.what \in {oid, NOTHING}
        /\ NoFrame.fn # "move" /\ NoFrame.pc # 4 /\ NoFrame.what \in {oid, NOTHING}
    BY DEF NoFrame
  <2> HIDE DEF waits
  <2>3. frames' = [frames EXCEPT ![k] = waits] \/ frames' = [frames EXCEPT ![k] = NoFrame]
    BY <2>1
  <2> QED BY <2>2, <2>3
<1>4. /\ DOMAIN s = DOMAIN objects \cup {oid} /\ s[oid] = NewObject
      /\ \A x \in DOMAIN objects : s[x] = objects[x]
  BY <1>1 DEF Extended
<1>5. Sound(s)
  BY <1>1, ExtendedSound
<1> HIDE DEF s
<1>6. oid \notin Ancestors(s, p, "parent")
  BY <1>1, NotAboveYet DEF s
<1>7. /\ Sound(t) /\ DOMAIN t = DOMAIN s
      /\ \A x \in DOMAIN s :
           /\ t[x].parent = IF x = oid /\ MayBeUnder(s, oid, p) THEN p ELSE s[x].parent
           /\ \A f \in {"location", "contents", "next", "user", "propdefs"} : t[x][f] = s[x][f]
  <2>1. oid \in DOMAIN s /\ p \in OrNone(s)
    BY <1>4 DEF OrNone
  <2> QED BY <1>5, <1>6, <2>1, ParentChanged
<1> HIDE DEF t
<1>8. NumbersBelow(objects', num_objects')
  <2>1. DOMAIN objects \subseteq Nat
    BY <1>1 DEF Sound, Shaped, FiniteTable
  <2>2. \A o \in DOMAIN objects \cup {oid} : o < oid + 1
    BY <1>1, <2>1
  <2>3. DOMAIN objects' = DOMAIN objects \cup {oid} /\ num_objects' = oid + 1
    BY <1>2, <1>4, <1>7
  <2> HIDE DEF oid
  <2> QED BY <1>1, <2>2, <2>3 DEF NumbersBelow
<1>9. PlayersAre(objects', all_users')
  <2>1. \A x \in DOMAIN s : t[x].user = s[x].user
    BY <1>7
  <2>2. s[oid].user = FALSE
    BY <1>4 DEF NewObject
  <2>3. /\ DOMAIN objects' = DOMAIN objects \cup {oid}
        /\ \A x \in DOMAIN objects : objects'[x].user = objects[x].user
        /\ objects'[oid].user = FALSE /\ all_users' = all_users
    BY <1>2, <1>4, <1>7, <2>1, <2>2
  <2> HIDE DEF oid
  <2>4. \A x \in DOMAIN objects' : objects'[x].user \in BOOLEAN
    BY <1>1, <2>3 DEF PlayersAre
  <2>5. \A x : x \in all_users' <=> x \in DOMAIN objects' /\ objects'[x].user
    BY <1>1, <2>3 DEF PlayersAre
  <2> QED BY <2>4, <2>5 DEF PlayersAre
<1>10. FramesWait(frames') /\ EntersThere
  BY <1>1, <1>3 DEF FramesWait, EntersThere
<1>11. NumbersLast /\ NumbersGrow
  <2>1. DOMAIN objects' = DOMAIN objects \cup {oid}
    BY <1>2, <1>4, <1>7
  <2>2. NumbersLast
    BY <1>1, <1>3, <2>1 DEF NumbersLast, FramesWait
  <2>3. NumbersGrow
    BY <1>1, <1>2, <2>1 DEF NumbersGrow
  <2> QED BY <2>2, <2>3
<1> QED BY <1>1, <1>2, <1>7, <1>8, <1>9, <1>10, <1>11 DEF DatabaseSound, Follows

LEMMA MoveSound ==
  ASSUME DatabaseSound, NEW k \in Slots, NEW w \in DOMAIN objects, NEW h, Move(k, w, h)
  PROVE  DatabaseSound' /\ Follows
<1>1. Sound(objects)
  BY DEF DatabaseSound
<1>2. PICK out : Leaves(k, out) /\ Arrives(objects, w, out)
  <2>1. CASE h = NOTHING
    <3>1. PICK out \in AcceptsDecided(objects, w, h, TRUE, FALSE) : Leaves(k, out)
      BY <2>1 DEF Move
    <3> QED BY <1>1, <3>1, AcceptsArrives
  <2>2. CASE h # NOTHING
    <3>1. PICK e \in call_verb(objects, h) :
            CASE e = "E_NONE"   -> Leaves(k, Waits(objects, w, h, 2))
              [] e = "E_VERBNF" ->
                   \E wizard \in BOOLEAN :
                     \E o \in AcceptsDecided(objects, w, h, FALSE, wizard) : Leaves(k, o)
              [] OTHER          -> Leaves(k, Over(objects))
      BY <2>2 DEF Move
    <3>2. CASE e = "E_NONE"
      BY <1>1, <3>1, <3>2, KeptItself, WaitsArrives
    <3>3. CASE e = "E_VERBNF"
      <4>1. PICK wizard \in BOOLEAN :
              \E o \in AcceptsDecided(objects, w, h, FALSE, wizard) : Leaves(k, o)
        BY <3>1, <3>3
      <4>2. PICK out \in AcceptsDecided(objects, w, h, FALSE, wizard) : Leaves(k, out)
        BY <4>1
      <4> QED BY <1>1, <4>2, AcceptsArrives
    <3>4. CASE e # "E_NONE" /\ e # "E_VERBNF"
      <4>1. Leaves(k, Over(objects))
        BY <3>1, <3>4
      <4> QED BY <1>1, <4>1, KeptItself, OverArrives
    <3> QED BY <3>2, <3>3, <3>4
  <2> QED BY <2>1, <2>2
<1> QED BY <1>2, LeavesSound

LEMMA MoveReturnsSound ==
  ASSUME DatabaseSound, NEW k \in Slots, NEW unwinding \in BOOLEAN, MoveReturns(k, unwinding)
  PROVE  DatabaseSound' /\ Follows
<1> DEFINE f == frames[k]
           decided(a) == AcceptsDecided(objects, f.what, f.where, a, TRUE)
                           \cup AcceptsDecided(objects, f.what, f.where, a, FALSE)
           accepted == UNION {decided(a) : a \in IF unwinding THEN {FALSE} ELSE BOOLEAN}
           outcomes ==
             CASE f.pc = 2 -> accepted
               [] f.pc = 3 -> Enter(objects, f.what, f.where)
               [] f.pc = 4 -> {Over(objects)}
<1>1. Sound(objects) /\ f.pc \in {2, 3, 4}
  BY DEF DatabaseSound, FramesWait, MoveReturns
<1>2. PICK o \in outcomes : Leaves(k, IF unwinding THEN Over(o.s) ELSE o)
  BY DEF MoveReturns
<1>3. Arrives(objects, f.what, o)
  <2>1. CASE f.pc = 2
    <3>1. o \in accepted
      <4> HIDE DEF accepted
      <4> QED BY <1>2, <2>1
    <3>2. PICK a \in BOOLEAN : o \in decided(a)
      <4> HIDE DEF decided
      <4> QED BY <3>1
    <3> QED BY <1>1, <3>2, AcceptsArrives
  <2>2. CASE f.pc = 3
    <3>1. o \in Enter(objects, f.what, f.where)
      BY <1>2, <2>2
    <3> QED BY <1>1, <3>1, KeptItself, EnterArrives
  <2>3. CASE f.pc = 4
    <3>1. o = Over(objects)
      BY <1>2, <2>3
    <3> QED BY <1>1, <3>1, KeptItself, OverArrives
  <2> QED BY <1>1, <2>1, <2>2, <2>3
<1> HIDE DEF outcomes
<1>4. CASE unwinding
  <2>1. Arrives(objects, f.what, Over(o.s))
    BY <1>3, OverArrives DEF Arrives
  <2>2. Leaves(k, Over(o.s))
    BY <1>2, <1>4
  <2> QED BY <2>1, <2>2, LeavesSound
<1>5. CASE ~unwinding
  <2>1. Leaves(k, o)
    BY <1>2, <1>5
  <2> QED BY <1>3, <2>1, LeavesSound
<1> QED BY <1>4, <1>5

LEMMA MoveToNothingSound ==
  ASSUME DatabaseSound, NEW o \in DOMAIN objects, move_to_nothing(o)
  PROVE  DatabaseSound' /\ Follows
<1>1. /\ Sound(objects) /\ FiniteTable(objects) /\ Links(objects, "location")
      /\ NOTHING \in OrNone(objects)
  BY DEF DatabaseSound, Sound, Shaped, Whereabouts, Hierarchy, OrNone
<1>2. Ancestors(objects, NOTHING, "location") = {}
  BY <1>1, AncestorsAre
<1>3. Kept(objects, db_change_location(objects, o, NOTHING))
  BY <1>1, <1>2, LocationChanged DEF Kept
<1>4. /\ Kept(objects, objects') /\ frames' = frames
      /\ num_objects' = num_objects /\ all_users' = all_users /\ fate' = fate
  BY <1>3 DEF move_to_nothing, UnchangedTable
<1>5. /\ Sound(objects') /\ NumbersBelow(objects', num_objects')
      /\ PlayersAre(objects', all_users')
  BY <1>4, KeptStill DEF DatabaseSound
<1> QED BY <1>4, <1>5, NumbersSame DEF DatabaseSound, EntersThere, Follows, Kept

LEMMA DestroySound ==
  ASSUME DatabaseSound, NEW k, NEW o \in DOMAIN objects,
         objects[o].contents = NOTHING, objects[o].location = NOTHING,
         db_destroy_object(k, o), UNCHANGED num_objects
  PROVE  DatabaseSound' /\ Follows
<1> DEFINE s == Orphaned(objects, o)
           t == db_change_parent(s, o, NOTHING)
<1>1. /\ s[o].child = NOTHING
      /\ t[o].location = NOTHING /\ t[o].contents = NOTHING
      /\ t[o].parent = NOTHING /\ t[o].child = NOTHING
      /\ DOMAIN t = DOMAIN objects /\ \A x \in DOMAIN objects : t[x].user = objects[x].user
      /\ Sound(Without(t, o))
  BY Destroyed DEF DatabaseSound
<1>2. /\ objects' = Without(t, o)
      /\ all_users' = IF t[o].user THEN all_users \ {o} ELSE all_users
      /\ frames' = [frames EXCEPT ![k] = NoFrame]
      /\ fate' = fate
  BY <1>1 DEF db_destroy_object, RecycleEnds
<1>3. DOMAIN objects' = DOMAIN objects \ {o} /\ \A x \in DOMAIN objects' : objects'[x] = t[x]
  BY <1>1, <1>2 DEF Without
<1>4. Sound(objects')
  BY <1>1, <1>2
<1> HIDE DEF t
<1>5. NumbersBelow(objects', num_objects')
  BY <1>3 DEF DatabaseSound, NumbersBelow
<1>6. PlayersAre(objects', all_users')
  <2>1. PlayersAre(objects, all_users)
    BY DEF DatabaseSound
  <2>2. \A x \in DOMAIN objects' : objects'[x].user = objects[x].user
    BY <1>1, <1>3
  <2>3. \A x \in DOMAIN objects' : objects'[x].user \in BOOLEAN
    BY <1>3, <2>1, <2>2 DEF PlayersAre
  <2>4. \A x : x \in all_users' <=> x \in all_users /\ x # o
    BY <1>1, <1>2, <2>1 DEF PlayersAre
  <2>5. all_users' = {x \in DOMAIN objects' : objects'[x].user}
    BY <1>3, <2>1, <2>2, <2>4 DEF PlayersAre
  <2> QED BY <2>3, <2>5 DEF PlayersAre
<1>7. FramesWait(frames') /\ EntersThere
  <2>1. FramesWait(frames)
    BY DEF DatabaseSound
  <2> QED BY <1>2, <2>1 DEF FramesWait, EntersThere, NoFrame
<1>8. NumbersLast /\ NumbersGrow
  <2>1. NumbersLast
    BY <1>2 DEF NumbersLast, DatabaseSound, FramesWait, NoFrame
  <2> QED BY <1>3, <2>1 DEF NumbersGrow, DatabaseSound, NumbersBelow
<1> QED BY <1>2, <1>4, <1>5, <1>6, <1>7, <1>8 DEF DatabaseSound, Follows

LEMMA FramesOnly ==
  ASSUME DatabaseSound, NEW k, NEW f, f.fn # "move", f.pc # 4,
         f.what \in {NOTHING} \cup DOMAIN objects,
         frames' = [frames EXCEPT ![k] = f], UNCHANGED objects, UnchangedTable
  PROVE  DatabaseSound' /\ Follows
<1>1. FramesWait(frames)
  BY DEF DatabaseSound
<1>2. FramesWait(frames') /\ EntersThere
  BY <1>1 DEF FramesWait, EntersThere
<1>3. NumbersLast /\ NumbersGrow
  BY <1>1 DEF NumbersLast, NumbersGrow, DatabaseSound, NumbersBelow, FramesWait, UnchangedTable
<1> QED BY <1>2, <1>3 DEF DatabaseSound, UnchangedTable, Follows

LEMMA RecycleTurnSound ==
  ASSUME DatabaseSound, RecycleTurn
  PROVE  DatabaseSound' /\ Follows
<1> DEFINE k == running.slot
           o == frames[k].what
<1>1. CASE ~Valid(objects, o) /\ RecycleEnds(k) /\ UNCHANGED objects /\ UnchangedTable
  <2>1. /\ frames' = [frames EXCEPT ![k] = NoFrame]
        /\ NoFrame.fn # "move" /\ NoFrame.pc # 4 /\ NoFrame.what = NOTHING
    BY <1>1 DEF RecycleEnds, NoFrame
  <2> QED BY <1>1, <2>1, FramesOnly
<1>2. CASE /\ Valid(objects, o) /\ objects[o].contents # NOTHING
           /\ move_to_nothing(objects[o].contents)
  <2>1. objects[o].contents \in DOMAIN objects
    BY <1>2 DEF Valid, DatabaseSound, Sound, Whereabouts, Hierarchy, Threaded, Links, OrNone
  <2> QED BY <1>2, <2>1, MoveToNothingSound
<1>3. CASE Valid(objects, o) /\ move_to_nothing(o)
  BY <1>3, MoveToNothingSound DEF Valid
<1>4. CASE /\ Valid(objects, o) /\ objects[o].contents = NOTHING
           /\ objects[o].location = NOTHING
           /\ db_destroy_object(k, o)
           /\ UNCHANGED num_objects
  BY <1>4, DestroySound DEF Valid
<1> HIDE DEF k, o
<1> QED BY <1>1, <1>2, <1>3, <1>4 DEF RecycleTurn, k, o

LEMMA WaitingSound ==
  ASSUME DatabaseSound, NEW k \in Slots,
         \/ \E o \in DOMAIN objects : Recycle(k, o)
         \/ \E unwinding \in BOOLEAN : RecycleReturns(k, unwinding)
         \/ CreateReturns(k) \/ Kill(k)
  PROVE  DatabaseSound' /\ Follows
<1>0. NoFrame.fn # "move" /\ NoFrame.pc # 4 /\ NoFrame.what = NOTHING
  BY DEF NoFrame
<1>1. ASSUME NEW o \in DOMAIN objects, Recycle(k, o) PROVE DatabaseSound' /\ Follows
  <2> DEFINE f == [fn |-> "recycle", what |-> o, where |-> NOTHING, pc |-> 2]
  <2>1. f.fn # "move" /\ f.pc # 4 /\ f.what \in {NOTHING} \cup DOMAIN objects
    OBVIOUS
  <2>2. frames' = [frames EXCEPT ![k] = f] /\ UNCHANGED objects /\ UnchangedTable
    BY <1>1 DEF Recycle
  <2> HIDE DEF f
  <2> QED BY <2>1, <2>2, FramesOnly
<1>2. ASSUME NEW unwinding \in BOOLEAN, RecycleReturns(k, unwinding)
      PROVE  DatabaseSound' /\ Follows
  <2>1. UNCHANGED <<objects, frames>> /\ UnchangedTable
    BY <1>2 DEF RecycleReturns
  <2> QED BY <2>1, NumbersSame DEF DatabaseSound, UnchangedTable, EntersThere, Follows
<1>3. CASE CreateReturns(k)
  BY <1>0, <1>3, FramesOnly DEF CreateReturns
<1>4. CASE Kill(k)
  BY <1>0, <1>4, FramesOnly DEF Kill
<1> QED BY <1>1, <1>2, <1>3, <1>4

LEMMA TableKeptSound ==
  ASSUME DatabaseSound, Kept(objects, objects'),
         UNCHANGED <<frames, num_objects, all_users, fate>>
  PROVE  DatabaseSound' /\ Follows
<1>1. /\ Sound(objects') /\ NumbersBelow(objects', num_objects')
      /\ PlayersAre(objects', all_users')
  BY KeptStill DEF DatabaseSound
<1> QED BY <1>1, NumbersSame DEF DatabaseSound, EntersThere, Follows, Kept

LEMMA ChparentSound ==
  ASSUME DatabaseSound, NEW o \in DOMAIN objects, NEW p \in OrNone(objects), Chparent(o, p)
  PROVE  DatabaseSound' /\ Follows
<1>1. Sound(objects) /\ o \notin Ancestors(objects, p, "parent")
  BY DEF DatabaseSound, Chparent
<1> DEFINE t == db_change_parent(objects, o, p)
<1>2. /\ Sound(t) /\ DOMAIN t = DOMAIN objects
      /\ \A x \in DOMAIN objects :
           \A f \in {"location", "contents", "next", "user", "propdefs"} : t[x][f] = objects[x][f]
  BY <1>1, ParentChanged
<1>3. objects' = t /\ UNCHANGED <<frames, num_objects, all_users, fate>>
  BY DEF Chparent, AtOnce, UnchangedTable
<1> HIDE DEF t
<1>4. Kept(objects, objects')
  BY <1>2, <1>3 DEF Kept
<1> QED BY <1>3, <1>4, TableKeptSound

(* A table whose objects differ in what they define only. *)
LEMMA PropdefsChanged ==
  ASSUME NEW s, Sound(s), NEW o \in DOMAIN s, NEW d,
         \A y \in Ancestors(s, o, "parent") : y # o => d \cap s[y].propdefs = {},
         \A x \in AtOrBelow(s, o) : x # o => s[x].propdefs \cap d = {}
  PROVE  Kept(s, [s EXCEPT ![o].propdefs = d])
<1> DEFINE t == [s EXCEPT ![o].propdefs = d]
<1>1. /\ DOMAIN t = DOMAIN s
      /\ \A x \in DOMAIN s : DOMAIN t[x] = Fields
      /\ \A x \in DOMAIN s : \A f \in Fields :
           t[x][f] = IF x = o /\ f = "propdefs" THEN d ELSE s[x][f]
  BY FieldNames DEF Sound, Shaped
<1> HIDE DEF t
<1>2. /\ Shaped(s) /\ FiniteTable(s) /\ Links(s, "parent") /\ Inheritance(s) /\ Whereabouts(s)
      /\ DefinedOnce(s)
  BY DEF Sound, Shaped, Inheritance, Hierarchy
<1>3. Shaped(t)
  BY <1>1, <1>2 DEF Shaped, FiniteTable
<1>4. \A x \in DOMAIN s :
        \A f \in {"parent", "child", "sibling", "location", "contents", "next", "user"} :
          t[x][f] = s[x][f]
  BY <1>1, FieldNames
<1>5. \A x \in DOMAIN s : t[x].propdefs = IF x = o THEN d ELSE s[x].propdefs
  BY <1>1, FieldNames
<1>6. Inheritance(t) /\ Whereabouts(t)
  BY <1>1, <1>2, <1>4, HierarchySame DEF Inheritance, Whereabouts
<1>7. \A x : Ancestors(t, x, "parent") = Ancestors(s, x, "parent")
  BY <1>1, <1>4, AncestorsSame
<1>8. DefinedOnce(t)
  <2> SUFFICES ASSUME NEW x \in DOMAIN s, NEW y \in Ancestors(s, x, "parent"), y # x
               PROVE  t[x].propdefs \cap t[y].propdefs = {}
    BY <1>1, <1>7 DEF DefinedOnce
  <2>1. y \in DOMAIN s
    BY <1>2, AncestorsAre DEF OrNone
  <2>2. s[x].propdefs \cap s[y].propdefs = {}
    BY <1>2 DEF DefinedOnce
  <2>3. CASE x = o
    BY <1>5, <2>1, <2>3
  <2>4. CASE y = o
    <3>1. x \in AtOrBelow(s, o)
      BY <1>2, <2>4, BelowIsAbove
    <3> QED BY <1>5, <2>4, <3>1
  <2>5. CASE x # o /\ y # o
    BY <1>5, <2>1, <2>2, <2>5
  <2> QED BY <2>3, <2>4, <2>5
<1> QED BY <1>1, <1>3, <1>4, <1>6, <1>8 DEF Kept, Sound, t

LEMMA PropsSound ==
  ASSUME DatabaseSound, NEW o \in DOMAIN objects, NEW name, AddProp(o, name) \/ DeleteProp(o, name)
  PROVE  DatabaseSound' /\ Follows
<1>1. /\ Sound(objects) /\ Shaped(objects) /\ Inheritance(objects) /\ DefinedOnce(objects)
      /\ FiniteTable(objects) /\ Links(objects, "parent")
  BY DEF DatabaseSound, Sound, Shaped, Inheritance, Hierarchy
<1>2. UNCHANGED <<frames, num_objects, all_users, fate>>
  BY DEF AddProp, DeleteProp, AtOnce, UnchangedTable
<1> DEFINE old == objects[o].propdefs
<1>3. \A y \in Ancestors(objects, o, "parent") : y # o => old \cap objects[y].propdefs = {}
  BY <1>1 DEF DefinedOnce
<1>4. \A x \in AtOrBelow(objects, o) : x # o => objects[x].propdefs \cap old = {}
  BY <1>1, BelowIsAbove DEF DefinedOnce
<1>5. CASE AddProp(o, name)
  <2>1. /\ name \notin DefinedAtOrAbove(objects, o) /\ name \notin DefinedAtOrBelow(objects, o)
        /\ objects' = [objects EXCEPT ![o].propdefs = old \cup {name}]
    BY <1>5 DEF AddProp
  <2>2. \A y \in Ancestors(objects, o, "parent") : name \notin objects[y].propdefs
    BY <2>1 DEF DefinedAtOrAbove
  <2>3. \A x \in AtOrBelow(objects, o) : name \notin objects[x].propdefs
    BY <2>1 DEF DefinedAtOrBelow
  <2> HIDE DEF old
  <2>4. Kept(objects, [objects EXCEPT ![o].propdefs = old \cup {name}])
    BY <1>1, <1>3, <1>4, <2>2, <2>3, PropdefsChanged
  <2> QED BY <1>2, <2>1, <2>4, TableKeptSound
<1>6. CASE DeleteProp(o, name)
  <2>1. objects' = [objects EXCEPT ![o].propdefs = old \ {name}]
    BY <1>6 DEF DeleteProp
  <2> HIDE DEF old
  <2>2. Kept(objects, [objects EXCEPT ![o].propdefs = old \ {name}])
    BY <1>1, <1>3, <1>4, PropdefsChanged
  <2> QED BY <1>2, <2>1, <2>2, TableKeptSound
<1> QED BY <1>5, <1>6

(* renumber() takes a lower number that is free. *)
LEMMA RenumberIs ==
  ASSUME DatabaseSound, NEW old \in DOMAIN objects, Renumber(old)
  PROVE  \E newbie \in 0 .. old - 1 :
           /\ newbie \notin DOMAIN objects
           /\ Sound(objects') /\ DOMAIN objects' = (DOMAIN objects \ {old}) \cup {newbie}
           /\ \A x \in DOMAIN objects : objects'[Renumbered(old, newbie, x)].user = objects[x].user
           /\ Renames(Renumbering(objects, old, newbie), objects, objects', LinkFields)
           /\ all_users' = IF objects'[newbie].user THEN RenumberedUsers(old, newbie) ELSE all_users
           /\ UNCHANGED <<num_objects, fate, frames>>
<1> DEFINE free == {o \in 0 .. old - 1 : ~Valid(objects, o)}
           newbie == Min(free)
           t  == [x \in (DOMAIN objects \ {old}) \cup {newbie} |->
                    IF x = newbie THEN objects[old] ELSE objects[x]]
           t1 == Relinked(objects, t, old, newbie, "parent", "child", "sibling")
           t2 == Relinked(objects, t1, old, newbie, "location", "contents", "next")
<1>1. Sound(objects) /\ old \in Nat
  BY DEF DatabaseSound, Sound, Shaped, FiniteTable
<1>2. newbie \in free
  <2>1. free \in SUBSET Nat /\ free # {}
    BY <1>1 DEF Renumber, db_renumber_object
  <2> HIDE DEF free
  <2>2. PICK m \in free : \A i \in free : m <= i
    BY <2>1, Least
  <2> QED BY <2>2 DEF Min
<1>3. newbie \in Nat /\ newbie \in 0 .. old - 1 /\ newbie \notin DOMAIN objects
  BY <1>1, <1>2 DEF Valid
<1>4. /\ Found(objects, old, "parent", "child", "sibling")
      /\ Found(objects, old, "location", "contents", "next")
      /\ Sound(t2) /\ DOMAIN t2 = (DOMAIN objects \ {old}) \cup {newbie}
      /\ \A x \in DOMAIN objects : t2[Renumbered(old, newbie, x)].user = objects[x].user
      /\ Renames(Renumbering(objects, old, newbie), objects, t2, LinkFields)
  <2> HIDE DEF newbie
  <2> QED BY <1>1, <1>3, RenumberedSound
<1>5. /\ objects' = t2
      /\ all_users' = IF t2[newbie].user THEN RenumberedUsers(old, newbie) ELSE all_users
      /\ UNCHANGED <<num_objects, fate, frames>>
  BY <1>4 DEF Renumber, db_renumber_object, AtOnce
<1> HIDE DEF t2, newbie
<1> QED BY <1>3, <1>4, <1>5

LEMMA RenumberSound ==
  ASSUME DatabaseSound, NEW old \in DOMAIN objects, Renumber(old)
  PROVE  DatabaseSound' /\ Follows
<1> DEFINE t2 == objects'
<1>1. /\ old \in Nat /\ DOMAIN objects \subseteq Nat
      /\ PlayersAre(objects, all_users) /\ NumbersBelow(objects, num_objects)
  BY DEF DatabaseSound, Sound, Shaped, FiniteTable
<1>2. PICK newbie \in 0 .. old - 1 :
        /\ newbie \notin DOMAIN objects
        /\ Sound(t2) /\ DOMAIN t2 = (DOMAIN objects \ {old}) \cup {newbie}
        /\ \A x \in DOMAIN objects : t2[Renumbered(old, newbie, x)].user = objects[x].user
        /\ all_users' = IF t2[newbie].user THEN RenumberedUsers(old, newbie) ELSE all_users
        /\ UNCHANGED <<num_objects, fate, frames>>
  BY RenumberIs
<1>3. newbie \in Nat /\ newbie \notin DOMAIN objects /\ newbie < old
  BY <1>1, <1>2
<1>4. /\ Sound(t2) /\ DOMAIN t2 = (DOMAIN objects \ {old}) \cup {newbie}
      /\ \A x \in DOMAIN objects : t2[Renumbered(old, newbie, x)].user = objects[x].user
  BY <1>2
<1>5. /\ objects' = t2
      /\ all_users' = IF t2[newbie].user THEN RenumberedUsers(old, newbie) ELSE all_users
      /\ UNCHANGED <<num_objects, fate, frames>>
  BY <1>2
<1> HIDE DEF t2
<1>6. NumbersBelow(objects', num_objects')
  BY <1>1, <1>3, <1>4, <1>5 DEF NumbersBelow
<1>7. PlayersAre(objects', all_users')
  <2>1. /\ \A x \in DOMAIN objects : x # old => t2[x].user = objects[x].user
        /\ t2[newbie].user = objects[old].user
    BY <1>4 DEF Renumbered
  <2>2. \A x \in DOMAIN t2 : t2[x].user \in BOOLEAN
    BY <1>1, <1>4, <2>1 DEF PlayersAre
  <2>3. \A x : x \in all_users <=> x \in DOMAIN objects /\ objects[x].user
    BY <1>1 DEF PlayersAre
  <2>4. CASE t2[newbie].user
    <3>1. all_users' = {IF x = old THEN newbie ELSE x : x \in all_users}
      BY <1>5, <2>4 DEF RenumberedUsers
    <3>2. old \in all_users
      BY <2>1, <2>3, <2>4
    <3>3. \A x : x \in all_users' <=> x = newbie \/ (x \in all_users /\ x # old)
      <4>1. newbie \in all_users' /\ \A x \in all_users : x # old => x \in all_users'
        BY <3>1, <3>2
      <4>2. \A y \in all_users' : y = newbie \/ (y \in all_users /\ y # old)
        BY <3>1
      <4> QED BY <4>1, <4>2
    <3>4. \A x : x \in all_users' <=> x \in DOMAIN t2 /\ t2[x].user
      BY <1>3, <1>4, <2>1, <2>3, <2>4, <3>3
    <3> QED BY <1>5, <2>2, <3>4 DEF PlayersAre
  <2>5. CASE ~t2[newbie].user
    <3>1. all_users' = all_users
      BY <1>5, <2>5
    <3>2. \A x : x \in all_users' <=> x \in DOMAIN t2 /\ t2[x].user
      BY <1>3, <1>4, <2>1, <2>3, <2>5, <3>1
    <3> QED BY <1>5, <2>2, <3>2 DEF PlayersAre
  <2> QED BY <2>4, <2>5
<1>8. Follows
  BY <1>5 DEF EntersThere, Follows, Renumber, AtOnce
<1> QED BY <1>4, <1>5, <1>6, <1>7, <1>8 DEF DatabaseSound

LEMMA ResetMaxSound ==
  ASSUME DatabaseSound, ResetMaxObject
  PROVE  DatabaseSound' /\ Follows
<1> DEFINE D == DOMAIN objects
           S == {i \in Nat : \A o \in D : o <= i}
<1>1. /\ D \subseteq Nat /\ D # {} /\ num_objects \in Nat /\ \A o \in D : o < num_objects
      /\ num_objects' = Max(D) + 1
      /\ UNCHANGED <<objects, all_users, fate, frames>>
  BY DEF DatabaseSound, Sound, Shaped, FiniteTable, NumbersBelow, ResetMaxObject, AtOnce
<1>2. num_objects \in S
  BY <1>1
<1>3. PICK m \in S : \A i \in S : m <= i
  <2> HIDE DEF S
  <2>1. S \in SUBSET Nat
    BY DEF S
  <2> QED BY <1>2, <2>1, Least
<1>4. m \in D
  <2> SUFFICES ASSUME m \notin D PROVE FALSE
    OBVIOUS
  <2>1. PICK o \in D : TRUE
    BY <1>1
  <2>2. \A i \in D : i \in Nat /\ i <= m /\ i # m
    BY <1>1
  <2>3. m - 1 \in S
    BY <2>1, <2>2
  <2> QED BY <1>3, <2>3
<1>5. Max(D) \in D /\ \A o \in D : Max(D) >= o
  <2> HIDE DEF D
  <2>1. \A o \in D : m >= o
    BY <1>1 DEF S
  <2> QED BY <1>4, <2>1 DEF Max
<1>6. NumbersBelow(objects', num_objects')
  <2>1. \A o \in D : o < Max(D) + 1
    BY <1>1, <1>5
  <2> QED BY <1>1, <1>5, <2>1 DEF NumbersBelow
<1>7. Follows
  BY <1>1 DEF EntersThere, Follows, ResetMaxObject, AtOnce
<1> QED BY <1>1, <1>6, <1>7 DEF DatabaseSound

LEMMA SetPlayerFlagSound ==
  ASSUME DatabaseSound, NEW o \in DOMAIN objects, NEW flag \in BOOLEAN, SetPlayerFlag(o, flag)
  PROVE  DatabaseSound' /\ Follows
<1>1. /\ Sound(objects) /\ PlayersAre(objects, all_users) /\ NumbersBelow(objects, num_objects)
      /\ objects' = [objects EXCEPT ![o].user = flag]
      /\ all_users' = IF flag THEN all_users \cup {o} ELSE all_users \ {o}
      /\ UNCHANGED <<num_objects, fate, frames>>
  BY DEF DatabaseSound, SetPlayerFlag, AtOnce
<1>2. /\ DOMAIN objects' = DOMAIN objects
      /\ \A x \in DOMAIN objects : DOMAIN objects'[x] = Fields
      /\ \A x \in DOMAIN objects : \A f \in Fields :
           objects'[x][f] = IF x = o /\ f = "user" THEN flag ELSE objects[x][f]
  BY <1>1, FieldNames DEF Sound, Shaped
<1>3. SameBut(objects, objects', {"user"})
  BY <1>1, <1>2 DEF SameBut, Sound, Shaped, FiniteTable
<1>4. Sound(objects')
  BY <1>1, <1>3, SoundSame
<1>5. \A x \in DOMAIN objects : objects'[x].user = IF x = o THEN flag ELSE objects[x].user
  BY <1>2, FieldNames
<1>6. NumbersBelow(objects', num_objects')
  BY <1>1, <1>2 DEF NumbersBelow
<1>7. PlayersAre(objects', all_users')
  <2>1. \A x \in DOMAIN objects' : objects'[x].user \in BOOLEAN
    BY <1>1, <1>2, <1>5 DEF PlayersAre
  <2>2. \A x : x \in all_users' <=> x \in DOMAIN objects' /\ objects'[x].user
    BY <1>1, <1>2, <1>5 DEF PlayersAre
  <2> QED BY <2>1, <2>2 DEF PlayersAre
<1>8. Follows
  BY <1>1, <1>2, NumbersSame DEF EntersThere, Follows
<1> QED BY <1>1, <1>4, <1>6, <1>7, <1>8 DEF DatabaseSound

-----------------------------------------------------------------------------
LEMMA InitSound == Init => DatabaseSound
<1> SUFFICES ASSUME Init PROVE DatabaseSound
  OBVIOUS
<1> DEFINE none == [x \in {} |-> NewObject]
<1>1. DOMAIN none = {} /\ OrNone(none) = {NOTHING}
  BY DEF OrNone
<1>2. Shaped(none)
  BY <1>1, FS_EmptySet DEF Shaped, FiniteTable
<1>3. ASSUME NEW up, NEW l, NEW n PROVE Hierarchy(none, up, l, n)
  <2>1. Place(none, up) \in [DOMAIN none -> OrNone(none)]
    BY <1>1 DEF Place
  <2> QED BY <1>1, <2>1 DEF Hierarchy, Links, Acyclic, Threaded
<1>4. Sound(none)
  BY <1>1, <1>2, <1>3 DEF Sound, Inheritance, Whereabouts, DefinedOnce
<1>5. objects = Extended(none, 0)
  BY DEF Init, Extended
<1>6. Sound(objects)
  <2> HIDE DEF none
  <2> QED BY <1>1, <1>4, <1>5, ExtendedSound
<1>7. DOMAIN objects = {0} /\ objects[0].user = FALSE /\ num_objects = 1 /\ all_users = {}
  BY DEF Init, NewObject
<1>8. NumbersBelow(objects, num_objects) /\ PlayersAre(objects, all_users)
  <2>1. NumbersBelow(objects, num_objects)
    BY <1>7 DEF NumbersBelow
  <2>2. {o \in DOMAIN objects : objects[o].user} = {}
    BY <1>7
  <2> QED BY <1>7, <2>1, <2>2 DEF PlayersAre
<1>9. FramesWait(frames) /\ fate = "runs"
  BY DEF Init, FramesWait, NoFrame
<1> QED BY <1>6, <1>8, <1>9 DEF DatabaseSound

LEMMA StepSound == DatabaseSound /\ [Next]_vars => DatabaseSound' /\ Follows
<1> SUFFICES ASSUME DatabaseSound, [Next]_vars PROVE DatabaseSound' /\ Follows
  OBVIOUS
<1> DEFINE Places == DOMAIN objects \cup {NOTHING}
<1>0. Places = OrNone(objects)
  BY DEF OrNone
<1>1. ASSUME NEW k \in Slots, NEW p \in Places \cap Parents, Create(k, p)
      PROVE  DatabaseSound' /\ Follows
  BY <1>0, <1>1, CreateSound
<1>2. ASSUME NEW k \in Slots, NEW o \in DOMAIN objects, NEW p \in Places, Move(k, o, p)
      PROVE  DatabaseSound' /\ Follows
  BY <1>2, MoveSound
<1>3. ASSUME NEW k \in Slots,
             \/ \E o \in DOMAIN objects : Recycle(k, o)
             \/ \E unwinding \in BOOLEAN : RecycleReturns(k, unwinding)
             \/ CreateReturns(k) \/ Kill(k)
      PROVE  DatabaseSound' /\ Follows
  BY <1>3, WaitingSound
<1>4. ASSUME NEW k \in Slots, NEW unwinding \in BOOLEAN, MoveReturns(k, unwinding)
      PROVE  DatabaseSound' /\ Follows
  BY <1>4, MoveReturnsSound
<1>5. CASE RecycleTurn
  BY <1>5, RecycleTurnSound
<1>6. ASSUME NEW o \in DOMAIN objects, NEW p \in Places, Chparent(o, p)
      PROVE  DatabaseSound' /\ Follows
  BY <1>0, <1>6, ChparentSound
<1>7. ASSUME NEW o \in DOMAIN objects, Renumber(o) PROVE DatabaseSound' /\ Follows
  BY <1>7, RenumberSound
<1>8. CASE ResetMaxObject
  BY <1>8, ResetMaxSound
<1>9. ASSUME NEW o \in DOMAIN objects \cap Users, NEW flag \in BOOLEAN, SetPlayerFlag(o, flag)
      PROVE  DatabaseSound' /\ Follows
  BY <1>9, SetPlayerFlagSound
<1>10. ASSUME NEW o \in DOMAIN objects, NEW name \in Props, AddProp(o, name) \/ DeleteProp(o, name)
       PROVE  DatabaseSound' /\ Follows
  BY <1>10, PropsSound
<1>11. CASE UNCHANGED vars
  BY <1>11, NumbersSame DEF DatabaseSound, EntersThere, Follows, vars
<1> QED BY <1>1, <1>2, <1>3, <1>4, <1>5, <1>6, <1>7, <1>8, <1>9, <1>10, <1>11 DEF Next

(* The two hierarchies are sound in every state, whatever verbs run while      *)
(* move(), create() and recycle() wait: the invariant holds at first and every *)
(* step of the database preserves it.                                          *)
THEOREM StaysSound == Spec => []DatabaseSound
BY InitSound, StepSound, PTL DEF Spec

-----------------------------------------------------------------------------
(* db_objects.c keeps a hierarchy as a list threaded through the objects and a *)
(* pointer back.  For any number of objects and of built-ins that wait: the    *)
(* children and the contents of an object are exactly the objects that say so, *)
(* each once, and players() lists exactly the objects with the player flag.    *)
THEOREM LinksAlwaysAgree == Spec => []LinksAgree
<1>1. DatabaseSound => LinksAgree
  <2> SUFFICES ASSUME DatabaseSound PROVE LinksAgree
    OBVIOUS
  <2>1. Sound(objects) /\ FiniteTable(objects)
    BY DEF DatabaseSound, Sound, Shaped
  <2>2. ASSUME NEW up, NEW l, NEW n, Hierarchy(objects, up, l, n) PROVE ListsAgree(up, l, n)
    <3>1. /\ Links(objects, up) /\ Links(objects, l) /\ Links(objects, n)
          /\ Threaded(objects, Place(objects, up), l, n)
      BY <2>2 DEF Hierarchy, Threaded
    <3>2. \A o \in DOMAIN objects : \A f \in {up, l, n} :
            objects[o][f] \in DOMAIN objects \cup {NOTHING}
      BY <3>1 DEF Links, OrNone
    <3>3. \A w \in DOMAIN objects :
            /\ IsInjective(Listed(objects, w, l, n))
            /\ ToSet(Listed(objects, w, l, n)) = {o \in DOMAIN objects : objects[o][up] = w}
      <4> TAKE w \in DOMAIN objects
      <4>1. /\ IsInjective(Listed(objects, w, l, n))
            /\ Members(objects, w, l, n) = {o \in DOMAIN objects : Place(objects, up)[o] = w}
        BY <2>1, <3>1, ListedIs
      <4> QED BY <4>1 DEF Members, Place
    <3>4. \A o \in DOMAIN objects : objects[o][up] = NOTHING => objects[o][n] = NOTHING
      BY <3>1 DEF Threaded, Place
    <3> QED BY <3>2, <3>3, <3>4 DEF ListsAgree
  <2>3. /\ ListsAgree("parent", "child", "sibling")
        /\ ListsAgree("location", "contents", "next")
    BY <2>1, <2>2 DEF Sound, Inheritance, Whereabouts
  <2> QED BY <2>3 DEF LinksAgree, DatabaseSound, PlayersAre
<1> QED BY <1>1, StaysSound, PTL

(* do_move() looks for a cycle only after :accept has returned, and chparent()  *)
(* before it calls anything: either way no object is ever, however far up,      *)
(* inside or below itself.                                                      *)
THEOREM NeverCycles == Spec => []NoCycles
<1>1. DatabaseSound => NoCycles
  <2> SUFFICES ASSUME DatabaseSound, NEW o \in DOMAIN objects, NEW up \in {"parent", "location"}
               PROVE  o \notin Ancestors(objects, objects[o][up], up)
    BY DEF NoCycles
  <2>1. FiniteTable(objects) /\ Links(objects, up) /\ Acyclic(objects, up)
    BY DEF DatabaseSound, Sound, Shaped, Inheritance, Whereabouts, Hierarchy
  <2> QED BY <2>1, NotUnderItself
<1> QED BY <1>1, StaysSound, PTL

(* recycle() never meets its panic "Not a barren orphan!" nor a child that its  *)
(* grandparent cannot take, and renumber() never misses an object in the list   *)
(* of its parent or its location.                                               *)
THEOREM AlwaysRuns == Spec => []KeepsRunning
<1>1. DatabaseSound => KeepsRunning
  BY DEF DatabaseSound, KeepsRunning
<1> QED BY <1>1, StaysSound, PTL

(* :enterfunc is called on a valid object only, and for one that is then there, *)
(* though :exitfunc may have recycled or moved either.                          *)
THEOREM EntersWhereItAlwaysIs == Spec => EntersWhereItIs
<1>1. DatabaseSound /\ [Next]_vars =>
        [\A k \in Slots : frames'[k] # frames[k] /\ frames'[k].pc = 4 =>
           /\ Valid(objects', frames'[k].what) /\ Valid(objects', frames'[k].where)
           /\ objects'[frames'[k].what].location = frames'[k].where]_vars
  BY StepSound DEF EntersThere, Follows
<1> QED BY <1>1, StaysSound, PTL DEF Spec, EntersWhereItIs

(* A built-in that waits keeps a number over everything that happens meanwhile,  *)
(* and works on the object of that number when its verb returns.  Without the    *)
(* two wizardly built-ins that give numbers again, no number it keeps comes to   *)
(* mean an object again once its own is gone: the numbers kept are all below     *)
(* num_objects, and new objects are not.                                         *)
THEOREM NumbersNeverReturn ==
  {"renumber", "reset_max_object"} \cap Builtins = {} => (Spec => [][StaysGone]_vars)
<1> DEFINE Below == \A k \in Slots : frames[k].what \in Int /\ frames[k].what < num_objects
<1> SUFFICES ASSUME {"renumber", "reset_max_object"} \cap Builtins = {}
             PROVE  Spec => [][StaysGone]_vars
  OBVIOUS
<1>1. Init => Below
  BY DEF Init, NoFrame, NOTHING
<1>2. DatabaseSound /\ Below /\ [Next]_vars => Below'
  <2> SUFFICES ASSUME DatabaseSound, Below, [Next]_vars, NEW k \in Slots
               PROVE  frames'[k].what \in Int /\ frames'[k].what < num_objects'
    OBVIOUS
  <2>1. DatabaseSound' /\ NumbersLast /\ NumbersGrow
    BY StepSound DEF Follows
  <2>2. /\ num_objects \in Nat /\ num_objects' \in Nat /\ num_objects' >= num_objects
        /\ \A o \in DOMAIN objects' : o \in Nat /\ o < num_objects'
    BY <2>1 DEF DatabaseSound, NumbersBelow, NumbersGrow, Sound, Shaped, FiniteTable
  <2>3. frames'[k].what \in {frames[k].what, NOTHING} \cup DOMAIN objects'
    BY <2>1 DEF NumbersLast
  <2> QED BY <2>2, <2>3 DEF NOTHING
<1>3. DatabaseSound /\ Below /\ [Next]_vars => [StaysGone]_vars
  <2> SUFFICES ASSUME DatabaseSound, Below, [Next]_vars, NEW k \in Slots,
                      Valid(objects', frames[k].what)
               PROVE  Valid(objects, frames[k].what)
    BY DEF StaysGone
  <2>1. DOMAIN objects' \subseteq DOMAIN objects \cup {num_objects}
    BY StepSound DEF Follows, NumbersGrow
  <2>2. frames[k].what # num_objects
    OBVIOUS
  <2> QED BY <2>1, <2>2 DEF Valid
<1> HIDE DEF Below
<1>4. QED BY <1>1, <1>2, <1>3, StaysSound, PTL DEF Spec
-----------------------------------------------------------------------------
(* Objects implements Forests.  The list of w is the sequence q if the links  *)
(* lead along q and end with it.                                              *)
Nth(q, i) == IF i \in DOMAIN q THEN q[i] ELSE NOTHING

Chained(s, w, l, n, q) ==
  /\ q \in Seq(DOMAIN s)
  /\ s[w][l] = Nth(q, 1)
  /\ \A i \in DOMAIN q : s[q[i]][n] = Nth(q, i + 1)

LEMMA ListedChained ==
  ASSUME NEW s, FiniteTable(s), NEW place, NEW l, NEW n, Threaded(s, place, l, n),
         NEW w \in DOMAIN s
  PROVE  Chained(s, w, l, n, Listed(s, w, l, n))
<1> DEFINE at == Walk(s, w, l, n)
           q == Listed(s, w, l, n)
<1>1. PICK m \in Nat : /\ q = [i \in 1 .. m |-> at[i - 1]]
                       /\ at[m] = NOTHING
                       /\ \A i \in Nat : at[i] # NOTHING <=> i < m
  BY ListedWalk
<1>2. /\ at \in [Nat -> OrNone(s)] /\ at[0] = s[w][l]
      /\ \A i \in Nat : at[i + 1] = IF at[i] = NOTHING THEN NOTHING ELSE s[at[i]][n]
  <2>1. s[w][l] \in OrNone(s) /\ Links(s, n)
    BY DEF Threaded, Links
  <2> QED BY <2>1, WalkIs
<1> HIDE DEF at, q
<1>3. DOMAIN q = 1 .. m /\ \A i \in 1 .. m : q[i] = at[i - 1]
  BY <1>1
<1>4. \A i \in 1 .. m : q[i] \in DOMAIN s
  <2> TAKE i \in 1 .. m
  <2>1. i - 1 \in Nat /\ i - 1 < m
    OBVIOUS
  <2> QED BY <1>1, <1>2, <1>3, <2>1 DEF OrNone
<1>5. q \in Seq(DOMAIN s)
  BY <1>1, <1>3, <1>4
<1>6. \A i \in 1 .. m + 1 : Nth(q, i) = at[i - 1]
  <2> TAKE i \in 1 .. m + 1
  <2>1. CASE i = m + 1
    BY <1>1, <1>3, <2>1 DEF Nth
  <2>2. CASE i # m + 1
    <3>1. i \in 1 .. m
      BY <2>2
    <3> QED BY <1>3, <3>1 DEF Nth
  <2> QED BY <2>1, <2>2
<1>7. s[w][l] = Nth(q, 1)
  BY <1>2, <1>6
<1>8. \A i \in DOMAIN q : s[q[i]][n] = Nth(q, i + 1)
  <2> SUFFICES ASSUME NEW i \in 1 .. m PROVE s[q[i]][n] = Nth(q, i + 1)
    BY <1>3
  <2>1. i - 1 \in Nat /\ i - 1 < m /\ i + 1 \in 1 .. m + 1 /\ (i - 1) + 1 = i /\ (i + 1) - 1 = i
    OBVIOUS
  <2>2. at[i] = s[at[i - 1]][n]
    BY <1>1, <1>2, <2>1
  <2> QED BY <1>3, <1>6, <2>1, <2>2
<1> QED BY <1>5, <1>7, <1>8 DEF Chained, q

(* There is one such sequence. *)
LEMMA ChainedListed ==
  ASSUME NEW s, FiniteTable(s), NEW place, NEW l, NEW n, Threaded(s, place, l, n),
         NEW w \in DOMAIN s, NEW q, Chained(s, w, l, n, q)
  PROVE  Listed(s, w, l, n) = q
<1> DEFINE at == Walk(s, w, l, n)
           S == {i \in Nat : i <= Len(q) => at[i] = Nth(q, i + 1)}
<1>1. PICK m \in Nat : /\ Listed(s, w, l, n) = [i \in 1 .. m |-> at[i - 1]]
                       /\ at[m] = NOTHING
                       /\ \A i \in Nat : at[i] # NOTHING <=> i < m
  BY ListedWalk
<1>2. /\ at \in [Nat -> OrNone(s)] /\ at[0] = s[w][l]
      /\ \A i \in Nat : at[i + 1] = IF at[i] = NOTHING THEN NOTHING ELSE s[at[i]][n]
  <2>1. s[w][l] \in OrNone(s) /\ Links(s, n)
    BY DEF Threaded, Links
  <2> QED BY <2>1, WalkIs
<1> HIDE DEF at
<1>3. /\ q \in Seq(DOMAIN s) /\ s[w][l] = Nth(q, 1)
      /\ \A i \in DOMAIN q : s[q[i]][n] = Nth(q, i + 1)
      /\ DOMAIN q = 1 .. Len(q) /\ Len(q) \in Nat /\ \A i \in 1 .. Len(q) : q[i] \in DOMAIN s
      /\ NOTHING \notin DOMAIN s
  BY DEF Chained, FiniteTable, NOTHING
<1>4. 0 \in S
  BY <1>2, <1>3
<1>5. ASSUME NEW i \in Nat, i \in S PROVE i + 1 \in S
  <2> SUFFICES ASSUME i + 1 <= Len(q) PROVE at[i + 1] = Nth(q, (i + 1) + 1)
    OBVIOUS
  <2>1. i + 1 \in DOMAIN q /\ q[i + 1] \in DOMAIN s /\ at[i] = Nth(q, i + 1)
    BY <1>3, <1>5
  <2>2. at[i] = q[i + 1] /\ at[i] # NOTHING
    BY <1>3, <2>1 DEF Nth
  <2> QED BY <1>2, <1>3, <2>1, <2>2
<1>6. \A i \in 0 .. Len(q) : at[i] = Nth(q, i + 1)
  <2> SUFFICES ASSUME NEW i \in 0 .. Len(q) PROVE at[i] = Nth(q, i + 1)
    OBVIOUS
  <2>1. i \in Nat /\ i <= Len(q)
    BY <1>3
  <2>2. i \in S
    <3> HIDE DEF S
    <3> QED BY <1>4, <1>5, <2>1, Induct
  <2> QED BY <2>1, <2>2
<1>7. m = Len(q)
  <2>1. at[Len(q)] = NOTHING
    <3>1. Len(q) + 1 \notin DOMAIN q /\ Len(q) \in 0 .. Len(q)
      BY <1>3
    <3> QED BY <1>6, <3>1 DEF Nth
  <2>2. m <= Len(q)
    BY <1>1, <1>3, <2>1
  <2>3. ASSUME m < Len(q) PROVE FALSE
    <3>1. m \in 0 .. Len(q) /\ m + 1 \in DOMAIN q /\ q[m + 1] \in DOMAIN s
      BY <1>3, <2>3
    <3> QED BY <1>1, <1>3, <1>6, <3>1 DEF Nth
  <2>4. m \in Nat /\ Len(q) \in Nat /\ ~(m < Len(q))
    BY <1>3, <2>3
  <2> QED BY <2>2, <2>4
<1>8. \A i \in 1 .. m : at[i - 1] = q[i]
  <2> TAKE i \in 1 .. m
  <2>1. i - 1 \in 0 .. Len(q) /\ (i - 1) + 1 = i /\ i \in DOMAIN q
    BY <1>3, <1>7
  <2> QED BY <1>6, <2>1 DEF Nth
<1>9. q = [i \in 1 .. m |-> q[i]]
  BY <1>3, <1>7
<1>10. [i \in 1 .. m |-> at[i - 1]] = [i \in 1 .. m |-> q[i]]
  BY <1>8
<1> QED BY <1>1, <1>9, <1>10

(* What is left of a sequence without an element it may have once. *)
Left(q, o) ==
  IF o \in ToSet(q) THEN RemoveAt(q, CHOOSE i \in DOMAIN q : q[i] = o) ELSE q

LEMMA LeftIs ==
  ASSUME NEW D, NEW q \in Seq(D), IsInjective(q), NEW j \in DOMAIN q
  PROVE  /\ Left(q, q[j]) \in Seq(D)
         /\ Len(Left(q, q[j])) = Len(q) - 1
         /\ \A i \in 1 .. Len(q) - 1 : Left(q, q[j])[i] = IF i < j THEN q[i] ELSE q[i + 1]
<1>1. /\ DOMAIN q = 1 .. Len(q) /\ Len(q) \in Nat /\ j \in 1 .. Len(q)
      /\ \A i \in 1 .. Len(q) : q[i] \in D
  OBVIOUS
<1>2. (CHOOSE i \in DOMAIN q : q[i] = q[j]) = j
  <2>1. \A i \in DOMAIN q : q[i] = q[j] => i = j
    BY DEF IsInjective
  <2> QED BY <2>1
<1>3. q[j] \in ToSet(q)
  BY <1>1 DEF ToSet
<1>4. Left(q, q[j]) = SubSeq(q, 1, j - 1) \o SubSeq(q, j + 1, Len(q))
  BY <1>2, <1>3 DEF Left, RemoveAt
<1> DEFINE a == SubSeq(q, 1, j - 1)
           b == SubSeq(q, j + 1, Len(q))
<1>5. /\ a \in Seq(D) /\ Len(a) = j - 1 /\ \A i \in 1 .. j - 1 : a[i] = q[i]
  BY <1>1, SubSeqProperties
<1>6. /\ b \in Seq(D) /\ Len(b) = Len(q) - j /\ \A i \in 1 .. Len(q) - j : b[i] = q[j + i]
  <2>1. /\ j + 1 \in Int /\ Len(q) \in Int /\ \A i \in j + 1 .. Len(q) : q[i] \in D
        /\ Len(q) - (j + 1) + 1 = Len(q) - j
        /\ \A i \in 1 .. Len(q) - j : (j + 1) + i - 1 = j + i
    BY <1>1
  <2>2. /\ b \in Seq(D) /\ Len(b) = IF j + 1 <= Len(q) THEN Len(q) - (j + 1) + 1 ELSE 0
        /\ \A i \in 1 .. Len(q) - (j + 1) + 1 : b[i] = q[(j + 1) + i - 1]
    BY <2>1, SubSeqProperties
  <2>3. Len(b) = Len(q) - j
    BY <1>1, <2>2
  <2>4. \A i \in 1 .. Len(q) - j : b[i] = q[j + i]
    BY <2>1, <2>2
  <2> QED BY <2>2, <2>3, <2>4
<1> HIDE DEF a, b
<1>7. /\ a \o b \in Seq(D) /\ Len(a \o b) = Len(q) - 1
      /\ \A i \in 1 .. Len(q) - 1 : (a \o b)[i] = IF i <= j - 1 THEN a[i] ELSE b[i - (j - 1)]
  <2>1. a \o b \in Seq(D) /\ Len(a \o b) = Len(a) + Len(b)
    BY <1>5, <1>6, ConcatProperties
  <2>2. \A i \in 1 .. Len(a) + Len(b) : (a \o b)[i] = IF i <= Len(a) THEN a[i] ELSE b[i - Len(a)]
    BY <1>5, <1>6, ConcatProperties
  <2>3. Len(a) + Len(b) = Len(q) - 1 /\ Len(a) = j - 1
    BY <1>1, <1>5, <1>6
  <2> QED BY <2>1, <2>2, <2>3
<1>8. ASSUME NEW i \in 1 .. Len(q) - 1 PROVE (a \o b)[i] = IF i < j THEN q[i] ELSE q[i + 1]
  <2>1. CASE i < j
    <3>1. i \in 1 .. j - 1 /\ i <= j - 1
      BY <1>1, <2>1
    <3> QED BY <1>5, <1>7, <2>1, <3>1
  <2>2. CASE ~(i < j)
    <3>1. i - (j - 1) \in 1 .. Len(q) - j /\ j + (i - (j - 1)) = i + 1 /\ ~(i <= j - 1)
      BY <1>1, <2>2
    <3> QED BY <1>6, <1>7, <2>2, <3>1
  <2> QED BY <2>1, <2>2
<1> QED BY <1>4, <1>7, <1>8 DEF a, b

(* The list that o leaves closes behind it, the others stay. *)
LEMMA RemoveListed ==
  ASSUME NEW s, Shaped(s), NEW place, NEW l \in Fields, NEW n \in Fields, l # n,
         Threaded(s, place, l, n), NEW o \in DOMAIN s, NEW w \in DOMAIN s, place[o] = w,
         NEW x \in DOMAIN s
  PROVE  Listed(LL_REMOVE(s, w, l, o, n), x, l, n) = Left(Listed(s, x, l, n), o)
<1> DEFINE t == LL_REMOVE(s, w, l, o, n)
           q == Listed(s, x, l, n)
           r == Left(q, o)
<1>1. /\ DOMAIN t = DOMAIN s /\ FiniteTable(t)
      /\ \A y \in DOMAIN s :
           /\ t[y][l] = IF s[y][l] = o THEN s[o][n] ELSE s[y][l]
           /\ t[y][n] = IF y = o THEN NOTHING ELSE IF s[y][n] = o THEN s[o][n] ELSE s[y][n]
  <2>1. /\ SameBut(s, t, {l, n})
        /\ \A y \in DOMAIN s :
             /\ t[y][l] = IF s[y][l] = o THEN s[o][n] ELSE s[y][l]
             /\ t[y][n] = IF y = o THEN NOTHING ELSE IF s[y][n] = o THEN s[o][n] ELSE s[y][n]
    BY RemoveIs
  <2> QED BY <2>1 DEF SameBut, Shaped
<1>2. Threaded(t, [place EXCEPT ![o] = NOTHING], l, n)
  BY RemoveThreaded
<1>3. /\ Chained(s, x, l, n, q) /\ IsInjective(q)
      /\ ToSet(q) = {y \in DOMAIN s : place[y] = x}
      /\ NOTHING \notin DOMAIN s
  BY ListedChained, ListedIs DEF Shaped, FiniteTable, Members, NOTHING
<1> HIDE DEF t, q
<1>4. /\ q \in Seq(DOMAIN s) /\ s[x][l] = Nth(q, 1)
      /\ \A i \in DOMAIN q : s[q[i]][n] = Nth(q, i + 1)
      /\ DOMAIN q = 1 .. Len(q) /\ Len(q) \in Nat /\ \A i \in 1 .. Len(q) : q[i] \in DOMAIN s
      /\ \A i, j \in 1 .. Len(q) : q[i] = q[j] => i = j
      /\ \A i \in 1 .. Len(q) : q[i] \in ToSet(q)
  BY <1>3 DEF Chained, IsInjective, ToSet
<1>5. Chained(t, x, l, n, r)
  <2>1. CASE x = w
    <3>1. PICK j \in 1 .. Len(q) : q[j] = o
      BY <1>3, <1>4, <2>1 DEF ToSet
    <3>2. /\ r \in Seq(DOMAIN s) /\ Len(r) = Len(q) - 1
          /\ \A i \in 1 .. Len(q) - 1 : r[i] = IF i < j THEN q[i] ELSE q[i + 1]
          /\ DOMAIN r = 1 .. Len(q) - 1
      <4>1. j \in DOMAIN q /\ r = Left(q, q[j])
        BY <1>4, <3>1
      <4> HIDE DEF r
      <4>2. /\ r \in Seq(DOMAIN s) /\ Len(r) = Len(q) - 1
            /\ \A i \in 1 .. Len(q) - 1 : r[i] = IF i < j THEN q[i] ELSE q[i + 1]
        <5>1. q \in Seq(DOMAIN s) /\ IsInjective(q)
          BY <1>3, <1>4
        <5> QED BY <4>1, <5>1, LeftIs
      <4> QED BY <4>2
    <3> HIDE DEF r
    <3>3. t[x][l] = Nth(r, 1)
      <4>1. CASE j = 1
        <5>1. s[x][l] = o /\ s[o][n] = Nth(q, 2)
          BY <1>4, <3>1, <4>1 DEF Nth
        <5>2. Nth(r, 1) = Nth(q, 2)
          BY <1>4, <3>2, <4>1 DEF Nth
        <5> QED BY <1>1, <5>1, <5>2
      <4>2. CASE j # 1
        <5>1. s[x][l] = q[1] /\ q[1] # o /\ 1 \in 1 .. Len(q) - 1 /\ 1 < j
          BY <1>4, <3>1, <4>2 DEF Nth
        <5> QED BY <1>1, <3>2, <5>1 DEF Nth
      <4> QED BY <4>1, <4>2
    <3>4. ASSUME NEW i \in 1 .. Len(q) - 1 PROVE t[r[i]][n] = Nth(r, i + 1)
      <4>1. CASE i < j
        <5>0. i \in 1 .. Len(q) /\ i + 1 \in 1 .. Len(q) /\ i # j
          BY <1>4, <4>1
        <5>1. /\ i \in 1 .. Len(q) /\ i + 1 \in 1 .. Len(q) /\ r[i] = q[i] /\ q[i] # o
              /\ s[q[i]][n] = q[i + 1] /\ q[i] \in DOMAIN s
          BY <1>4, <3>1, <3>2, <4>1, <5>0 DEF Nth
        <5>2. CASE i + 1 = j
          <6>1. t[r[i]][n] = Nth(q, j + 1)
            BY <1>1, <1>4, <3>1, <5>1, <5>2
          <6>2. Nth(r, i + 1) = Nth(q, j + 1)
            <7>1. CASE j = Len(q)
              <8>1. j + 1 \notin DOMAIN q /\ i + 1 \notin DOMAIN r
                BY <1>4, <3>2, <5>2, <7>1
              <8> QED BY <8>1 DEF Nth
            <7>2. CASE j # Len(q)
              <8>1. j + 1 \in DOMAIN q /\ i + 1 \in 1 .. Len(q) - 1 /\ ~(i + 1 < j)
                <9>1. Len(q) \in Nat
                  BY <1>4
                <9>2. j + 1 \in 1 .. Len(q) /\ j \in 1 .. Len(q) - 1
                  BY <7>2, <9>1
                <9> QED BY <1>4, <5>2, <9>2
              <8> QED BY <3>2, <5>2, <8>1 DEF Nth
            <7> QED BY <7>1, <7>2
          <6> QED BY <6>1, <6>2
        <5>3. CASE i + 1 # j
          <6>1. i + 1 < j /\ i + 1 \in 1 .. Len(q) - 1
            BY <4>1, <5>3
          <6>2. Nth(r, i + 1) = q[i + 1] /\ q[i + 1] # o
            BY <1>4, <3>1, <3>2, <5>1, <6>1 DEF Nth
          <6> QED BY <1>1, <5>1, <6>2
        <5> QED BY <5>2, <5>3
      <4>2. CASE ~(i < j)
        <5>1. /\ i + 1 \in 1 .. Len(q) /\ r[i] = q[i + 1] /\ q[i + 1] # o
              /\ s[q[i + 1]][n] = Nth(q, (i + 1) + 1) /\ q[i + 1] \in DOMAIN s
          BY <1>4, <3>1, <3>2, <4>2
        <5>2. Nth(r, i + 1) = Nth(q, (i + 1) + 1)
          <6>1. CASE i + 1 = Len(q)
            <7>1. (i + 1) + 1 \notin DOMAIN q /\ i + 1 \notin DOMAIN r
              BY <1>4, <3>2, <6>1
            <7> QED BY <7>1 DEF Nth
          <6>2. CASE i + 1 # Len(q)
            <7>1. /\ (i + 1) + 1 \in 1 .. Len(q) /\ i + 1 \in 1 .. Len(q) - 1
                  /\ (i + 1) + 1 \in DOMAIN q /\ ~(i + 1 < j)
              <8>1. Len(q) \in Nat
                BY <1>4
              <8>2. /\ (i + 1) + 1 \in 1 .. Len(q) /\ i + 1 \in 1 .. Len(q) - 1
                    /\ ~(i + 1 < j)
                BY <4>2, <6>2, <8>1
              <8> QED BY <1>4, <8>2
            <7> QED BY <3>2, <7>1 DEF Nth
          <6> QED BY <6>1, <6>2
        <5>3. Nth(q, (i + 1) + 1) # o
          <6>1. CASE (i + 1) + 1 \in DOMAIN q
            <7>1. (i + 1) + 1 # j /\ (i + 1) + 1 \in 1 .. Len(q)
              BY <1>4, <4>2, <6>1
            <7> QED BY <1>4, <3>1, <6>1, <7>1 DEF Nth
          <6>2. CASE (i + 1) + 1 \notin DOMAIN q
            BY <1>3, <6>2 DEF Nth
          <6> QED BY <6>1, <6>2
        <5> QED BY <1>1, <5>1, <5>2, <5>3
      <4> QED BY <4>1, <4>2
    <3> QED BY <1>1, <3>2, <3>3, <3>4 DEF Chained
  <2>2. CASE x # w
    <3>1. o \notin ToSet(q)
      BY <1>3, <2>2
    <3>2. r = q
      BY <3>1 DEF Left
    <3>3. \A i \in 1 .. Len(q) : q[i] # o
      BY <1>4, <3>1
    <3>4. \A i : Nth(q, i) # o
      BY <1>3, <1>4, <3>3 DEF Nth
    <3>5. t[x][l] = Nth(q, 1)
      BY <1>1, <1>4, <3>4
    <3>6. \A i \in DOMAIN q : t[q[i]][n] = Nth(q, i + 1)
      BY <1>1, <1>4, <3>3, <3>4
    <3> QED BY <1>1, <1>4, <3>2, <3>5, <3>6 DEF Chained
  <2> QED BY <2>1, <2>2
<1>6. Listed(t, x, l, n) = r
  <2> HIDE DEF r
  <2> QED BY <1>1, <1>2, <1>5, ChainedListed
<1> QED BY <1>6 DEF t, q, r

LEMMA NextIndex ==
  ASSUME NEW len \in Nat, NEW j \in 1 .. len, j # len
  PROVE  j \in Nat /\ j + 1 \in 1 .. len
OBVIOUS

LEMMA LastIndex ==
  ASSUME NEW len \in Nat, NEW i \in 1 .. len + 1
  PROVE  i \in 1 .. len \/ i = len + 1
OBVIOUS

(* The list that o comes to has it last. *)
LEMMA AppendListed ==
  ASSUME NEW s, Shaped(s), NEW place, NEW l \in Fields, NEW n \in Fields, l # n,
         Threaded(s, place, l, n), NEW o \in DOMAIN s, NEW w \in DOMAIN s, place[o] = NOTHING,
         NEW x \in DOMAIN s
  PROVE  Listed(LL_APPEND(s, w, l, o, n), x, l, n) =
           IF x = w THEN Append(Listed(s, x, l, n), o) ELSE Listed(s, x, l, n)
<1> DEFINE t == LL_APPEND(s, w, l, o, n)
           q == Listed(s, x, l, n)
           r == IF x = w THEN Append(q, o) ELSE q
           first == MadeFirst(s, t, place, l, n, o, w)
           behind(b) == PutBehind(s, t, place, l, n, o, w, b)
<1>1. /\ DOMAIN t = DOMAIN s /\ FiniteTable(t)
      /\ first \/ \E b \in DOMAIN s : behind(b)
  <2>1. SameBut(s, t, {l, n}) /\ (first \/ \E b \in DOMAIN s : behind(b))
    BY AppendIs
  <2> QED BY <2>1 DEF SameBut, Shaped
<1>2. Threaded(t, [place EXCEPT ![o] = w], l, n)
  BY AppendThreaded
<1>3. /\ Chained(s, x, l, n, q) /\ IsInjective(q)
      /\ ToSet(q) = {y \in DOMAIN s : place[y] = x}
      /\ NOTHING \notin DOMAIN s /\ s[o][n] = NOTHING
  <2>1. FiniteTable(s) /\ NOTHING \notin DOMAIN s /\ s[o][n] = NOTHING
    BY DEF Shaped, FiniteTable, NOTHING, Threaded
  <2> QED BY <2>1, ListedChained, ListedIs DEF Members
<1> HIDE DEF t, q
<1>4. q \in Seq(DOMAIN s) /\ Len(q) \in Nat
  <2>1. q \in Seq(DOMAIN s)
    BY <1>3 DEF Chained
  <2> QED BY <2>1, LenProperties
<1>5. /\ q \in Seq(DOMAIN s) /\ s[x][l] = Nth(q, 1)
      /\ \A i \in DOMAIN q : s[q[i]][n] = Nth(q, i + 1)
      /\ DOMAIN q = 1 .. Len(q) /\ Len(q) \in Nat /\ \A i \in 1 .. Len(q) : q[i] \in DOMAIN s
      /\ \A i \in 1 .. Len(q) : q[i] \in ToSet(q)
  BY <1>3 DEF Chained, ToSet
<1>6. \A i \in DOMAIN q : q[i] # o /\ place[q[i]] = x
  BY <1>3, <1>5 DEF FiniteTable
<1>7. Chained(t, x, l, n, r)
  <2>1. CASE x # w
    <3>1. t[x][l] = s[x][l]
      BY <1>1, <2>1 DEF MadeFirst, PutBehind
    <3>2. \A i \in DOMAIN q : t[q[i]][n] = s[q[i]][n]
      BY <1>1, <1>5, <1>6, <2>1 DEF MadeFirst, PutBehind
    <3>3. r = q
      BY <2>1
    <3> QED BY <1>1, <1>5, <3>1, <3>2, <3>3 DEF Chained
  <2>2. CASE x = w
    <3>0. /\ r = Append(q, o) /\ r \in Seq(DOMAIN s) /\ DOMAIN r = 1 .. Len(q) + 1
          /\ r[Len(q) + 1] = o /\ \A i \in 1 .. Len(q) : r[i] = q[i]
      BY <1>5, <2>2
    <3> HIDE DEF r
    <3>1. t[o][n] = NOTHING
      BY <1>1, <1>3, <2>2 DEF MadeFirst, PutBehind, FiniteTable, Shaped, NOTHING
    <3>2. CASE first
      <4>1. Len(q) = 0
        BY <1>5, <1>6, <2>2, <3>2 DEF MadeFirst
      <4>2. t[x][l] = o
        BY <2>2, <3>2 DEF MadeFirst
      <4>3. DOMAIN r = {1} /\ r[1] = o /\ 2 \notin DOMAIN r
        BY <3>0, <4>1
      <4>4. Nth(r, 1) = o /\ Nth(r, 2) = NOTHING
        BY <4>3 DEF Nth
      <4>5. \A i \in DOMAIN r : t[r[i]][n] = Nth(r, i + 1)
        BY <3>1, <4>3, <4>4
      <4> QED BY <1>1, <3>0, <4>2, <4>4, <4>5 DEF Chained
    <3>3. ASSUME NEW b \in DOMAIN s, behind(b) PROVE Chained(t, x, l, n, r)
      <4>1. PICK j \in 1 .. Len(q) : q[j] = b
        BY <1>3, <1>5, <2>2, <3>3 DEF PutBehind, ToSet
      <4>2. j = Len(q)
        <5> SUFFICES ASSUME j # Len(q) PROVE FALSE
          OBVIOUS
        <5>1. j \in Nat /\ j + 1 \in 1 .. Len(q)
          <6>1. Len(q) \in Nat /\ j \in 1 .. Len(q) /\ j # Len(q)
            BY <1>4, Zenon
          <6> QED BY <6>1, NextIndex, Zenon
        <5>2. s[b][n] = q[j + 1] /\ q[j + 1] \in DOMAIN s
          BY <1>5, <4>1, <5>1 DEF Nth
        <5> QED BY <1>3, <3>3, <5>2 DEF PutBehind
      <4>3. t[x][l] = Nth(r, 1)
        <5>1. t[x][l] = s[x][l] /\ 1 \in 1 .. Len(q)
          BY <1>5, <3>3, <4>1 DEF PutBehind
        <5> QED BY <1>5, <3>0, <5>1 DEF Nth
      <4>4. ASSUME NEW i \in 1 .. Len(q) PROVE t[r[i]][n] = Nth(r, i + 1)
        <5>1. CASE i = j
          <6>1. t[r[i]][n] = o
            BY <1>5, <3>0, <3>3, <4>1, <5>1 DEF PutBehind
          <6>2. i + 1 = Len(q) + 1 /\ i + 1 \in DOMAIN r
            BY <3>0, <4>2, <5>1
          <6> QED BY <3>0, <6>1, <6>2 DEF Nth
        <5>2. CASE i # j
          <6>1. i + 1 \in 1 .. Len(q) /\ i \in DOMAIN q /\ i + 1 \in DOMAIN q /\ i + 1 \in DOMAIN r
            BY <1>5, <3>0, <4>2, <5>2
          <6>2. q[i] # b
            <7>1. s[q[i]][n] = q[i + 1] /\ q[i + 1] \in DOMAIN s
              BY <1>5, <6>1 DEF Nth
            <7> QED BY <1>3, <3>3, <7>1 DEF PutBehind
          <6> QED BY <1>5, <3>0, <3>3, <6>1, <6>2 DEF PutBehind, Nth
        <5> QED BY <5>1, <5>2
      <4>5. t[r[Len(q) + 1]][n] = Nth(r, (Len(q) + 1) + 1)
        <5>1. (Len(q) + 1) + 1 \notin DOMAIN r
          BY <1>5, <3>0
        <5> QED BY <3>0, <3>1, <5>1 DEF Nth
      <4>6. \A i \in DOMAIN r : t[r[i]][n] = Nth(r, i + 1)
        <5>1. \A i \in DOMAIN r : i \in 1 .. Len(q) \/ i = Len(q) + 1
          <6>1. Len(q) \in Nat /\ DOMAIN r = 1 .. Len(q) + 1
            BY <1>4, <3>0, Zenon
          <6> QED BY <6>1, LastIndex, Zenon
        <5> QED BY <4>4, <4>5, <5>1
      <4> QED BY <1>1, <3>0, <4>3, <4>6 DEF Chained
    <3> QED BY <1>1, <3>2, <3>3
  <2> QED BY <2>1, <2>2
<1>8. Listed(t, x, l, n) = r
  <2> HIDE DEF r
  <2> QED BY <1>1, <1>2, <1>7, ChainedListed
<1> QED BY <1>8 DEF t, q, r

(* The operations of Forests, in the words above. *)
LEMMA ForestMoved ==
  ASSUME NEW h, NEW o, NEW p
  PROVE  Forest!Moved(h, o, p) =
           [x \in DOMAIN h |-> IF x = p THEN Append(Left(h[x], o), o) ELSE Left(h[x], o)]
<1>1. Forest!Detached(h, o) = [x \in DOMAIN h |-> Left(h[x], o)]
  BY DEF Forest!Detached, Forest!Below, Left, ToSet, RemoveAt, Forest!ToSet, Forest!RemoveAt
<1> QED BY <1>1 DEF Forest!Moved

(* All lists of a hierarchy. *)
Lists(s, l, n) == [w \in DOMAIN s |-> Listed(s, w, l, n)]

(* The links of a list alone make it. *)
LEMMA ListsSame ==
  ASSUME NEW s, FiniteTable(s), NEW place, NEW l, NEW n, Threaded(s, place, l, n),
         NEW t, DOMAIN t = DOMAIN s,
         \A x \in DOMAIN s : t[x][l] = s[x][l] /\ t[x][n] = s[x][n]
  PROVE  Lists(t, l, n) = Lists(s, l, n)
<1>1. FiniteTable(t) /\ Threaded(t, place, l, n)
  BY ThreadedSame DEF FiniteTable
<1>2. ASSUME NEW w \in DOMAIN s PROVE Listed(t, w, l, n) = Listed(s, w, l, n)
  <2>1. Chained(s, w, l, n, Listed(s, w, l, n))
    BY ListedChained
  <2>2. Chained(t, w, l, n, Listed(s, w, l, n))
    BY <2>1, ElementOfSeq DEF Chained
  <2> QED BY <1>1, <2>2, ChainedListed
<1> QED BY <1>2 DEF Lists

(* An object that is in no list is not missed there. *)
LEMMA LeftNot ==
  ASSUME NEW q, NEW o, o \notin ToSet(q)
  PROVE  Left(q, o) = q
BY DEF Left

(* What moves an object in the table moves it in the lists. *)
LEMMA RelocatedLists ==
  ASSUME NEW s, Shaped(s),
         NEW up \in Fields, NEW l \in Fields, NEW n \in Fields, up # l, up # n, l # n,
         Hierarchy(s, up, l, n),
         NEW o \in DOMAIN s, NEW p \in OrNone(s)
  PROVE  Lists(Relocated(s, o, p, up, l, n), l, n) = Forest!Moved(Lists(s, l, n), o, p)
<1> DEFINE old == s[o][up]
           s1  == IF old # NOTHING THEN LL_REMOVE(s, old, l, o, n) ELSE s
           at  == [Place(s, up) EXCEPT ![o] = NOTHING]
           s2  == IF p # NOTHING THEN LL_APPEND(s1, p, l, o, n) ELSE s1
           t   == [s2 EXCEPT ![o][up] = p]
<1>1. FiniteTable(s) /\ Threaded(s, Place(s, up), l, n) /\ NOTHING \notin DOMAIN s
  BY DEF Shaped, Hierarchy, FiniteTable, NOTHING
<1>2. old \in OrNone(s) /\ Place(s, up) \in [DOMAIN s -> OrNone(s)]
  BY DEF Hierarchy, Links, Place
<1>3. /\ Shaped(s1) /\ DOMAIN s1 = DOMAIN s
      /\ Threaded(s1, at, l, n)
      /\ \A x \in DOMAIN s : Listed(s1, x, l, n) = Left(Listed(s, x, l, n), o)
  <2>1. CASE old # NOTHING
    <3>1. old \in DOMAIN s /\ Place(s, up)[o] = old
      BY <1>2, <2>1 DEF OrNone, Place
    <3>2. SameBut(s, s1, {l, n})
      BY <1>1, <2>1, <3>1, RemoveIs
    <3>3. Threaded(s1, at, l, n)
      BY <1>1, <2>1, <3>1, RemoveThreaded
    <3>4. \A x \in DOMAIN s : Listed(s1, x, l, n) = Left(Listed(s, x, l, n), o)
      BY <1>1, <2>1, <3>1, RemoveListed
    <3> QED BY <3>2, <3>3, <3>4 DEF SameBut
  <2>2. CASE old = NOTHING
    <3>1. at = Place(s, up)
      BY <1>2, <2>2 DEF Place
    <3>2. ASSUME NEW x \in DOMAIN s PROVE Listed(s, x, l, n) = Left(Listed(s, x, l, n), o)
      <4>1. ToSet(Listed(s, x, l, n)) = {y \in DOMAIN s : Place(s, up)[y] = x}
        BY <1>1, ListedIs DEF Members
      <4>2. Place(s, up)[o] # x
        BY <1>1, <2>2 DEF Place
      <4> QED BY <4>1, <4>2, LeftNot
    <3> QED BY <1>1, <2>2, <3>1, <3>2
  <2> QED BY <2>1, <2>2
<1>4. FiniteTable(s1) /\ at[o] = NOTHING /\ at \in [DOMAIN s -> OrNone(s)]
  BY <1>2, <1>3 DEF Shaped, OrNone
<1> HIDE DEF s1, at
<1>5. /\ Shaped(s2) /\ DOMAIN s2 = DOMAIN s
      /\ \E place : Threaded(s2, place, l, n)
      /\ \A x \in DOMAIN s : Listed(s2, x, l, n) =
           IF x = p THEN Append(Left(Listed(s, x, l, n), o), o) ELSE Left(Listed(s, x, l, n), o)
  <2>1. CASE p # NOTHING
    <3>1. p \in DOMAIN s1 /\ o \in DOMAIN s1
      BY <1>3, <2>1 DEF OrNone
    <3>2. SameBut(s1, s2, {l, n})
      BY <1>3, <1>4, <2>1, <3>1, AppendIs
    <3>3. Threaded(s2, [at EXCEPT ![o] = p], l, n)
      BY <1>3, <1>4, <2>1, <3>1, AppendThreaded
    <3>4. \A x \in DOMAIN s1 : Listed(s2, x, l, n) =
            IF x = p THEN Append(Listed(s1, x, l, n), o) ELSE Listed(s1, x, l, n)
      BY <1>3, <1>4, <2>1, <3>1, AppendListed
    <3> QED BY <1>3, <3>2, <3>3, <3>4 DEF SameBut
  <2>2. CASE p = NOTHING
    <3>1. s2 = s1 /\ p \notin DOMAIN s
      BY <1>1, <2>2
    <3> HIDE DEF s2
    <3>2. \A x \in DOMAIN s : Listed(s2, x, l, n) = Left(Listed(s, x, l, n), o) /\ x # p
      BY <1>3, <3>1
    <3> QED BY <1>3, <3>1, <3>2
  <2> QED BY <2>1, <2>2
<1> HIDE DEF s2
<1>6. PICK place : Threaded(s2, place, l, n)
  BY <1>5
<1>7. DOMAIN t = DOMAIN s2 /\ \A x \in DOMAIN s2 : t[x][l] = s2[x][l] /\ t[x][n] = s2[x][n]
  BY <1>5 DEF Shaped
<1>8. FiniteTable(s2)
  BY <1>5 DEF Shaped
<1> HIDE DEF t
<1>9. Lists(t, l, n) = Lists(s2, l, n)
  BY <1>6, <1>7, <1>8, ListsSame
<1>10. t = Relocated(s, o, p, up, l, n)
  BY DEF Relocated, t, s1, s2
<1>11. Lists(s2, l, n) = Forest!Moved(Lists(s, l, n), o, p)
  <2> DEFINE h == Lists(s, l, n)
  <2>1. DOMAIN h = DOMAIN s /\ \A x \in DOMAIN s : h[x] = Listed(s, x, l, n)
    BY DEF Lists
  <2> HIDE DEF h
  <2>2. Forest!Moved(h, o, p) =
          [x \in DOMAIN s |-> IF x = p THEN Append(Left(h[x], o), o) ELSE Left(h[x], o)]
    BY <2>1, ForestMoved
  <2>3. Lists(s2, l, n) = [x \in DOMAIN s |-> Listed(s2, x, l, n)]
    BY <1>5 DEF Lists
  <2>4. \A x \in DOMAIN s : Listed(s2, x, l, n) =
          IF x = p THEN Append(Left(h[x], o), o) ELSE Left(h[x], o)
    BY <1>5, <2>1
  <2> QED BY <2>2, <2>3, <2>4 DEF h
<1> QED BY <1>9, <1>10, <1>11

(* What is not at or above p has p not at or below it. *)
LEMMA NotInSubtree ==
  ASSUME NEW s, Shaped(s), NEW up, NEW l, NEW n, Hierarchy(s, up, l, n),
         NEW o \in DOMAIN s, NEW p, o \notin Ancestors(s, p, up)
  PROVE  p \notin Forest!Subtree(Lists(s, l, n), o)
<1> DEFINE h == Lists(s, l, n)
           S == {x \in DOMAIN s : o \in Ancestors(s, x, up)}
<1>1. FiniteTable(s) /\ Links(s, up) /\ Threaded(s, Place(s, up), l, n)
  BY DEF Shaped, Hierarchy
<1>2. DOMAIN h = DOMAIN s
  BY DEF Lists
<1>3. ASSUME NEW y \in S, NEW z \in Forest!Below(h, y) PROVE z \in S
  <2>1. h[y] = Listed(s, y, l, n)
    BY DEF Lists
  <2>2. ToSet(Listed(s, y, l, n)) = {x \in DOMAIN s : Place(s, up)[x] = y}
    BY <1>1, ListedIs DEF Members
  <2>3. z \in ToSet(h[y])
    BY DEF Forest!Below, ToSet, Forest!ToSet
  <2>4. z \in DOMAIN s /\ s[z][up] = y
    BY <2>1, <2>2, <2>3 DEF Place
  <2>5. Ancestors(s, z, up) = {z} \cup Ancestors(s, y, up)
    BY <1>1, <2>4, AncestorsStep
  <2> QED BY <2>4, <2>5
<1>4. o \in S
  BY <1>1, AncestorsAre DEF OrNone, FiniteTable, NOTHING
<1>5. p \notin S /\ S \subseteq DOMAIN h
  BY <1>2
<1> HIDE DEF S, h
<1> QED BY <1>3, <1>4, <1>5 DEF Forest!Subtree, h

(* An object that has moved is in the list it came to, and Forests lets it come there. *)
LEMMA RelocatedRehung ==
  ASSUME NEW s, Shaped(s),
         NEW up \in Fields, NEW l \in Fields, NEW n \in Fields, up # l, up # n, l # n,
         Hierarchy(s, up, l, n),
         NEW o \in DOMAIN s, NEW p \in OrNone(s), o \notin Ancestors(s, p, up)
  PROVE  Forest!Rehung(Lists(s, l, n), Lists(Relocated(s, o, p, up, l, n), l, n))
<1> DEFINE t   == Relocated(s, o, p, up, l, n)
           h   == Lists(s, l, n)
           new == Lists(t, l, n)
<1>1. /\ SameBut(s, t, {up, l, n})
      /\ t[o][up] = p
      /\ Hierarchy(t, up, l, n)
  BY RelocatedIs
<1>2. new = Forest!Moved(h, o, p)
  BY RelocatedLists
<1>3. DOMAIN t = DOMAIN s /\ Shaped(t)
  BY <1>1 DEF SameBut
<1>4. DOMAIN h = DOMAIN s
  BY DEF Lists
<1> HIDE DEF t
<1>5. ASSUME p \in DOMAIN s PROVE o \in Forest!Below(new, p) /\ p \notin Forest!Subtree(h, o)
  <2>1. FiniteTable(t) /\ Threaded(t, Place(t, up), l, n)
    BY <1>1, <1>3 DEF Shaped, Hierarchy
  <2>2. Members(t, p, l, n) = {x \in DOMAIN t : Place(t, up)[x] = p}
    BY <1>3, <1>5, <2>1, ListedIs
  <2>3. o \in Members(t, p, l, n)
    BY <1>1, <1>3, <2>2 DEF Place
  <2>4. new[p] = Listed(t, p, l, n)
    BY <1>3, <1>5 DEF Lists
  <2>5. o \in Forest!Below(new, p)
    BY <2>3, <2>4 DEF Members, Forest!Below, ToSet, Forest!ToSet
  <2> QED BY <2>5, NotInSubtree
<1>6. p \in DOMAIN s \/ p = NOTHING
  BY DEF OrNone
<1> HIDE DEF h, new
<1>7. Forest!Rehung(h, new)
  BY <1>2, <1>4, <1>5, <1>6 DEF Forest!Rehung
<1> QED BY <1>7 DEF h, new, t

(* The lists of the two hierarchies. *)
Kids(s) == Lists(s, "child", "sibling")

Contents(s) == Lists(s, "contents", "next")

(* The lists of one hierarchy, and their order, are those of another table with
   the same links. *)
LEMMA KidsSame ==
  ASSUME NEW s, Sound(s), NEW t, DOMAIN t = DOMAIN s,
         \A x \in DOMAIN s : \A f \in {"child", "sibling"} : t[x][f] = s[x][f]
  PROVE  Kids(t) = Kids(s)
BY ListsSame DEF Sound, Shaped, Inheritance, Hierarchy, Kids

LEMMA ContentsSame ==
  ASSUME NEW s, Sound(s), NEW t, DOMAIN t = DOMAIN s,
         \A x \in DOMAIN s : \A f \in {"contents", "next"} : t[x][f] = s[x][f]
  PROVE  Contents(t) = Contents(s)
BY ListsSame DEF Sound, Shaped, Whereabouts, Hierarchy, Contents

LEMMA LocationLists ==
  ASSUME NEW s, Sound(s), NEW o \in DOMAIN s, NEW p \in OrNone(s),
         o \notin Ancestors(s, p, "location")
  PROVE  LET t == db_change_location(s, o, p)
         IN /\ Kids(t) = Kids(s)
            /\ Contents(t) = Forest!Moved(Contents(s), o, p)
            /\ Forest!Rehung(Contents(s), Contents(t))
<1> DEFINE t == db_change_location(s, o, p)
<1>1. s[o].location \in OrNone(s) /\ NOTHING \notin DOMAIN s
  BY DEF Sound, Whereabouts, Hierarchy, Links, Shaped, FiniteTable, NOTHING
<1>2. t = Relocated(s, o, p, "location", "contents", "next")
  BY <1>1 DEF db_change_location, Relocated, Valid, OrNone
<1> HIDE DEF t
<1>3. Shaped(s) /\ Hierarchy(s, "location", "contents", "next")
  BY DEF Sound, Whereabouts
<1>4. /\ "location" \in Fields /\ "contents" \in Fields /\ "next" \in Fields
      /\ "location" # "contents" /\ "location" # "next" /\ "contents" # "next"
  BY FieldNames
<1>5. SameBut(s, t, {"location", "contents", "next"})
  <2>1. SameBut(s, Relocated(s, o, p, "location", "contents", "next"),
                {"location", "contents", "next"})
    BY <1>3, <1>4, RelocatedIs
  <2> QED BY <1>2, <2>1
<1>6. DOMAIN t = DOMAIN s /\ \A x \in DOMAIN s : \A f \in {"child", "sibling"} : t[x][f] = s[x][f]
  BY <1>5, FieldNames DEF SameBut
<1>7. Kids(t) = Kids(s)
  BY <1>6, KidsSame
<1>8. Lists(t, "contents", "next") = Forest!Moved(Lists(s, "contents", "next"), o, p)
  BY <1>2, <1>3, <1>4, RelocatedLists
<1>9. Forest!Rehung(Lists(s, "contents", "next"), Lists(t, "contents", "next"))
  BY <1>2, <1>3, <1>4, RelocatedRehung
<1> QED BY <1>7, <1>8, <1>9 DEF Contents, t

LEMMA ParentLists ==
  ASSUME NEW s, Sound(s), NEW o \in DOMAIN s, NEW p \in OrNone(s),
         o \notin Ancestors(s, p, "parent"), MayBeUnder(s, o, p)
  PROVE  LET t == db_change_parent(s, o, p)
         IN /\ Contents(t) = Contents(s)
            /\ Kids(t) = Forest!Moved(Kids(s), o, p)
            /\ Forest!Rehung(Kids(s), Kids(t))
<1> DEFINE t == db_change_parent(s, o, p)
<1>1. t = Relocated(s, o, p, "parent", "child", "sibling")
  BY DEF db_change_parent, Relocated
<1> HIDE DEF t
<1>2. Shaped(s) /\ Hierarchy(s, "parent", "child", "sibling")
  BY DEF Sound, Inheritance
<1>3. /\ "parent" \in Fields /\ "child" \in Fields /\ "sibling" \in Fields
      /\ "parent" # "child" /\ "parent" # "sibling" /\ "child" # "sibling"
  BY FieldNames
<1>4. DOMAIN t = DOMAIN s /\ \A x \in DOMAIN s : \A f \in {"contents", "next"} : t[x][f] = s[x][f]
  BY ParentChanged DEF t
<1>5. Contents(t) = Contents(s)
  BY <1>4, ContentsSame
<1>6. Lists(t, "child", "sibling") = Forest!Moved(Lists(s, "child", "sibling"), o, p)
  BY <1>1, <1>2, <1>3, RelocatedLists
<1>7. Forest!Rehung(Lists(s, "child", "sibling"), Lists(t, "child", "sibling"))
  BY <1>1, <1>2, <1>3, RelocatedRehung
<1> QED BY <1>5, <1>6, <1>7 DEF Kids, t

(* The lists with a new object, and without one that has left. *)
Newly(h, o) == [x \in DOMAIN h \cup {o} |-> IF x = o THEN <<>> ELSE h[x]]

Dropped(h, o) == [x \in DOMAIN h \ {o} |-> h[x]]

LEMMA ListsExtended ==
  ASSUME NEW s, Shaped(s), NEW up, NEW l, NEW n, Hierarchy(s, up, l, n),
         NewObject[up] = NOTHING, NewObject[l] = NOTHING, NewObject[n] = NOTHING,
         NEW o \in Nat, o \notin DOMAIN s
  PROVE  Lists(Extended(s, o), l, n) = Newly(Lists(s, l, n), o)
<1> DEFINE t == Extended(s, o)
           D == DOMAIN s \cup {o}
<1>1. /\ DOMAIN t = D /\ t[o] = NewObject
      /\ \A x \in DOMAIN s : t[x] = s[x]
  BY DEF Extended
<1>2. FiniteTable(s) /\ Threaded(s, Place(s, up), l, n)
  BY DEF Shaped, Hierarchy
<1>3. FiniteTable(t)
  <2>1. IsFiniteSet(D) /\ D \subseteq Nat
    BY <1>2, FS_AddElement DEF FiniteTable
  <2> QED BY <1>1, <2>1 DEF FiniteTable
<1>4. Threaded(t, Place(t, up), l, n)
  BY HierarchyExtended DEF Hierarchy
<1> HIDE DEF t
<1>5. Listed(t, o, l, n) = <<>>
  <2>1. Chained(t, o, l, n, <<>>)
    BY <1>1 DEF Chained, Nth
  <2> QED BY <1>1, <1>3, <1>4, <2>1, ChainedListed
<1>6. ASSUME NEW w \in DOMAIN s PROVE Listed(t, w, l, n) = Listed(s, w, l, n)
  <2> DEFINE q == Listed(s, w, l, n)
  <2>1. Chained(s, w, l, n, q)
    BY <1>2, ListedChained
  <2> HIDE DEF q
  <2>2. q \in Seq(DOMAIN s) /\ \A i \in DOMAIN q : q[i] \in DOMAIN s
    BY <2>1, ElementOfSeq DEF Chained
  <2>3. q \in Seq(D)
    BY <2>2
  <2>4. Chained(t, w, l, n, q)
    BY <1>1, <2>1, <2>2, <2>3 DEF Chained
  <2> QED BY <1>1, <1>3, <1>4, <2>4, ChainedListed DEF q
<1>7. \A x \in D : Listed(t, x, l, n) = IF x = o THEN <<>> ELSE Lists(s, l, n)[x]
  BY <1>5, <1>6 DEF Lists
<1> QED BY <1>1, <1>7 DEF Lists, Newly, t

LEMMA ListsWithout ==
  ASSUME NEW s, Shaped(s), NEW up, NEW l, NEW n, Hierarchy(s, up, l, n),
         NEW o \in DOMAIN s, s[o][up] = NOTHING, s[o][l] = NOTHING
  PROVE  Lists(Without(s, o), l, n) = Dropped(Lists(s, l, n), o)
<1> DEFINE t == Without(s, o)
           D == DOMAIN s \ {o}
<1>1. DOMAIN t = D /\ \A x \in D : t[x] = s[x]
  BY DEF Without
<1>2. FiniteTable(s) /\ Threaded(s, Place(s, up), l, n) /\ NOTHING \notin DOMAIN s
  BY DEF Shaped, Hierarchy, FiniteTable, NOTHING
<1>3. FiniteTable(t)
  <2>1. IsFiniteSet(D) /\ D \subseteq Nat
    BY <1>2, FS_Subset DEF FiniteTable
  <2> QED BY <1>1, <2>1 DEF FiniteTable
<1>4. Threaded(t, Place(t, up), l, n)
  BY HierarchyWithout DEF Hierarchy
<1> HIDE DEF t
<1>5. ASSUME NEW w \in D PROVE Listed(t, w, l, n) = Listed(s, w, l, n)
  <2> DEFINE q == Listed(s, w, l, n)
  <2>1. Chained(s, w, l, n, q)
    BY <1>2, ListedChained
  <2>2. ToSet(q) = {x \in DOMAIN s : Place(s, up)[x] = w}
    BY <1>2, ListedIs DEF Members
  <2>3. o \notin ToSet(q)
    BY <1>2, <2>2 DEF Place
  <2> HIDE DEF q
  <2>4. q \in Seq(DOMAIN s)
    BY <2>1 DEF Chained
  <2>5. \A i \in 1 .. Len(q) : q[i] \in D
    <3>1. \A i \in 1 .. Len(q) : q[i] \in DOMAIN s /\ q[i] \in ToSet(q)
      BY <2>4, ElementOfSeq DEF ToSet
    <3> QED BY <2>3, <3>1
  <2>6. q \in Seq(D)
    BY <2>4, <2>5
  <2>7. Chained(t, w, l, n, q)
    <3>1. DOMAIN q = 1 .. Len(q)
      BY <2>4
    <3> QED BY <1>1, <2>1, <2>5, <2>6, <3>1 DEF Chained
  <2> QED BY <1>1, <1>3, <1>4, <2>7, ChainedListed DEF q
<1>6. \A x \in D : Listed(t, x, l, n) = Lists(s, l, n)[x]
  BY <1>5 DEF Lists
<1> QED BY <1>1, <1>6 DEF Lists, Dropped, t

(* A new object may be put below any other, and then hangs there. *)
LEMMA CreatedLists ==
  ASSUME NEW s, Sound(s), NEW o \in Nat, o \notin DOMAIN s, NEW p \in OrNone(s)
  PROVE  LET t == db_change_parent(Extended(s, o), o, p)
         IN /\ Kids(t) = Forest!Moved(Newly(Kids(s), o), o, p)
            /\ Contents(t) = Newly(Contents(s), o)
<1> DEFINE u == Extended(s, o)
<1>1. /\ DOMAIN u = DOMAIN s \cup {o} /\ u[o].propdefs = {}
  BY DEF Extended, NewObject
<1>2. Sound(u) /\ o \notin Ancestors(u, p, "parent")
  BY ExtendedSound, NotAboveYet
<1>3. Kids(u) = Newly(Kids(s), o)
  <2>1. Hierarchy(s, "parent", "child", "sibling") /\ Shaped(s)
    BY DEF Sound, Inheritance
  <2>2. NewObject["parent"] = NOTHING /\ NewObject["child"] = NOTHING /\ NewObject["sibling"] = NOTHING
    BY DEF NewObject
  <2>3. Lists(u, "child", "sibling") = Newly(Lists(s, "child", "sibling"), o)
    BY <2>1, <2>2, ListsExtended
  <2> QED BY <2>3 DEF Kids
<1>4. Contents(u) = Newly(Contents(s), o)
  <2>1. Hierarchy(s, "location", "contents", "next") /\ Shaped(s)
    BY DEF Sound, Whereabouts
  <2>2. NewObject["location"] = NOTHING /\ NewObject["contents"] = NOTHING /\ NewObject["next"] = NOTHING
    BY DEF NewObject
  <2>3. Lists(u, "contents", "next") = Newly(Lists(s, "contents", "next"), o)
    BY <2>1, <2>2, ListsExtended
  <2> QED BY <2>3 DEF Contents
<1> HIDE DEF u
<1>5. MayBeUnder(u, o, p)
  <2> DEFINE step == [x \in DOMAIN u |-> Members(u, x, "child", "sibling")]
  <2>1. Kids(u)[o] = <<>>
    BY <1>3 DEF Newly
  <2>2. step[o] = {} /\ IsFiniteSet(DOMAIN step)
    BY <1>1, <1>2, <2>1 DEF Kids, Lists, Members, ToSet, Sound, Shaped, FiniteTable
  <2>3. AtOrBelow(u, o) = Reached(step, o)
    BY DEF AtOrBelow
  <2> HIDE DEF step
  <2>4. Reached(step, o) \subseteq {o}
    <3>1. o \in {o} /\ \A x \in DOMAIN step : x \in {o} => step[x] \subseteq {o}
      BY <2>2
    <3> QED BY <2>2, <3>1, ReachedIs
  <2>5. DefinedAtOrBelow(u, o) = {}
    BY <1>1, <2>3, <2>4 DEF DefinedAtOrBelow
  <2> QED BY <2>5 DEF MayBeUnder
<1>6. o \in DOMAIN u /\ p \in OrNone(u)
  BY <1>1 DEF OrNone
<1>7. LET t == db_change_parent(u, o, p)
      IN Contents(t) = Contents(u) /\ Kids(t) = Forest!Moved(Kids(u), o, p)
  BY <1>2, <1>5, <1>6, ParentLists
<1> QED BY <1>3, <1>4, <1>7 DEF u

(* The lists of the children, and of the contents, in a sound table. *)
LEMMA KidsAre ==
  ASSUME NEW s, Sound(s)
  PROVE  /\ DOMAIN Kids(s) = DOMAIN s
         /\ \A x \in DOMAIN s : /\ Kids(s)[x] \in Seq(DOMAIN s) /\ IsInjective(Kids(s)[x])
                                /\ ToSet(Kids(s)[x]) = {y \in DOMAIN s : s[y].parent = x}
                                /\ s[x].child = Nth(Kids(s)[x], 1)
<1>1. FiniteTable(s) /\ Threaded(s, Place(s, "parent"), "child", "sibling")
  BY DEF Sound, Shaped, Inheritance, Hierarchy
<1> SUFFICES ASSUME NEW x \in DOMAIN s
             PROVE  /\ Kids(s)[x] \in Seq(DOMAIN s) /\ IsInjective(Kids(s)[x])
                    /\ ToSet(Kids(s)[x]) = {y \in DOMAIN s : s[y].parent = x}
                    /\ s[x].child = Nth(Kids(s)[x], 1)
  BY DEF Kids, Lists
<1>2. Kids(s)[x] = Listed(s, x, "child", "sibling")
  BY DEF Kids, Lists
<1>3. Chained(s, x, "child", "sibling", Listed(s, x, "child", "sibling"))
  BY <1>1, ListedChained
<1>4. /\ IsInjective(Listed(s, x, "child", "sibling"))
      /\ ToSet(Listed(s, x, "child", "sibling")) = {y \in DOMAIN s : Place(s, "parent")[y] = x}
  BY <1>1, ListedIs DEF Members
<1>5. {y \in DOMAIN s : Place(s, "parent")[y] = x} = {y \in DOMAIN s : s[y].parent = x}
  BY DEF Place
<1> QED BY <1>2, <1>3, <1>4, <1>5 DEF Chained

LEMMA ContentsAre ==
  ASSUME NEW s, Sound(s)
  PROVE  /\ DOMAIN Contents(s) = DOMAIN s
         /\ \A x \in DOMAIN s : /\ Contents(s)[x] \in Seq(DOMAIN s)
                                /\ ToSet(Contents(s)[x]) = {y \in DOMAIN s : s[y].location = x}
                                /\ s[x].contents = Nth(Contents(s)[x], 1)
<1>1. FiniteTable(s) /\ Threaded(s, Place(s, "location"), "contents", "next")
  BY DEF Sound, Shaped, Whereabouts, Hierarchy
<1> SUFFICES ASSUME NEW x \in DOMAIN s
             PROVE  /\ Contents(s)[x] \in Seq(DOMAIN s)
                    /\ ToSet(Contents(s)[x]) = {y \in DOMAIN s : s[y].location = x}
                    /\ s[x].contents = Nth(Contents(s)[x], 1)
  BY DEF Contents, Lists
<1>2. Contents(s)[x] = Listed(s, x, "contents", "next")
  BY DEF Contents, Lists
<1>3. Chained(s, x, "contents", "next", Listed(s, x, "contents", "next"))
  BY <1>1, ListedChained
<1>4. ToSet(Listed(s, x, "contents", "next")) = {y \in DOMAIN s : Place(s, "location")[y] = x}
  BY <1>1, ListedIs DEF Members
<1>5. {y \in DOMAIN s : Place(s, "location")[y] = x} = {y \in DOMAIN s : s[y].location = x}
  BY DEF Place
<1> QED BY <1>2, <1>3, <1>4, <1>5 DEF Chained

(* A list with no first is empty. *)
LEMMA NoFirst ==
  ASSUME NEW D, NOTHING \notin D, NEW q \in Seq(D), Nth(q, 1) = NOTHING
  PROVE  q = <<>>
BY ElementOfSeq DEF Nth

(* The first of a list leaves the rest of it. *)
LEMMA LeftHead ==
  ASSUME NEW D, NEW q \in Seq(D), IsInjective(q), q # <<>>
  PROVE  Left(q, Head(q)) = Tail(q) /\ Tail(q) \in Seq(D) /\ Head(q) \in ToSet(q)
<1> DEFINE h == Head(q)
           r == Tail(q)
           m == Len(q) - 1
<1>1. 1 \in DOMAIN q /\ h = q[1] /\ m \in Int
  OBVIOUS
<1>2. r \in Seq(D) /\ Len(r) = m /\ \A i \in 1 .. Len(r) : r[i] = q[i + 1]
  BY HeadTailProperties
<1>3. /\ Left(q, h) \in Seq(D) /\ Len(Left(q, h)) = m
      /\ \A i \in 1 .. m : Left(q, h)[i] = IF i < 1 THEN q[i] ELSE q[i + 1]
  <2> HIDE DEF h
  <2> QED BY <1>1, LeftIs
<1> HIDE DEF h, r, m
<1>4. \A i \in 1 .. m : ~(i < 1)
  BY <1>1
<1>5. \A i \in 1 .. m : Left(q, h)[i] = r[i]
  BY <1>2, <1>3, <1>4, Zenon
<1>6. Left(q, h) = r
  BY <1>2, <1>3, <1>5, SeqEqual
<1> QED BY <1>1, <1>2, <1>6 DEF ToSet, h, r

(* The first of one list becomes the last of another that is read before it. *)
LEMMA FirstToLast ==
  ASSUME NEW D, NEW a \in Seq(D), NEW q \in Seq(D), q # <<>>
  PROVE  Append(a, Head(q)) \o Tail(q) = a \o q
<1>1. Head(q) \in D /\ Tail(q) \in Seq(D) /\ <<Head(q)>> \in Seq(D)
  BY HeadTailProperties
<1>2. Append(a, Head(q)) = a \o <<Head(q)>>
  BY <1>1, AppendIsConcat
<1>3. (a \o <<Head(q)>>) \o Tail(q) = a \o (<<Head(q)>> \o Tail(q))
  BY <1>1, ConcatAssociative
<1>4. <<Head(q)>> \o Tail(q) = q
  <2> DEFINE r == <<Head(q)>> \o Tail(q)
  <2>1. Len(q) \in Nat \ {0} /\ Head(q) = q[1] /\ Len(<<Head(q)>>) = 1
    OBVIOUS
  <2>2. /\ r \in Seq(D) /\ Len(r) = 1 + Len(Tail(q))
        /\ \A i \in 1 .. 1 + Len(Tail(q)) :
             r[i] = IF i <= 1 THEN <<Head(q)>>[i] ELSE Tail(q)[i - 1]
    BY <1>1, <2>1, ConcatProperties
  <2>3. Len(Tail(q)) = Len(q) - 1 /\ \A i \in 1 .. Len(Tail(q)) : Tail(q)[i] = q[i + 1]
    BY HeadTailProperties
  <2> HIDE DEF r
  <2>4. ASSUME NEW i \in 1 .. Len(q) PROVE r[i] = q[i]
    <3>1. CASE i = 1
      BY <2>1, <2>2, <2>3, <3>1
    <3>2. CASE i # 1
      <4>1. i - 1 \in 1 .. Len(Tail(q)) /\ (i - 1) + 1 = i /\ ~(i <= 1)
        BY <2>1, <2>3, <3>2
      <4>2. r[i] = Tail(q)[i - 1]
        BY <2>1, <2>2, <2>3, <4>1
      <4> QED BY <2>3, <4>1, <4>2
    <3> QED BY <3>1, <3>2
  <2>5. Len(r) = Len(q)
    BY <2>1, <2>2, <2>3
  <2> QED BY <2>2, <2>4, <2>5, SeqEqual DEF r
<1> QED BY <1>2, <1>3, <1>4

(* Who leaves the first of two lists leaves both read as one. *)
LEMMA LeftConcat ==
  ASSUME NEW D, NEW a \in Seq(D), NEW b \in Seq(D), IsInjective(a), IsInjective(a \o b),
         NEW o \in ToSet(a)
  PROVE  Left(a \o b, o) = Left(a, o) \o b
<1>1. Len(a) \in Nat /\ Len(b) \in Nat
  OBVIOUS
<1>2. /\ a \o b \in Seq(D) /\ Len(a \o b) = Len(a) + Len(b)
      /\ \A i \in 1 .. Len(a) + Len(b) : (a \o b)[i] = IF i <= Len(a) THEN a[i] ELSE b[i - Len(a)]
  BY ConcatProperties
<1>3. PICK j \in DOMAIN a : a[j] = o
  BY DEF ToSet
<1>4. j \in 1 .. Len(a) /\ j \in DOMAIN (a \o b) /\ (a \o b)[j] = o
  BY <1>1, <1>2, <1>3
<1> DEFINE c == Left(a \o b, o)
           d == Left(a, o)
<1>5. /\ c \in Seq(D) /\ Len(c) = Len(a \o b) - 1
      /\ \A i \in 1 .. Len(a \o b) - 1 : c[i] = IF i < j THEN (a \o b)[i] ELSE (a \o b)[i + 1]
  BY <1>2, <1>4, LeftIs
<1>6. /\ d \in Seq(D) /\ Len(d) = Len(a) - 1
      /\ \A i \in 1 .. Len(a) - 1 : d[i] = IF i < j THEN a[i] ELSE a[i + 1]
  BY <1>3, LeftIs
<1> HIDE DEF c, d
<1>7. /\ d \o b \in Seq(D) /\ Len(d \o b) = Len(d) + Len(b)
      /\ \A i \in 1 .. Len(d) + Len(b) : (d \o b)[i] = IF i <= Len(d) THEN d[i] ELSE b[i - Len(d)]
  BY <1>6, ConcatProperties
<1>8. Len(c) = Len(d \o b) /\ Len(c) = Len(a) + Len(b) - 1
  BY <1>1, <1>2, <1>5, <1>6, <1>7
<1>9. ASSUME NEW i \in 1 .. Len(c) PROVE c[i] = (d \o b)[i]
  <2>1. /\ i \in 1 .. Len(a \o b) - 1 /\ i \in 1 .. Len(d) + Len(b)
        /\ i \in 1 .. Len(a) + Len(b) /\ i + 1 \in 1 .. Len(a) + Len(b)
    BY <1>1, <1>2, <1>7, <1>8
  <2>2. c[i] = IF i < j THEN (a \o b)[i] ELSE (a \o b)[i + 1]
    BY <1>5, <2>1
  <2>3. CASE i <= Len(a) - 1
    <3>1. i \in 1 .. Len(a) - 1 /\ i <= Len(a) /\ i + 1 <= Len(a) /\ i <= Len(d)
      BY <1>1, <1>6, <2>1, <2>3
    <3>2. (a \o b)[i] = a[i] /\ (a \o b)[i + 1] = a[i + 1]
      BY <1>2, <2>1, <3>1
    <3>3. (d \o b)[i] = d[i]
      BY <1>7, <2>1, <3>1
    <3> QED BY <1>6, <2>2, <3>1, <3>2, <3>3
  <2>4. CASE ~(i <= Len(a) - 1)
    <3>1. ~(i < j) /\ ~(i + 1 <= Len(a)) /\ ~(i <= Len(d)) /\ (i + 1) - Len(a) = i - Len(d)
      BY <1>1, <1>4, <1>6, <2>1, <2>4
    <3>2. (a \o b)[i + 1] = b[i - Len(d)]
      BY <1>2, <2>1, <3>1
    <3>3. (d \o b)[i] = b[i - Len(d)]
      BY <1>7, <2>1, <3>1
    <3> QED BY <2>2, <3>1, <3>2, <3>3
  <2> QED BY <2>3, <2>4
<1> QED BY <1>5, <1>7, <1>8, <1>9, SeqEqual DEF c, d

(* One turn of the loop that orphans the children of o: the first of them
   becomes the last child of its grandparent. *)
LEMMA AdoptedKids ==
  ASSUME NEW s, Sound(s), NEW o \in DOMAIN s, s[o].child # NOTHING
  PROVE  LET t == Adopted(s, o)
             g == s[o].parent
         IN /\ Sound(t) /\ DOMAIN t = DOMAIN s /\ t[o].parent = g
            /\ Kids(s)[o] # <<>> /\ Kids(t)[o] = Tail(Kids(s)[o])
            /\ g # NOTHING => Kids(t)[g] = Append(Kids(s)[g], Head(Kids(s)[o]))
            /\ \A x \in DOMAIN s \ {o, g} : Kids(t)[x] = Kids(s)[x]
<1> DEFINE k == Kids(s)
           g == s[o].parent
           c == s[o].child
           t == Adopted(s, o)
<1>1. /\ c \in DOMAIN s /\ s[c].parent = o /\ c # o
      /\ g \in OrNone(s) /\ g # o
      /\ c \notin Ancestors(s, g, "parent")
      /\ MayBeUnder(s, c, g)
  BY Adoptable
<1>2. t = db_change_parent(s, c, g)
  BY DEF Adopted
<1>3. /\ DOMAIN k = DOMAIN s
      /\ \A x \in DOMAIN s : /\ k[x] \in Seq(DOMAIN s) /\ IsInjective(k[x])
                             /\ ToSet(k[x]) = {y \in DOMAIN s : s[y].parent = x}
                             /\ s[x].child = Nth(k[x], 1)
  BY KidsAre
<1>4. k[o] \in Seq(DOMAIN s) /\ k[o] # <<>> /\ Head(k[o]) = c
  <2>1. k[o] \in Seq(DOMAIN s) /\ c = Nth(k[o], 1) /\ c # NOTHING
    BY <1>3
  <2>2. 1 \in DOMAIN k[o] /\ k[o][1] = c
    BY <2>1 DEF Nth
  <2> QED BY <2>1, <2>2
<1> HIDE DEF k, g, c, t
<1>5. /\ Sound(t) /\ DOMAIN t = DOMAIN s
      /\ \A x \in DOMAIN s : t[x].parent = IF x = c /\ MayBeUnder(s, c, g) THEN g ELSE s[x].parent
  BY <1>1, <1>2, ParentChanged
<1>6. t[o].parent = g
  BY <1>1, <1>5 DEF g
<1>7. Kids(t) = [x \in DOMAIN s |-> IF x = g THEN Append(Left(k[x], c), c) ELSE Left(k[x], c)]
  <2>1. Kids(t) = Forest!Moved(k, c, g)
    BY <1>1, <1>2, ParentLists DEF k
  <2>2. Forest!Moved(k, c, g) =
          [x \in DOMAIN k |-> IF x = g THEN Append(Left(k[x], c), c) ELSE Left(k[x], c)]
    BY ForestMoved
  <2> QED BY <1>3, <2>1, <2>2
<1>8. Left(k[o], c) = Tail(k[o])
  BY <1>3, <1>4, LeftHead
<1>9. \A x \in DOMAIN s \ {o} : Left(k[x], c) = k[x]
  <2>1. \A x \in DOMAIN s \ {o} : c \notin ToSet(k[x])
    BY <1>1, <1>3
  <2> QED BY <2>1, LeftNot
<1>10. Kids(t)[o] = Tail(k[o])
  BY <1>1, <1>7, <1>8
<1>11. g # NOTHING => Kids(t)[g] = Append(k[g], Head(k[o]))
  BY <1>1, <1>4, <1>7, <1>9 DEF OrNone
<1>12. \A x \in DOMAIN s \ {o, g} : Kids(t)[x] = k[x]
  BY <1>7, <1>9
<1> QED BY <1>4, <1>5, <1>6, <1>10, <1>11, <1>12 DEF k, g, t

(* At every turn what o has left, after what its parent has by then, is what
   they had, one after the other. *)
LEMMA OrphanedKids ==
  ASSUME NEW s, Sound(s), NEW o \in DOMAIN s
  PROVE  LET t == Orphaned(s, o)
             g == s[o].parent
         IN /\ t[o].parent = g
            /\ Kids(t)[o] = <<>>
            /\ g # NOTHING => Kids(t)[g] = Kids(s)[g] \o Kids(s)[o]
            /\ \A x \in DOMAIN s \ {o, g} : Kids(t)[x] = Kids(s)[x]
<1> DEFINE N == Cardinality(DOMAIN s)
           D == DOMAIN s
           h == s[o].parent
           Shared(t) == /\ Sound(t) /\ DOMAIN t = D /\ t[o].parent = h
                        /\ h # NOTHING => Kids(t)[h] \o Kids(t)[o] = Kids(s)[h] \o Kids(s)[o]
                        /\ \A x \in D \ {o, h} : Kids(t)[x] = Kids(s)[x]
<1>1. PICK g : /\ g[0] = s /\ \A i \in Nat : g[i + 1] = Adopted(g[i], o)
               /\ Orphaned(s, o) = g[N]
  BY AdoptionIs
<1>2. N \in Nat
  BY FS_CardinalityType DEF Sound, Shaped, FiniteTable
<1>3. h \in OrNone(s) /\ NOTHING \notin D
  BY DEF Sound, Shaped, FiniteTable, Inheritance, Hierarchy, Links, NOTHING
<1>4. Shared(s)
  OBVIOUS
<1> HIDE DEF h
<1>5. ASSUME NEW t, Shared(t) PROVE Shared(Adopted(t, o))
  <2>1. CASE t[o].child = NOTHING
    BY <1>5, <2>1 DEF Adopted
  <2>2. CASE t[o].child # NOTHING
    <3> DEFINE u == Adopted(t, o)
    <3>1. /\ Sound(u) /\ DOMAIN u = D /\ u[o].parent = h
          /\ Kids(t)[o] # <<>> /\ Kids(u)[o] = Tail(Kids(t)[o])
          /\ h # NOTHING => Kids(u)[h] = Append(Kids(t)[h], Head(Kids(t)[o]))
          /\ \A x \in D \ {o, h} : Kids(u)[x] = Kids(t)[x]
      BY <1>5, <2>2, AdoptedKids
    <3> HIDE DEF u
    <3>2. ASSUME h # NOTHING PROVE Kids(u)[h] \o Kids(u)[o] = Kids(t)[h] \o Kids(t)[o]
      <4>1. Kids(t)[h] \in Seq(D) /\ Kids(t)[o] \in Seq(D)
        BY <1>3, <1>5, <3>2, KidsAre DEF OrNone
      <4>2. Append(Kids(t)[h], Head(Kids(t)[o])) \o Tail(Kids(t)[o]) = Kids(t)[h] \o Kids(t)[o]
        BY <3>1, <4>1, FirstToLast
      <4> QED BY <3>1, <3>2, <4>2
    <3> QED BY <1>5, <3>1, <3>2 DEF u
  <2> QED BY <2>1, <2>2
<1> HIDE DEF Shared
<1>6. Shared(g[N])
  <2> DEFINE S == {i \in Nat : Shared(g[i])}
  <2>1. 0 \in S /\ \A i \in Nat : i \in S => i + 1 \in S
    BY <1>1, <1>4, <1>5
  <2> HIDE DEF S
  <2>2. N \in S
    BY <1>2, <2>1, Induct
  <2> QED BY <2>2 DEF S
<1> DEFINE t == Orphaned(s, o)
<1>7. Shared(t)
  BY <1>1, <1>6
<1>8. t[o].child = NOTHING
  BY OrphanedIs
<1> HIDE DEF t
<1>9. Kids(t)[o] = <<>>
  <2>1. Kids(t)[o] \in Seq(D) /\ Nth(Kids(t)[o], 1) = NOTHING
    BY <1>7, <1>8, KidsAre DEF Shared
  <2> QED BY <1>3, <2>1, NoFirst
<1>10. ASSUME h # NOTHING PROVE Kids(t)[h] = Kids(s)[h] \o Kids(s)[o]
  <2>1. Kids(t)[h] \in Seq(D)
    BY <1>3, <1>7, <1>10, KidsAre DEF Shared, OrNone
  <2>2. Kids(t)[h] \o <<>> = Kids(t)[h]
    BY <2>1, ConcatEmptySeq
  <2> QED BY <1>7, <1>9, <1>10, <2>2 DEF Shared
<1> QED BY <1>7, <1>9, <1>10 DEF Shared, h, t

(* What recycle() leaves of the lists when it destroys o. *)
LEMMA RecycledLists ==
  ASSUME NEW s, Sound(s), NEW o \in DOMAIN s,
         s[o].location = NOTHING, s[o].contents = NOTHING
  PROVE  LET k == Kids(s)
             u == Without(db_change_parent(Orphaned(s, o), o, NOTHING), o)
         IN /\ Kids(u) = [x \in DOMAIN s \ {o} |->
                            Left(k[x], o) \o (IF o \in ToSet(k[x]) THEN k[o] ELSE <<>>)]
            /\ Contents(u) = Dropped(Contents(s), o)
            /\ Contents(s)[o] = <<>>
            /\ \A x \in DOMAIN s : o \notin ToSet(Contents(s)[x])
<1> DEFINE D == DOMAIN s
           k == Kids(s)
           g == s[o].parent
           r == Orphaned(s, o)
           t == db_change_parent(r, o, NOTHING)
           u == Without(t, o)
<1>1. /\ Sound(r) /\ DOMAIN r = D /\ r[o].child = NOTHING
      /\ \A x \in D : \A f \in {"location", "contents", "next", "user", "propdefs"} : r[x][f] = s[x][f]
  BY OrphanedIs
<1>2. /\ g # NOTHING => Kids(r)[g] = k[g] \o k[o]
      /\ \A x \in D \ {o, g} : Kids(r)[x] = k[x]
  BY OrphanedKids
<1>3. /\ t[o].location = NOTHING /\ t[o].contents = NOTHING
      /\ t[o].parent = NOTHING /\ t[o].child = NOTHING
      /\ DOMAIN t = D
  BY Destroyed
<1>4. NOTHING \notin D /\ g \in OrNone(s) /\ g # o
  <2>1. FiniteTable(s) /\ Links(s, "parent") /\ Acyclic(s, "parent")
    BY DEF Sound, Shaped, Inheritance, Hierarchy
  <2>2. o \notin Ancestors(s, s[o]["parent"], "parent")
    BY <2>1, NotUnderItself
  <2>3. g \in OrNone(s) /\ NOTHING \notin D
    BY <2>1 DEF Links, FiniteTable, NOTHING
  <2>4. g # NOTHING => g \in Ancestors(s, g, "parent")
    BY <2>1, <2>3, AncestorsAre
  <2> QED BY <2>2, <2>3, <2>4
<1> HIDE DEF r
<1>5. /\ Sound(t)
      /\ Contents(t) = Contents(r) /\ Kids(t) = Forest!Moved(Kids(r), o, NOTHING)
  <2>1. FiniteTable(r) /\ Links(r, "parent") /\ NOTHING \in OrNone(r)
    BY <1>1 DEF Sound, Shaped, Inheritance, Hierarchy, OrNone
  <2>2. Ancestors(r, NOTHING, "parent") = {}
    BY <2>1, AncestorsAre
  <2>3. MayBeUnder(r, o, NOTHING)
    BY <2>2 DEF MayBeUnder, DefinedAtOrAbove
  <2>4. o \notin Ancestors(r, NOTHING, "parent") /\ o \in DOMAIN r
    BY <1>1, <2>2
  <2> QED BY <1>1, <2>1, <2>3, <2>4, ParentChanged, ParentLists
<1> HIDE DEF t
<1>6. Kids(t) = [x \in D |-> Left(Kids(r)[x], o)]
  <2>1. DOMAIN Kids(r) = D
    BY <1>1, KidsAre
  <2>2. Forest!Moved(Kids(r), o, NOTHING) =
          [x \in DOMAIN Kids(r) |-> IF x = NOTHING THEN Append(Left(Kids(r)[x], o), o)
                                    ELSE Left(Kids(r)[x], o)]
    BY ForestMoved
  <2> QED BY <1>4, <1>5, <2>1, <2>2
<1>7. Kids(u) = Dropped(Kids(t), o)
  <2>1. Hierarchy(t, "parent", "child", "sibling") /\ Shaped(t) /\ o \in DOMAIN t
    BY <1>3, <1>5 DEF Sound, Inheritance
  <2>2. t[o]["parent"] = NOTHING /\ t[o]["child"] = NOTHING
    BY <1>3
  <2>3. Lists(u, "child", "sibling") = Dropped(Lists(t, "child", "sibling"), o)
    BY <2>1, <2>2, ListsWithout
  <2> QED BY <2>3 DEF Kids
<1>8. Contents(u) = Dropped(Contents(s), o)
  <2>1. Hierarchy(t, "location", "contents", "next") /\ Shaped(t) /\ o \in DOMAIN t
    BY <1>3, <1>5 DEF Sound, Whereabouts
  <2>2. t[o]["location"] = NOTHING /\ t[o]["contents"] = NOTHING
    BY <1>3
  <2>3. Lists(u, "contents", "next") = Dropped(Lists(t, "contents", "next"), o)
    BY <2>1, <2>2, ListsWithout
  <2>4. Contents(r) = Contents(s)
    BY <1>1, ContentsSame
  <2> QED BY <1>5, <2>3, <2>4 DEF Contents
<1>9. \A x \in D : /\ k[x] \in Seq(D) /\ IsInjective(k[x])
                   /\ ToSet(k[x]) = {y \in D : s[y].parent = x}
                   /\ Kids(r)[x] \in Seq(D) /\ IsInjective(Kids(r)[x])
  BY <1>1, KidsAre
<1> HIDE DEF k, u
<1>10. ASSUME NEW x \in D \ {o}
       PROVE  Left(Kids(r)[x], o) = Left(k[x], o) \o (IF o \in ToSet(k[x]) THEN k[o] ELSE <<>>)
  <2>1. CASE x = g
    <3>1. o \in ToSet(k[x])
      BY <1>9, <2>1
    <3>2. Kids(r)[x] = k[x] \o k[o]
      BY <1>2, <1>4, <2>1
    <3>3. /\ k[x] \in Seq(D) /\ k[o] \in Seq(D)
          /\ IsInjective(k[x]) /\ IsInjective(k[x] \o k[o])
      BY <1>9, <3>2
    <3> HIDE DEF D, g
    <3>4. Left(k[x] \o k[o], o) = Left(k[x], o) \o k[o]
      BY <3>1, <3>3, LeftConcat
    <3> QED BY <3>1, <3>2, <3>4
  <2>2. CASE x # g
    <3>1. o \notin ToSet(k[x]) /\ Kids(r)[x] = k[x]
      BY <1>2, <1>9, <2>2
    <3>2. Left(k[x], o) = k[x] /\ k[x] \o <<>> = k[x]
      BY <1>9, <3>1, LeftNot, ConcatEmptySeq
    <3> QED BY <3>1, <3>2
  <2> QED BY <2>1, <2>2
<1>11. Kids(u) = [x \in D \ {o} |->
                    Left(k[x], o) \o (IF o \in ToSet(k[x]) THEN k[o] ELSE <<>>)]
  BY <1>6, <1>7, <1>10 DEF Dropped
<1>12. Contents(s)[o] = <<>> /\ \A x \in D : o \notin ToSet(Contents(s)[x])
  <2>1. \A x \in D : /\ Contents(s)[x] \in Seq(D)
                     /\ ToSet(Contents(s)[x]) = {y \in D : s[y].location = x}
                     /\ s[x].contents = Nth(Contents(s)[x], 1)
    BY ContentsAre
  <2>2. Contents(s)[o] = <<>>
    BY <1>4, <2>1, NoFirst
  <2> QED BY <1>4, <2>1, <2>2
<1> QED BY <1>8, <1>11, <1>12 DEF k, u, t, r

(* Under other numbers the lists are the same. *)
LEMMA ListsRenamed ==
  ASSUME NEW s, Shaped(s), NEW u, Shaped(u), NEW up, NEW l, NEW n, Hierarchy(s, up, l, n),
         NEW R, Renames(R, s, u, {up, l, n}), NEW w \in DOMAIN s
  PROVE  LET q == Listed(s, w, l, n)
         IN Listed(u, R[w], l, n) = [i \in DOMAIN q |-> R[q[i]]]
<1> DEFINE q == Listed(s, w, l, n)
           r == [i \in DOMAIN q |-> R[q[i]]]
<1>1. FiniteTable(s) /\ Threaded(s, Place(s, up), l, n)
  BY DEF Shaped, Hierarchy
<1>2. FiniteTable(u) /\ Threaded(u, Place(u, up), l, n)
  BY HierarchyRenamed DEF Shaped, Hierarchy
<1>3. Chained(s, w, l, n, q)
  BY <1>1, ListedChained
<1> HIDE DEF q
<1>4. /\ R[NOTHING] = NOTHING
      /\ \A x \in DOMAIN s : R[x] \in DOMAIN u /\ u[R[x]][l] = R[s[x][l]] /\ u[R[x]][n] = R[s[x][n]]
  BY DEF Renames
<1>5. /\ q \in Seq(DOMAIN s) /\ DOMAIN q = 1 .. Len(q) /\ Len(q) \in Nat
      /\ \A i \in DOMAIN q : q[i] \in DOMAIN s
  BY <1>3, ElementOfSeq DEF Chained
<1>6. /\ r \in Seq(DOMAIN u) /\ DOMAIN r = DOMAIN q
      /\ \A i \in DOMAIN q : r[i] = R[q[i]]
  <2>1. r \in [1 .. Len(q) -> DOMAIN u]
    BY <1>4, <1>5
  <2> QED BY <1>5, <2>1, IsASeq
<1> HIDE DEF r
<1>7. \A i : R[Nth(q, i)] = Nth(r, i)
  BY <1>4, <1>6 DEF Nth
<1>8. Chained(u, R[w], l, n, r)
  <2>1. u[R[w]][l] = Nth(r, 1)
    BY <1>3, <1>4, <1>7 DEF Chained
  <2>2. \A i \in DOMAIN r : u[r[i]][n] = Nth(r, i + 1)
    BY <1>3, <1>4, <1>5, <1>6, <1>7 DEF Chained
  <2> QED BY <1>6, <2>1, <2>2 DEF Chained
<1>9. R[w] \in DOMAIN u
  BY <1>4
<1>10. Listed(u, R[w], l, n) = r
  BY <1>2, <1>8, <1>9, ChainedListed
<1> QED BY <1>10 DEF q, r

LEMMA ListsRenumbered ==
  ASSUME NEW s, Shaped(s), NEW u, Shaped(u), NEW up, NEW l, NEW n, Hierarchy(s, up, l, n),
         NEW old \in DOMAIN s, NEW newbie \in Nat, newbie \notin DOMAIN s,
         DOMAIN u = (DOMAIN s \ {old}) \cup {newbie},
         Renames(Renumbering(s, old, newbie), s, u, {up, l, n})
  PROVE  Lists(u, l, n) = Forest!Renamed(Lists(s, l, n), old, newbie)
<1> DEFINE R == Renumbering(s, old, newbie)
           h == Lists(s, l, n)
           E == (DOMAIN s \ {old}) \cup {newbie}
           new(x) == IF x = old THEN newbie ELSE x
           first(x) == IF x = newbie THEN old ELSE x
           renamed(q) == [i \in DOMAIN q |-> new(q[i])]
<1>1. \A x \in DOMAIN s : R[x] = new(x)
  BY DEF Renumbering, Renumbered, OrNone
<1>2. \A x \in DOMAIN s : /\ h[x] = Listed(s, x, l, n)
                          /\ \A i \in DOMAIN h[x] : h[x][i] \in DOMAIN s
  <2>1. FiniteTable(s) /\ Threaded(s, Place(s, up), l, n)
    BY DEF Shaped, Hierarchy
  <2>2. \A x \in DOMAIN s : Listed(s, x, l, n) \in Seq(DOMAIN s)
    BY <2>1, ListedChained DEF Chained
  <2> QED BY <2>2, ElementOfSeq DEF Lists
<1>3. DOMAIN h = DOMAIN s
  BY DEF Lists
<1>4. ASSUME NEW x \in DOMAIN s
      PROVE  Listed(u, R[x], l, n) = [i \in DOMAIN h[x] |-> R[h[x][i]]]
  <2>1. Renames(R, s, u, {up, l, n})
    OBVIOUS
  <2> HIDE DEF R, h
  <2>2. LET q == Listed(s, x, l, n)
        IN Listed(u, R[x], l, n) = [i \in DOMAIN q |-> R[q[i]]]
    BY <2>1, ListsRenamed
  <2>3. h[x] = Listed(s, x, l, n)
    BY <1>2
  <2> QED BY <2>2, <2>3
<1> HIDE DEF R, h
<1>5. ASSUME NEW y \in E PROVE Listed(u, y, l, n) = renamed(h[first(y)])
  <2> DEFINE x == first(y)
  <2>1. x \in DOMAIN s /\ new(x) = y
    OBVIOUS
  <2> HIDE DEF x
  <2>2. Listed(u, y, l, n) = [i \in DOMAIN h[x] |-> R[h[x][i]]]
    BY <1>1, <1>4, <2>1
  <2>3. \A i \in DOMAIN h[x] : R[h[x][i]] = new(h[x][i])
    BY <1>1, <1>2, <2>1
  <2> QED BY <2>2, <2>3 DEF x
<1>6. {new(y) : y \in DOMAIN h} = E
  <2>1. \A y \in DOMAIN s : new(y) \in E
    OBVIOUS
  <2>2. \A x \in E : first(x) \in DOMAIN s /\ x = new(first(x))
    OBVIOUS
  <2> HIDE DEF E
  <2> QED BY <1>3, <2>1, <2>2
<1>7. Forest!Renamed(h, old, newbie) = [x \in {new(y) : y \in DOMAIN h} |-> renamed(h[first(x)])]
  BY DEF Forest!Renamed
<1>8. Lists(u, l, n) = [x \in E |-> renamed(h[first(x)])]
  BY <1>5 DEF Lists
<1> QED BY <1>6, <1>7, <1>8 DEF h

(* What each operation of Forests asks of the table. *)
LEMMA ForestState ==
  /\ Forest!vars = <<Kids(objects), Contents(objects)>>
  /\ Forest!Alive = DOMAIN objects
BY DEF Forest!vars, Forest!Alive, Kids, Contents, Lists

LEMMA ForestPut ==
  ASSUME Kids(objects') = Kids(objects),
         Forest!Rehung(Contents(objects), Contents(objects'))
  PROVE  Forest!Put
BY DEF Forest!Put, Kids, Contents, Lists

LEMMA ForestPutUnder ==
  ASSUME Contents(objects') = Contents(objects),
         Forest!Rehung(Kids(objects), Kids(objects'))
  PROVE  Forest!PutUnder
BY DEF Forest!PutUnder, Kids, Contents, Lists

LEMMA ForestCreate ==
  ASSUME NEW o, NEW p, o \notin DOMAIN objects,
         Kids(objects') = Forest!Moved(Newly(Kids(objects), o), o, p),
         Contents(objects') = Newly(Contents(objects), o)
  PROVE  Forest!Create(o, p)
<1>1. DOMAIN Kids(objects) = DOMAIN objects /\ DOMAIN Contents(objects) = DOMAIN objects
  BY DEF Kids, Contents, Lists
<1> QED BY <1>1 DEF Forest!Create, Forest!Alive, Newly, Kids, Contents, Lists

LEMMA ForestRenumber ==
  ASSUME NEW o, NEW n, n \notin DOMAIN objects,
         Kids(objects') = Forest!Renamed(Kids(objects), o, n),
         Contents(objects') = Forest!Renamed(Contents(objects), o, n)
  PROVE  Forest!Renumber(o, n)
BY DEF Forest!Renumber, Forest!Alive, Kids, Contents, Lists

LEMMA ForestRecycle ==
  ASSUME NEW o \in DOMAIN objects,
         Kids(objects') = [x \in DOMAIN objects \ {o} |->
                             Left(Kids(objects)[x], o) \o
                               (IF o \in ToSet(Kids(objects)[x]) THEN Kids(objects)[o] ELSE <<>>)],
         Contents(objects') = Dropped(Contents(objects), o),
         Contents(objects)[o] = <<>>,
         \A x \in DOMAIN objects : o \notin ToSet(Contents(objects)[x])
  PROVE  Forest!Recycle(o)
<1> DEFINE k == Kids(objects)
           c == Contents(objects)
<1>1. DOMAIN k = DOMAIN objects /\ DOMAIN c = DOMAIN objects
  BY DEF Kids, Contents, Lists
<1>2. \A h, x : Forest!Below(h, x) = ToSet(h[x])
  BY DEF Forest!Below, ToSet, Forest!ToSet
<1>3. Forest!Detached(k, o) = [x \in DOMAIN objects |-> Left(k[x], o)]
  BY <1>1 DEF Forest!Detached, Forest!Below, Left, ToSet, RemoveAt, Forest!ToSet, Forest!RemoveAt
<1>4. /\ k = [x \in DOMAIN objects |-> Listed(objects, x, "child", "sibling")]
      /\ c = [x \in DOMAIN objects |-> Listed(objects, x, "contents", "next")]
      /\ Kids(objects') = [x \in DOMAIN objects' |-> Listed(objects', x, "child", "sibling")]
      /\ Contents(objects') = [x \in DOMAIN objects' |-> Listed(objects', x, "contents", "next")]
  BY DEF Kids, Contents, Lists
<1> HIDE DEF k, c
<1>5. Kids(objects') = [x \in DOMAIN objects \ {o} |->
                          Forest!Detached(k, o)[x] \o
                            (IF o \in Forest!Below(k, x) THEN k[o] ELSE <<>>)]
  BY <1>2, <1>3 DEF k
<1>6. Contents(objects') = [x \in DOMAIN objects \ {o} |-> c[x]] /\ c[o] = <<>>
  BY <1>1 DEF Dropped, c
<1>7. \A x \in DOMAIN objects : o \notin Forest!Below(c, x)
  BY <1>2 DEF c
<1> QED BY <1>1, <1>4, <1>5, <1>6, <1>7 DEF Forest!Recycle, Forest!Alive

(* What the steps of the database show of the forests.  Forests has the object *)
(* numbers of Objects, which none of its steps leaves.                         *)
Shows == Forest!Next \/ UNCHANGED <<Kids(objects), Contents(objects)>>

Numbered == DatabaseSound /\ DOMAIN objects \subseteq Objids

LEMMA Unseen ==
  ASSUME Numbered, DOMAIN objects' = DOMAIN objects,
         \A x \in DOMAIN objects : \A f \in {"child", "sibling", "contents", "next"} :
           objects'[x][f] = objects[x][f]
  PROVE  Shows
<1>1. Kids(objects') = Kids(objects) /\ Contents(objects') = Contents(objects)
  BY KidsSame, ContentsSame DEF Numbered, DatabaseSound
<1> QED BY <1>1 DEF Shows, Kids, Contents

(* A table that move() may leave: the object is where it was, or has moved. *)
MayMove(s, t) ==
  \/ t = s
  \/ \E w \in DOMAIN s, h \in OrNone(s) :
       w \notin Ancestors(s, h, "location") /\ t = db_change_location(s, w, h)

LEMMA MovedShows ==
  ASSUME Numbered, MayMove(objects, objects')
  PROVE  Shows
<1>1. Sound(objects)
  BY DEF Numbered, DatabaseSound
<1>2. CASE objects' = objects
  BY <1>2, Unseen
<1>3. ASSUME NEW w \in DOMAIN objects, NEW h \in OrNone(objects),
             w \notin Ancestors(objects, h, "location"),
             objects' = db_change_location(objects, w, h)
      PROVE  Shows
  <2>1. /\ Kids(objects') = Kids(objects)
        /\ Forest!Rehung(Contents(objects), Contents(objects'))
    BY <1>1, <1>3, LocationLists
  <2> QED BY <2>1, ForestPut DEF Shows, Forest!Next
<1> QED BY <1>2, <1>3 DEF MayMove

LEMMA EnterKeeps ==
  ASSUME NEW t, NEW w, NEW h, NEW out \in Enter(t, w, h)
  PROVE  out.s = t
<1>1. out = Over(t) \/ out = Waits(t, w, h, 4)
  BY DEF Enter
<1> QED BY <1>1 DEF Over, Waits

LEMMA AcceptsMoves ==
  ASSUME NEW s, NEW w, NEW h, NEW a, NEW wizard, NEW out \in AcceptsDecided(s, w, h, a, wizard)
  PROVE  MayMove(s, out.s)
<1> DEFINE old == s[w].location
           t == db_change_location(s, w, h)
           stop == \/ ~wizard /\ ~a
                   \/ ~Valid(s, w)
                   \/ h # NOTHING /\ ~Valid(s, h)
                   \/ old = h
                   \/ w \in Ancestors(s, h, "location")
<1>1. CASE stop
  <2>1. out = Over(s)
    BY <1>1 DEF AcceptsDecided
  <2> QED BY <2>1 DEF MayMove, Over
<1>2. CASE ~stop
  <2>1. w \in DOMAIN s /\ h \in OrNone(s) /\ w \notin Ancestors(s, h, "location")
    BY <1>2 DEF Valid, OrNone
  <2>2. MayMove(s, t)
    BY <2>1 DEF MayMove
  <2>3. PICK e \in call_verb(s, old) :
          out \in CASE e = "E_NONE"   -> {Waits(t, w, h, 3)}
                    [] e = "E_MAXREC" -> {Over(t)}
                    [] OTHER          -> Enter(t, w, h)
    BY <1>2 DEF AcceptsDecided
  <2> HIDE DEF t
  <2>4. out = Waits(t, w, h, 3) \/ out = Over(t) \/ out \in Enter(t, w, h)
    BY <2>3
  <2>5. out.s = t
    BY <2>4, EnterKeeps DEF Waits, Over
  <2> QED BY <2>2, <2>5
<1> QED BY <1>1, <1>2

LEMMA MoveShows ==
  ASSUME Numbered, NEW k, NEW w, NEW h, Move(k, w, h)
  PROVE  Shows
<1>1. CASE h = NOTHING
  <2>1. PICK out \in AcceptsDecided(objects, w, h, TRUE, FALSE) : Leaves(k, out)
    BY <1>1 DEF Move
  <2>2. MayMove(objects, out.s) /\ objects' = out.s
    BY <2>1, AcceptsMoves DEF Leaves
  <2> QED BY <2>2, MovedShows
<1>2. CASE h # NOTHING
  <2>1. PICK e \in call_verb(objects, h) :
          CASE e = "E_NONE"   -> Leaves(k, Waits(objects, w, h, 2))
            [] e = "E_VERBNF" ->
                 \E wizard \in BOOLEAN :
                   \E o \in AcceptsDecided(objects, w, h, FALSE, wizard) : Leaves(k, o)
            [] OTHER          -> Leaves(k, Over(objects))
    BY <1>2 DEF Move
  <2>2. CASE e = "E_VERBNF"
    <3>1. PICK wizard \in BOOLEAN :
            \E o \in AcceptsDecided(objects, w, h, FALSE, wizard) : Leaves(k, o)
      BY <2>1, <2>2
    <3>2. PICK out \in AcceptsDecided(objects, w, h, FALSE, wizard) : Leaves(k, out)
      BY <3>1
    <3>3. MayMove(objects, out.s) /\ objects' = out.s
      BY <3>2, AcceptsMoves DEF Leaves
    <3> QED BY <3>3, MovedShows
  <2>3. CASE e # "E_VERBNF"
    <3>1. Leaves(k, Waits(objects, w, h, 2)) \/ Leaves(k, Over(objects))
      BY <2>1, <2>3
    <3>2. objects' = objects
      BY <3>1 DEF Leaves, Waits, Over
    <3> QED BY <3>2, MovedShows DEF MayMove
  <2> QED BY <2>2, <2>3
<1> QED BY <1>1, <1>2

LEMMA MoveReturnsShows ==
  ASSUME Numbered, NEW k \in Slots, NEW unwinding \in BOOLEAN, MoveReturns(k, unwinding)
  PROVE  Shows
<1> DEFINE f == frames[k]
           decided(a) == AcceptsDecided(objects, f.what, f.where, a, TRUE)
                           \cup AcceptsDecided(objects, f.what, f.where, a, FALSE)
           accepted == UNION {decided(a) : a \in IF unwinding THEN {FALSE} ELSE BOOLEAN}
           outcomes ==
             CASE f.pc = 2 -> accepted
               [] f.pc = 3 -> Enter(objects, f.what, f.where)
               [] f.pc = 4 -> {Over(objects)}
<1>1. f.pc \in {2, 3, 4}
  BY DEF Numbered, DatabaseSound, FramesWait, MoveReturns
<1>2. PICK o \in outcomes : Leaves(k, IF unwinding THEN Over(o.s) ELSE o)
  BY DEF MoveReturns
<1>3. MayMove(objects, o.s)
  <2>1. CASE f.pc = 2
    <3>1. o \in accepted
      <4> HIDE DEF accepted
      <4> QED BY <1>2, <2>1
    <3>2. PICK a \in BOOLEAN : o \in decided(a)
      <4> HIDE DEF decided
      <4> QED BY <3>1
    <3> QED BY <3>2, AcceptsMoves
  <2>2. CASE f.pc = 3
    <3>1. o \in Enter(objects, f.what, f.where)
      BY <1>2, <2>2
    <3> QED BY <3>1, EnterKeeps DEF MayMove
  <2>3. CASE f.pc = 4
    <3>1. o = Over(objects)
      BY <1>2, <2>3
    <3> QED BY <3>1 DEF Over, MayMove
  <2> QED BY <1>1, <2>1, <2>2, <2>3
<1>4. objects' = o.s
  BY <1>2 DEF Leaves, Over
<1> QED BY <1>3, <1>4, MovedShows

LEMMA CreateShows ==
  ASSUME Numbered, NEW k, NEW p \in OrNone(objects), Create(k, p)
  PROVE  Shows
<1> DEFINE oid == num_objects
<1>1. Sound(objects) /\ oid \in Nat /\ oid \notin DOMAIN objects
  BY DEF Numbered, DatabaseSound, NumbersBelow
<1>2. oid \in Objids /\ objects' = db_change_parent(Extended(objects, oid), oid, p)
  BY DEF Create, Extended
<1>3. /\ Kids(objects') = Forest!Moved(Newly(Kids(objects), oid), oid, p)
      /\ Contents(objects') = Newly(Contents(objects), oid)
  BY <1>1, <1>2, CreatedLists
<1>4. Forest!Create(oid, p)
  BY <1>1, <1>3, ForestCreate
<1>5. p \in Forest!Alive \cup {NOTHING}
  BY ForestState DEF OrNone
<1> QED BY <1>2, <1>4, <1>5 DEF Shows, Forest!Next

LEMMA RecycleTurnShows ==
  ASSUME Numbered, RecycleTurn
  PROVE  Shows
<1> DEFINE k == running.slot
           o == frames[k].what
<1>0. /\ Sound(objects) /\ FiniteTable(objects) /\ Links(objects, "location")
      /\ Links(objects, "contents") /\ NOTHING \in OrNone(objects)
  BY DEF Numbered, DatabaseSound, Sound, Shaped, Whereabouts, Hierarchy, Threaded, OrNone
<1>1. CASE UNCHANGED objects
  BY <1>1, Unseen
<1>2. ASSUME NEW x \in DOMAIN objects, move_to_nothing(x) PROVE Shows
  <2>1. Ancestors(objects, NOTHING, "location") = {}
    BY <1>0, AncestorsAre
  <2>2. MayMove(objects, objects')
    BY <1>0, <1>2, <2>1 DEF move_to_nothing, MayMove
  <2> QED BY <2>2, MovedShows
<1>3. CASE /\ Valid(objects, o) /\ objects[o].contents # NOTHING
           /\ move_to_nothing(objects[o].contents)
  <2>1. objects[o].contents \in DOMAIN objects
    BY <1>0, <1>3 DEF Valid, Links, OrNone
  <2> QED BY <1>2, <1>3, <2>1
<1>4. CASE Valid(objects, o) /\ move_to_nothing(o)
  BY <1>2, <1>4 DEF Valid
<1>5. CASE /\ Valid(objects, o) /\ objects[o].contents = NOTHING
           /\ objects[o].location = NOTHING
           /\ db_destroy_object(k, o)
  <2>1. \/ UNCHANGED objects
        \/ objects' = Without(db_change_parent(Orphaned(objects, o), o, NOTHING), o)
    BY <1>5 DEF db_destroy_object
  <2> HIDE DEF k, o
  <2>2. ASSUME objects' = Without(db_change_parent(Orphaned(objects, o), o, NOTHING), o)
        PROVE  Shows
    <3>1. /\ Kids(objects') = [x \in DOMAIN objects \ {o} |->
                Left(Kids(objects)[x], o) \o
                  (IF o \in ToSet(Kids(objects)[x]) THEN Kids(objects)[o] ELSE <<>>)]
          /\ Contents(objects') = Dropped(Contents(objects), o)
          /\ Contents(objects)[o] = <<>>
          /\ \A x \in DOMAIN objects : o \notin ToSet(Contents(objects)[x])
      BY <1>0, <1>5, <2>2, RecycledLists, ZenonT(60) DEF Valid
    <3>2. o \in DOMAIN objects
      BY <1>5 DEF Valid
    <3>3. Forest!Recycle(o)
      BY <3>1, <3>2, ForestRecycle
    <3> QED BY <3>2, <3>3, ForestState DEF Shows, Forest!Next
  <2> QED BY <1>1, <2>1, <2>2
<1> HIDE DEF k, o
<1> QED BY <1>1, <1>3, <1>4, <1>5 DEF RecycleTurn, k, o

LEMMA ChparentShows ==
  ASSUME Numbered, NEW o \in DOMAIN objects, NEW p \in OrNone(objects), Chparent(o, p)
  PROVE  Shows
<1>1. /\ Sound(objects) /\ o \notin Ancestors(objects, p, "parent")
      /\ objects' = db_change_parent(objects, o, p)
  BY DEF Numbered, DatabaseSound, Chparent
<1>2. CASE ~MayBeUnder(objects, o, p)
  <2>1. objects' = objects
    BY <1>1, <1>2 DEF db_change_parent
  <2> QED BY <2>1, Unseen
<1>3. CASE MayBeUnder(objects, o, p)
  <2>1. /\ Contents(objects') = Contents(objects)
        /\ Forest!Rehung(Kids(objects), Kids(objects'))
    BY <1>1, <1>3, ParentLists
  <2> QED BY <2>1, ForestPutUnder DEF Shows, Forest!Next
<1> QED BY <1>2, <1>3

LEMMA RenumberShows ==
  ASSUME Numbered, NEW old \in DOMAIN objects, Renumber(old)
  PROVE  Shows
<1>1. /\ Sound(objects) /\ DatabaseSound /\ DOMAIN objects \subseteq Objids
  BY DEF Numbered, DatabaseSound
<1>2. PICK newbie \in 0 .. old - 1 :
        /\ newbie \notin DOMAIN objects
        /\ Sound(objects') /\ DOMAIN objects' = (DOMAIN objects \ {old}) \cup {newbie}
        /\ Renames(Renumbering(objects, old, newbie), objects, objects', LinkFields)
  BY <1>1, RenumberIs
<1>3. newbie \in Nat /\ newbie \in Objids
  BY <1>1, <1>2, ConstantsAssumption DEF Objids
<1>4. PICK R : R = Renumbering(objects, old, newbie) /\ Renames(R, objects, objects', LinkFields)
  BY <1>2
<1>5. Kids(objects') = Forest!Renamed(Kids(objects), old, newbie)
  <2>1. Hierarchy(objects, "parent", "child", "sibling") /\ Shaped(objects) /\ Shaped(objects')
    BY <1>1, <1>2 DEF Sound, Inheritance
  <2>2. Renames(R, objects, objects', {"parent", "child", "sibling"})
    BY <1>4 DEF LinkFields, Renames
  <2>3. Lists(objects', "child", "sibling") =
          Forest!Renamed(Lists(objects, "child", "sibling"), old, newbie)
    BY <1>2, <1>3, <1>4, <2>1, <2>2, ListsRenumbered
  <2> QED BY <2>3 DEF Kids
<1>6. Contents(objects') = Forest!Renamed(Contents(objects), old, newbie)
  <2>1. Hierarchy(objects, "location", "contents", "next") /\ Shaped(objects) /\ Shaped(objects')
    BY <1>1, <1>2 DEF Sound, Whereabouts
  <2>2. Renames(R, objects, objects', {"location", "contents", "next"})
    BY <1>4 DEF LinkFields, Renames
  <2>3. Lists(objects', "contents", "next") =
          Forest!Renamed(Lists(objects, "contents", "next"), old, newbie)
    BY <1>2, <1>3, <1>4, <2>1, <2>2, ListsRenumbered
  <2> QED BY <2>3 DEF Contents
<1>7. Forest!Renumber(old, newbie)
  BY <1>2, <1>5, <1>6, ForestRenumber
<1> QED BY <1>3, <1>7, ForestState DEF Shows, Forest!Next

(* The objects of the forests keep to the numbers there are. *)
LEMMA ForestNumbers ==
  ASSUME DOMAIN objects \subseteq Objids, Shows
  PROVE  DOMAIN objects' \subseteq Objids
<1>1. /\ DOMAIN Kids(objects) = DOMAIN objects /\ DOMAIN Kids(objects)' = DOMAIN objects'
      /\ Forest!Alive = DOMAIN objects
  BY DEF Kids, Lists, Forest!Alive
<1>2. CASE UNCHANGED Kids(objects)
  BY <1>1, <1>2
<1>3. ASSUME NEW o \in Objids, NEW p, Forest!Create(o, p) PROVE DOMAIN objects' \subseteq Objids
  <2>1. Kids(objects)' = Forest!Moved(Newly(Kids(objects), o), o, p)
    BY <1>1, <1>3 DEF Forest!Create, Forest!Alive, Newly, Kids, Lists
  <2>2. DOMAIN Kids(objects)' = DOMAIN objects \cup {o}
    BY <1>1, <2>1, ForestMoved DEF Newly
  <2> QED BY <1>1, <2>2
<1>4. ASSUME Forest!PutUnder PROVE DOMAIN objects' \subseteq Objids
  <2>1. \E o, p : Kids(objects)' = Forest!Moved(Kids(objects), o, p)
    BY <1>4 DEF Forest!PutUnder, Forest!Rehung, Kids, Lists
  <2>2. DOMAIN Kids(objects)' = DOMAIN objects
    BY <1>1, <2>1, ForestMoved
  <2> QED BY <1>1, <2>2
<1>5. ASSUME Forest!Put PROVE DOMAIN objects' \subseteq Objids
  <2>1. Kids(objects)' = Kids(objects)
    BY <1>5 DEF Forest!Put, Kids, Lists
  <2> QED BY <1>2, <2>1
<1>6. ASSUME NEW o, Forest!Recycle(o) PROVE DOMAIN objects' \subseteq Objids
  <2>1. DOMAIN Kids(objects)' = DOMAIN objects \ {o}
    BY <1>1, <1>6 DEF Forest!Recycle, Kids, Lists
  <2> QED BY <1>1, <2>1
<1>7. ASSUME NEW o, NEW n \in Objids, Forest!Renumber(o, n) PROVE DOMAIN objects' \subseteq Objids
  <2>1. Kids(objects)' = Forest!Renamed(Kids(objects), o, n)
    BY <1>7 DEF Forest!Renumber, Kids, Lists
  <2>2. \A h : DOMAIN Forest!Renamed(h, o, n) = {IF y = o THEN n ELSE y : y \in DOMAIN h}
    BY DEF Forest!Renamed
  <2>3. DOMAIN Kids(objects)' = {IF y = o THEN n ELSE y : y \in DOMAIN objects}
    BY <1>1, <2>1, <2>2
  <2> QED BY <1>1, <2>3
<1> QED BY <1>2, <1>3, <1>4, <1>5, <1>6, <1>7 DEF Shows, Forest!Next

LEMMA StepShows == Numbered /\ [Next]_vars => Shows /\ Numbered'
<1> SUFFICES ASSUME Numbered, [Next]_vars PROVE Shows
  BY StepSound, ForestNumbers DEF Numbered
<1> DEFINE Places == DOMAIN objects \cup {NOTHING}
<1>0. Places = OrNone(objects)
  BY DEF OrNone
<1>1. ASSUME NEW k \in Slots, NEW p \in Places \cap Parents, Create(k, p)
      PROVE  Shows
  BY <1>0, <1>1, CreateShows
<1>2. ASSUME NEW k \in Slots, NEW o \in DOMAIN objects, NEW p \in Places, Move(k, o, p)
      PROVE  Shows
  BY <1>2, MoveShows
<1>3. ASSUME NEW k \in Slots,
             \/ \E o \in DOMAIN objects : Recycle(k, o)
             \/ \E unwinding \in BOOLEAN : RecycleReturns(k, unwinding)
             \/ CreateReturns(k) \/ Kill(k)
      PROVE  Shows
  <2>1. objects' = objects
    BY <1>3 DEF Recycle, RecycleReturns, CreateReturns, Kill
  <2> QED BY <2>1, Unseen
<1>4. ASSUME NEW k \in Slots, NEW unwinding \in BOOLEAN, MoveReturns(k, unwinding)
      PROVE  Shows
  BY <1>4, MoveReturnsShows
<1>5. CASE RecycleTurn
  BY <1>5, RecycleTurnShows
<1>6. ASSUME NEW o \in DOMAIN objects, NEW p \in Places, Chparent(o, p)
      PROVE  Shows
  BY <1>0, <1>6, ChparentShows
<1>7. ASSUME NEW o \in DOMAIN objects, Renumber(o) PROVE Shows
  BY <1>7, RenumberShows
<1>8. CASE ResetMaxObject \/ UNCHANGED vars
  <2>1. objects' = objects
    BY <1>8 DEF ResetMaxObject, vars
  <2> QED BY <2>1, Unseen
<1>9. ASSUME NEW o \in DOMAIN objects, NEW f \in {"user", "propdefs"}, NEW v,
             objects' = [objects EXCEPT ![o][f] = v]
      PROVE  Shows
  <2>1. /\ DOMAIN objects' = DOMAIN objects
        /\ \A x \in DOMAIN objects : \A g \in {"child", "sibling", "contents", "next"} :
             objects'[x][g] = objects[x][g]
    BY <1>9
  <2> QED BY <2>1, Unseen
<1>10. ASSUME NEW o \in DOMAIN objects, NEW flag, SetPlayerFlag(o, flag) PROVE Shows
  <2>1. objects' = [objects EXCEPT ![o]["user"] = flag]
    BY <1>10 DEF SetPlayerFlag
  <2> QED BY <1>9, <2>1
<1>11. ASSUME NEW o \in DOMAIN objects, NEW name, AddProp(o, name) \/ DeleteProp(o, name)
       PROVE  Shows
  <2>1. \/ objects' = [objects EXCEPT ![o]["propdefs"] = @ \cup {name}]
        \/ objects' = [objects EXCEPT ![o]["propdefs"] = @ \ {name}]
    BY <1>11 DEF AddProp, DeleteProp
  <2> QED BY <1>9, <2>1
<1> QED BY <1>1, <1>2, <1>3, <1>4, <1>5, <1>6, <1>7, <1>8, <1>10, <1>11 DEF Next

LEMMA InitShows == Init => Numbered /\ Forest!Init
<1> SUFFICES ASSUME Init PROVE Numbered /\ Forest!Init
  OBVIOUS
<1>1. /\ Sound(objects) /\ DatabaseSound
      /\ DOMAIN objects = {0} /\ objects[0] = NewObject /\ 0 \in Objids
  BY InitSound, ConstantsAssumption DEF DatabaseSound, Init, Objids
<1>2. Listed(objects, 0, "child", "sibling") = <<>>
  <2>1. Chained(objects, 0, "child", "sibling", <<>>)
    BY <1>1 DEF Chained, Nth, NewObject
  <2>2. FiniteTable(objects) /\ Threaded(objects, Place(objects, "parent"), "child", "sibling")
    BY <1>1 DEF Sound, Shaped, Inheritance, Hierarchy
  <2> QED BY <1>1, <2>1, <2>2, ChainedListed
<1>3. Listed(objects, 0, "contents", "next") = <<>>
  <2>1. Chained(objects, 0, "contents", "next", <<>>)
    BY <1>1 DEF Chained, Nth, NewObject
  <2>2. FiniteTable(objects) /\ Threaded(objects, Place(objects, "location"), "contents", "next")
    BY <1>1 DEF Sound, Shaped, Whereabouts, Hierarchy
  <2> QED BY <1>1, <2>1, <2>2, ChainedListed
<1>4. /\ Kids(objects) = [x \in {0} |-> <<>>]
      /\ Contents(objects) = [x \in {0} |-> <<>>]
  BY <1>1, <1>2, <1>3 DEF Kids, Contents, Lists
<1>5. Forest!Init
  BY <1>1, <1>4 DEF Forest!Init, Kids, Contents, Lists
<1> QED BY <1>1, <1>5 DEF Numbered

(* The linked lists of db_objects.c hold two forests, in which the objects below *)
(* another are in order of arrival: each operation changes them as Forests says, *)
(* whatever order the links are cut and tied in and whatever ran before, or does *)
(* not show there.                                                               *)
THEOREM AlwaysForests == Spec => Forest!Spec /\ ImplementsForests
<1>1. Numbered /\ [Next]_vars => [Forest!Next]_(Forest!vars) /\ Numbered'
  <2> SUFFICES ASSUME Numbered, [Next]_vars PROVE [Forest!Next]_(Forest!vars) /\ Numbered'
    OBVIOUS
  <2>1. Shows /\ Numbered'
    BY StepShows
  <2>2. CASE Forest!Next
    BY <2>1, <2>2
  <2>3. CASE UNCHANGED <<Kids(objects), Contents(objects)>>
    BY <2>1, <2>3 DEF Forest!vars, Kids, Contents, Lists
  <2> QED BY <2>1, <2>2, <2>3 DEF Shows
<1> QED BY <1>1, InitShows, PTL DEF Spec, ImplementsForests, Forest!Spec
=============================================================================
