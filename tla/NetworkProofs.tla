---------------------------- MODULE NetworkProofs ----------------------------
(***************************************************************************)
(* Proofs about NetworkIO, for clients that type and read what they like,  *)
(* lines of any length and a queue of any size: the lines that the server  *)
(* gets are those that were typed, and the lines that it sends are         *)
(* accounted for.                                                          *)
(***************************************************************************)
EXTENDS NetworkIO, FiniteSetTheorems, SequenceTheorems, TLAPS

-----------------------------------------------------------------------------
(* What holds of 0, and of the number after each that it holds of, holds of  *)
(* every number: otherwise a finite set would be as small as a part of it.   *)
(* The library's theorem of this takes the formula as a parameter, which no  *)
(* prover here can be given; this one takes the set of the numbers it is     *)
(* true of.                                                                  *)
LEMMA Induct ==
  ASSUME NEW S, 0 \in S, \A i \in Nat : i \in S => i + 1 \in S, NEW m \in Nat
  PROVE  m \in S
<1> SUFFICES ASSUME m \notin S PROVE FALSE
  OBVIOUS
<1> DEFINE A == S \cap (0 .. m)
           B == A \ {0}
           f == [i \in A |-> i + 1]
<1>1. IsFiniteSet(A)
  <2>1. IsFiniteSet(0 .. m)
    BY FS_Interval
  <2> QED BY <2>1, FS_Subset
<1>2. 0 \in A
  OBVIOUS
<1>3. IsFiniteSet(B) /\ Cardinality(B) = Cardinality(A) - 1
  BY <1>1, <1>2, FS_RemoveElement
<1>4. Cardinality(A) \in Nat
  BY <1>1, FS_CardinalityType
<1>5. f \in [A -> B]
  OBVIOUS
<1>6. \A x, y \in A : f[x] = f[y] => x = y
  OBVIOUS
<1> HIDE DEF A, B, f
<1>7. Cardinality(B) < Cardinality(A)
  BY <1>3, <1>4
<1>8. \E x, y \in A : x # y /\ f[x] = f[y]
  BY <1>1, <1>3, <1>5, <1>7, FS_PigeonHole
<1> QED BY <1>6, <1>8


-----------------------------------------------------------------------------
(* Output.  How many bytes the first blocks of a queue hold.                 *)

Blocks == [line : Nat, left : Nat]

(* What a block of a queue is. *)
LEMMA BlockFields ==
  ASSUME NEW b \in Seq(Blocks), NEW i \in 1 .. Len(b)
  PROVE  b[i] \in Blocks /\ b[i].left \in Nat /\ b[i].line \in Nat
<1>1. b[i] \in Blocks
  OBVIOUS
<1> QED BY <1>1 DEF Blocks

(* The sums of the lengths of the first blocks are a function that is given *)
(* by what it adds at each block.                                          *)
LEMMA LeftIs ==
  ASSUME NEW b \in Seq(Blocks)
  PROVE  /\ Left(b) \in [0 .. Len(b) -> Nat] /\ Left(b)[0] = 0
         /\ \A i \in 1 .. Len(b) : Left(b)[i] = Left(b)[i - 1] + b[i].left
<1> DEFINE Sums(f, k) == /\ f \in [0 .. k -> Nat] /\ f[0] = 0
                         /\ \A i \in 1 .. k : f[i] = f[i - 1] + b[i].left
           S == {k \in Nat : k <= Len(b) => \E f : Sums(f, k)}
<1>0. Len(b) \in Nat /\ \A i \in 1 .. Len(b) : b[i].left \in Nat
  BY BlockFields
<1>1. 0 \in S
  <2>1. Sums([i \in 0 .. 0 |-> 0], 0)
    OBVIOUS
  <2> HIDE DEF Sums
  <2> QED BY <2>1
<1>2. ASSUME NEW k \in Nat, k \in S PROVE k + 1 \in S
  <2> SUFFICES ASSUME k + 1 <= Len(b) PROVE \E f : Sums(f, k + 1)
    <3> HIDE DEF Sums
    <3> QED OBVIOUS
  <2>1. PICK f : Sums(f, k)
    <3>1. k <= Len(b)
      BY <1>0
    <3> HIDE DEF Sums
    <3> QED BY <1>2, <3>1
  <2> DEFINE g == [i \in 0 .. k + 1 |-> IF i = k + 1 THEN f[k] + b[k + 1].left ELSE f[i]]
  <2>2. f[k] \in Nat /\ b[k + 1].left \in Nat
    BY <1>0, <2>1
  <2>3. g \in [0 .. k + 1 -> Nat] /\ g[0] = 0
    BY <2>1, <2>2
  <2>4. \A i \in 1 .. k + 1 : g[i] = g[i - 1] + b[i].left
    BY <2>1
  <2>5. Sums(g, k + 1)
    BY <2>3, <2>4
  <2> HIDE DEF Sums, g
  <2> QED BY <2>5
<1>3. PICK f : Sums(f, Len(b))
  <2>1. Len(b) \in S
    <3> HIDE DEF S
    <3> QED BY <1>0, <1>1, <1>2, Induct
  <2> QED BY <1>0, <2>1
<1>4. f = [i \in 0 .. Len(b) |-> IF i = 0 THEN 0 ELSE f[i - 1] + b[i].left]
  BY <1>0, <1>3
<1> DEFINE Rule(g) == [i \in 0 .. Len(b) |-> IF i = 0 THEN 0 ELSE g[i - 1] + b[i].left]
           h == CHOOSE g : g = Rule(g)
<1>5. Left(b) = h
  BY DEF Left
<1>6. h = Rule(h)
  <2>1. f = Rule(f)
    BY <1>4
  <2> HIDE DEF Rule
  <2> QED BY <2>1
<1> HIDE DEF h
<1>7. /\ DOMAIN h = 0 .. Len(b) /\ h[0] = 0
      /\ \A i \in 1 .. Len(b) : h[i] = h[i - 1] + b[i].left
  BY <1>0, <1>6
<1>8. \A i \in 0 .. Len(b) : h[i] \in Nat
  <2> DEFINE T == {k \in Nat : k <= Len(b) => h[k] \in Nat}
  <2>1. 0 \in T
    BY <1>7
  <2>2. ASSUME NEW k \in Nat, k \in T PROVE k + 1 \in T
    <3> SUFFICES ASSUME k + 1 <= Len(b) PROVE h[k + 1] \in Nat
      OBVIOUS
    <3>1. k + 1 \in 1 .. Len(b) /\ h[k] \in Nat
      BY <1>0, <2>2
    <3>2. h[k + 1] = h[(k + 1) - 1] + b[k + 1].left /\ b[k + 1].left \in Nat
      BY <1>0, <1>7, <3>1
    <3> QED BY <3>1, <3>2
  <2>3. \A k \in Nat : k \in T
    <3> HIDE DEF T
    <3> QED BY <2>1, <2>2, Induct
  <2> QED BY <1>0, <2>3
<1>9. h = [i \in 0 .. Len(b) |-> h[i]]
  BY <1>6
<1> QED BY <1>5, <1>7, <1>8, <1>9

(* ... and there is one such function. *)
LEMMA LeftUnique ==
  ASSUME NEW b \in Seq(Blocks), NEW f, f[0] = 0,
         \A i \in 1 .. Len(b) : f[i] = f[i - 1] + b[i].left
  PROVE  f[Len(b)] = Left(b)[Len(b)]
<1> DEFINE S == {k \in Nat : k <= Len(b) => f[k] = Left(b)[k]}
<1>1. 0 \in S
  BY LeftIs
<1>2. ASSUME NEW k \in Nat, k \in S PROVE k + 1 \in S
  <2> SUFFICES ASSUME k + 1 <= Len(b) PROVE f[k + 1] = Left(b)[k + 1]
    OBVIOUS
  <2>1. k + 1 \in 1 .. Len(b) /\ (k + 1) - 1 = k /\ f[k] = Left(b)[k]
    BY <1>2
  <2>2. f[k + 1] = f[k] + b[k + 1].left
    BY <2>1
  <2>3. Left(b)[k + 1] = Left(b)[k] + b[k + 1].left
    BY <2>1, LeftIs
  <2> QED BY <2>1, <2>2, <2>3
<1>3. Len(b) \in S
  <2> HIDE DEF S
  <2> QED BY <1>1, <1>2, Induct
<1> QED BY <1>3

(* More blocks are not shorter. *)
LEMMA LeftGrows ==
  ASSUME NEW b \in Seq(Blocks), NEW i \in 0 .. Len(b), NEW j \in i .. Len(b)
  PROVE  Left(b)[i] <= Left(b)[j]
<1> DEFINE S == {k \in Nat : i + k <= Len(b) => Left(b)[i] <= Left(b)[i + k]}
<1>0. \A k \in 0 .. Len(b) : Left(b)[k] \in Nat
  BY LeftIs
<1>1. 0 \in S
  BY <1>0
<1>2. ASSUME NEW k \in Nat, k \in S PROVE k + 1 \in S
  <2> SUFFICES ASSUME i + (k + 1) <= Len(b) PROVE Left(b)[i] <= Left(b)[i + (k + 1)]
    OBVIOUS
  <2> DEFINE m == i + (k + 1)
  <2>1. m \in 1 .. Len(b) /\ m - 1 = i + k /\ i + k \in 0 .. Len(b)
    OBVIOUS
  <2>2. Left(b)[i] <= Left(b)[i + k]
    BY <1>2
  <2> HIDE DEF m
  <2>3. Left(b)[m] = Left(b)[i + k] + b[m].left /\ b[m].left \in Nat
    BY <2>1, LeftIs, BlockFields
  <2>4. Left(b)[i] <= Left(b)[m]
    BY <1>0, <2>1, <2>2, <2>3
  <2> QED BY <2>4 DEF m
<1>3. j - i \in S
  <2> HIDE DEF S
  <2> QED BY <1>1, <1>2, Induct
<1> QED BY <1>3
(* A block more. *)
LEMMA LeftAppend ==
  ASSUME NEW b \in Seq(Blocks), NEW e \in Blocks
  PROVE  Left(Append(b, e))[Len(b) + 1] = Left(b)[Len(b)] + e.left
<1> DEFINE a == Append(b, e)
           f == [i \in 0 .. Len(b) + 1 |->
                   IF i = Len(b) + 1 THEN Left(b)[Len(b)] + e.left ELSE Left(b)[i]]
<1>1. a \in Seq(Blocks) /\ Len(a) = Len(b) + 1 /\ Len(b) \in Nat
  OBVIOUS
<1>2. /\ a[Len(b) + 1] = e
      /\ \A i \in 1 .. Len(b) : a[i] = b[i]
  OBVIOUS
<1>3. f[0] = 0
  BY LeftIs
<1>4. ASSUME NEW i \in 1 .. Len(a) PROVE f[i] = f[i - 1] + a[i].left
  <2>1. CASE i = Len(b) + 1
    BY <1>1, <1>2, <2>1
  <2>2. CASE i # Len(b) + 1
    <3>1. i \in 1 .. Len(b) /\ a[i] = b[i] /\ f[i] = Left(b)[i] /\ f[i - 1] = Left(b)[i - 1]
      BY <1>1, <1>2, <2>2
    <3> QED BY <3>1, LeftIs
  <2> QED BY <2>1, <2>2
<1>5. f[Len(a)] = Left(a)[Len(a)]
  <2> HIDE DEF f, a
  <2> QED BY <1>1, <1>3, <1>4, LeftUnique
<1> QED BY <1>1, <1>5

(* What they hold is a number. *)
LEMMA LeftType ==
  ASSUME NEW b \in Seq(Blocks) PROVE Len(b) \in Nat /\ \A i \in 0 .. Len(b) : Left(b)[i] \in Nat
BY LeftIs

(* The first k blocks less, and a part of the next. *)
IsRest(r, b, k, part) ==
  /\ r \in Seq(Blocks) /\ Len(r) = Len(b) - k
  /\ k = Len(b) => part = 0
  /\ \A i \in 1 .. Len(r) :
        r[i].left = IF i = 1 THEN b[i + k].left - part ELSE b[i + k].left

LEMMA LeftRest ==
  ASSUME NEW b \in Seq(Blocks), NEW k \in 0 .. Len(b), NEW part \in Nat, NEW r,
         IsRest(r, b, k, part)
  PROVE  Left(r)[Len(r)] = Left(b)[Len(b)] - Left(b)[k] - part
<1> DEFINE f == [i \in 0 .. Len(r) |-> IF i = 0 THEN 0 ELSE Left(b)[i + k] - Left(b)[k] - part]
<1>0. Len(b) \in Nat /\ \A i \in 0 .. Len(b) : Left(b)[i] \in Nat
  BY LeftType
<1>5. r \in Seq(Blocks) /\ Len(r) = Len(b) - k /\ (k = Len(b) => part = 0)
  BY DEF IsRest
<1>1. f[0] = 0
  BY <1>5
<1>2. ASSUME NEW i \in 1 .. Len(r) PROVE f[i] = f[i - 1] + r[i].left
  <2> DEFINE m == i + k
  <2>1. m \in 1 .. Len(b) /\ m - 1 \in 0 .. Len(b) /\ k \in 0 .. Len(b) /\ i \in Nat
    BY <1>0, <1>5
  <2>2. Left(b)[m] = Left(b)[m - 1] + b[m].left /\ b[m].left \in Nat
    BY <2>1, LeftIs, BlockFields
  <2>3. r[i].left = IF i = 1 THEN b[m].left - part ELSE b[m].left
    BY DEF IsRest
  <2>6. i = 1 => m - 1 = k
    BY <2>1
  <2> DEFINE x == Left(b)[m]
             y == Left(b)[m - 1]
             z == Left(b)[k]
             d == b[m].left
  <2>4. f[i] = x - z - part
    BY <1>5
  <2>5. f[i - 1] = IF i = 1 THEN 0 ELSE y - z - part
    <3>1. (i - 1) + k = m - 1 /\ i - 1 \in 0 .. Len(r) /\ (i - 1 = 0 <=> i = 1)
      BY <1>5, <2>1
    <3> QED BY <3>1
  <2>7. x \in Int /\ y \in Int /\ z \in Int /\ d \in Int /\ part \in Int
    BY <1>0, <2>1, <2>2
  <2>8. x = y + d /\ (i = 1 => y = z) /\ (r[i].left = IF i = 1 THEN d - part ELSE d)
    BY <2>2, <2>3, <2>6
  <2> HIDE DEF f, m, x, y, z, d
  <2> QED BY <2>4, <2>5, <2>7, <2>8
<1>3. f[Len(r)] = Left(b)[Len(b)] - Left(b)[k] - part
  <2>1. CASE Len(r) = 0
    BY <1>0, <1>5, <2>1
  <2>2. CASE Len(r) # 0
    BY <1>0, <1>5, <2>2
  <2> QED BY <2>1, <2>2
<1>4. f[Len(r)] = Left(r)[Len(r)]
  <2> HIDE DEF f
  <2> QED BY <1>1, <1>2, <1>5, LeftUnique
<1> QED BY <1>3, <1>4

(* No bytes left, none in any block. *)
LEMMA LeftNothing ==
  ASSUME NEW b \in Seq(Blocks), Left(b)[Len(b)] = 0, NEW i \in 1 .. Len(b)
  PROVE  b[i].left = 0
<1>1. i - 1 \in 0 .. Len(b) /\ i \in i .. Len(b) /\ i \in 0 .. Len(b)
      /\ Len(b) \in i .. Len(b)
  OBVIOUS
<1>2. Left(b)[i] <= Left(b)[Len(b)]
  BY <1>1, LeftGrows
<1>3. Left(b)[i] = Left(b)[i - 1] + b[i].left /\ b[i].left \in Nat
  BY LeftIs, BlockFields
<1>4. Left(b)[i - 1] \in Nat /\ Left(b)[i] \in Nat
  BY <1>1, LeftIs
<1> QED BY <1>2, <1>3, <1>4

-----------------------------------------------------------------------------
Queues == [blocks : Seq(Blocks), length : Nat, flushed : Nat, printed : Seq(Nat), reported : Nat]

(* What the queue of output is in every state: the property's parts, with   *)
(* the order said of any two lines, and below what was accepted.            *)
QueueOK(q, n) ==
  /\ q \in Queues
  /\ Len(q.printed) + Len(q.blocks) + q.reported + q.flushed = n
  /\ \A i, j \in DOMAIN q.printed : i < j => q.printed[i] < q.printed[j]
  /\ \A i, j \in DOMAIN q.blocks : i < j => q.blocks[i].line < q.blocks[j].line
  /\ \A i \in DOMAIN q.printed, j \in DOMAIN q.blocks : q.printed[i] < q.blocks[j].line
  /\ \A i \in DOMAIN q.printed : q.printed[i] <= n
  /\ \A j \in DOMAIN q.blocks : q.blocks[j].line <= n
  /\ q.length = Left(q.blocks)[Len(q.blocks)]
  /\ q.length > MAX_QUEUED_OUTPUT =>
       \A i, j \in DOMAIN q.blocks : q.blocks[i].left > 0 /\ q.blocks[j].left > 0 => i = j
(* What the client leaves of the blocks, and what it has then. *)
LEMMA WrittenIs ==
  ASSUME NEW q \in Queues, NEW take, take.whole \in 0 .. Len(q.blocks), take.part \in Nat,
         take.whole = Len(q.blocks) => take.part = 0,
         take.whole < Len(q.blocks) => take.part <= q.blocks[take.whole + 1].left
  PROVE  LET w == Written(q, take)
             k == take.whole
         IN /\ w.blocks \in Seq(Blocks) /\ Len(w.blocks) = Len(q.blocks) - k
            /\ \A i \in 1 .. Len(w.blocks) :
                 /\ w.blocks[i].line = q.blocks[i + k].line
                 /\ w.blocks[i].left = IF i = 1 THEN q.blocks[i + k].left - take.part
                                       ELSE q.blocks[i + k].left
            /\ w.printed \in Seq(Nat) /\ Len(w.printed) = Len(q.printed) + k
            /\ \A i \in 1 .. Len(w.printed) :
                 w.printed[i] = IF i <= Len(q.printed) THEN q.printed[i]
                                ELSE q.blocks[i - Len(q.printed)].line
            /\ w = [q EXCEPT !.blocks = w.blocks, !.printed = w.printed,
                             !.length = q.length - Left(q.blocks)[k] - take.part]
<1> DEFINE b == q.blocks
           k == take.whole
           rest == SubSeq(b, k + 1, Len(b))
           r == [i \in DOMAIN rest |->
                   IF i = 1 THEN [rest[i] EXCEPT !.left = @ - take.part] ELSE rest[i]]
           more == [i \in 1 .. k |-> b[i].line]
<1>0. b \in Seq(Blocks) /\ q.printed \in Seq(Nat) /\ k \in 0 .. Len(b) /\ Len(b) \in Nat
  BY DEF Queues
<1>1. /\ rest \in Seq(Blocks) /\ Len(rest) = Len(b) - k
      /\ \A i \in 1 .. Len(b) - k : rest[i] = b[i + k]
  <2>1. \A i \in k + 1 .. Len(b) : b[i] \in Blocks
    BY <1>0
  <2>2. /\ rest \in Seq(Blocks)
        /\ Len(rest) = IF k + 1 <= Len(b) THEN Len(b) - (k + 1) + 1 ELSE 0
        /\ \A i \in 1 .. Len(b) - (k + 1) + 1 : rest[i] = b[(k + 1) + i - 1]
    <3> HIDE DEF b, k
    <3> QED BY <1>0, <2>1, SubSeqProperties
  <2> HIDE DEF rest, b, k
  <2>3. Len(rest) = Len(b) - k
    BY <1>0, <2>2
  <2>4. ASSUME NEW i \in 1 .. Len(b) - k PROVE rest[i] = b[i + k]
    <3>1. i \in 1 .. Len(b) - (k + 1) + 1 /\ (k + 1) + i - 1 = i + k
      BY <1>0
    <3> QED BY <2>2, <3>1
  <2> QED BY <2>2, <2>3, <2>4
<1> HIDE DEF rest
<1>2. ASSUME NEW i \in 1 .. Len(b) - k
      PROVE  /\ b[i + k] \in Blocks
             /\ r[i] \in Blocks /\ r[i].line = b[i + k].line
             /\ r[i].left = IF i = 1 THEN b[i + k].left - take.part ELSE b[i + k].left
  <2>1. i + k \in 1 .. Len(b) /\ i \in DOMAIN rest
    BY <1>0, <1>1
  <2>2. rest[i] = b[i + k] /\ b[i + k] \in Blocks
    BY <1>0, <1>1, <2>1
  <2>3. CASE i = 1
    <3>1. r[i] = [b[i + k] EXCEPT !.left = @ - take.part]
      BY <2>1, <2>2, <2>3
    <3>2. k + 1 \in 1 .. Len(b) /\ i + k = k + 1 /\ k < Len(b)
      BY <1>0, <2>1, <2>3
    <3>3. take.part <= b[i + k].left /\ b[i + k].left \in Nat
      BY <2>2, <3>2 DEF Blocks
    <3>4. b[i + k].left - take.part \in Nat
      BY <3>3
    <3> HIDE DEF r, b, k
    <3> QED BY <2>2, <2>3, <3>1, <3>4 DEF Blocks
  <2>4. CASE i # 1
    <3>1. r[i] = b[i + k]
      BY <2>1, <2>2, <2>4
    <3> HIDE DEF r, b, k
    <3> QED BY <2>2, <2>4, <3>1
  <2> QED BY <2>2, <2>3, <2>4
<1>3. r \in Seq(Blocks) /\ Len(r) = Len(b) - k
  <2>1. DOMAIN r = 1 .. Len(b) - k /\ Len(b) - k \in Nat
    BY <1>0, <1>1
  <2>2. r = [i \in 1 .. Len(b) - k |-> r[i]]
    BY <2>1
  <2> HIDE DEF r, b, k
  <2>3. r \in [1 .. Len(b) - k -> Blocks]
    BY <1>2, <2>2
  <2> QED BY <2>1, <2>3
<1>4. /\ q.printed \o more \in Seq(Nat) /\ Len(q.printed \o more) = Len(q.printed) + k
      /\ \A i \in 1 .. Len(q.printed) + k :
           (q.printed \o more)[i] = IF i <= Len(q.printed) THEN q.printed[i]
                                    ELSE b[i - Len(q.printed)].line
  <2>1. \A i \in 1 .. k : b[i].line \in Nat
    BY <1>0, BlockFields
  <2> HIDE DEF b, k
  <2>2. more \in Seq(Nat) /\ Len(more) = k /\ \A i \in 1 .. k : more[i] = b[i].line
    BY <1>0, <2>1
  <2> HIDE DEF more
  <2>3. q.printed \o more \in Seq(Nat) /\ Len(q.printed \o more) = Len(q.printed) + k
    BY <1>0, <2>2, ConcatProperties
  <2>4. ASSUME NEW i \in 1 .. Len(q.printed) + k
        PROVE  (q.printed \o more)[i] = IF i <= Len(q.printed) THEN q.printed[i]
                                        ELSE b[i - Len(q.printed)].line
    <3>1. (q.printed \o more)[i] = IF i <= Len(q.printed) THEN q.printed[i]
                                   ELSE more[i - Len(q.printed)]
      BY <1>0, <2>2
    <3>2. i > Len(q.printed) => i - Len(q.printed) \in 1 .. k
      BY <1>0
    <3> QED BY <1>0, <2>2, <3>1, <3>2
  <2> QED BY <2>3, <2>4
<1>5. /\ Written(q, take).blocks = r /\ Written(q, take).printed = q.printed \o more
      /\ Written(q, take) = [q EXCEPT !.blocks = r, !.printed = q.printed \o more,
                                     !.length = q.length - Left(b)[k] - take.part]
  <2>1. Written(q, take) = [q EXCEPT !.blocks = r, !.printed = q.printed \o more,
                                     !.length = q.length - Left(b)[k] - take.part]
    BY DEF Written, rest, Queues
  <2> HIDE DEF r, more
  <2> QED BY <2>1 DEF Queues
<1> HIDE DEF r, more
<1> QED BY <1>2, <1>3, <1>4, <1>5
(* What the client takes leaves the queue as it should be. *)
LEMMA WrittenOK ==
  ASSUME NEW n \in Nat, NEW q, QueueOK(q, n), NEW take,
         take.whole \in 0 .. Len(q.blocks), take.part \in Nat,
         take.whole = Len(q.blocks) => take.part = 0,
         take.whole < Len(q.blocks) => take.part <= q.blocks[take.whole + 1].left
  PROVE  QueueOK(Written(q, take), n)
<1> DEFINE w == Written(q, take)
           b == q.blocks
           p == q.printed
           k == take.whole
<1>0. /\ q \in Queues /\ b \in Seq(Blocks) /\ p \in Seq(Nat) /\ k \in 0 .. Len(b)
      /\ Len(b) \in Nat /\ Len(p) \in Nat /\ MAX_QUEUED_OUTPUT \in Nat
      /\ q.length \in Nat /\ q.flushed \in Nat /\ q.reported \in Nat
  BY NetworkAssumption DEF QueueOK, Queues
<1>1. /\ w.blocks \in Seq(Blocks) /\ Len(w.blocks) = Len(b) - k
      /\ \A i \in 1 .. Len(w.blocks) :
           /\ w.blocks[i].line = b[i + k].line
           /\ w.blocks[i].left = IF i = 1 THEN b[i + k].left - take.part ELSE b[i + k].left
      /\ w.printed \in Seq(Nat) /\ Len(w.printed) = Len(p) + k
      /\ \A i \in 1 .. Len(w.printed) :
           w.printed[i] = IF i <= Len(p) THEN p[i] ELSE b[i - Len(p)].line
      /\ w = [q EXCEPT !.blocks = w.blocks, !.printed = w.printed,
                       !.length = q.length - Left(b)[k] - take.part]
  BY <1>0, WrittenIs, ZenonT(90)
<1>2. /\ w.length = q.length - Left(b)[k] - take.part
      /\ w.flushed = q.flushed /\ w.reported = q.reported
  <2> HIDE DEF w, b, p, k
  <2> QED BY <1>0, <1>1 DEF Queues
<1>3. /\ q.length = Left(b)[Len(b)] /\ Len(p) + Len(b) + q.reported + q.flushed = n
      /\ q.length > MAX_QUEUED_OUTPUT =>
           \A i, j \in 1 .. Len(b) : b[i].left > 0 /\ b[j].left > 0 => i = j
      /\ \A i, j \in 1 .. Len(p) : i < j => p[i] < p[j]
      /\ \A i, j \in 1 .. Len(b) : i < j => b[i].line < b[j].line
      /\ \A i \in 1 .. Len(p), j \in 1 .. Len(b) : p[i] < b[j].line
      /\ \A i \in 1 .. Len(p) : p[i] <= n
      /\ \A j \in 1 .. Len(b) : b[j].line <= n
  <2>1. DOMAIN b = 1 .. Len(b) /\ DOMAIN p = 1 .. Len(p)
    BY <1>0
  <2> QED BY <2>1 DEF QueueOK
<1> HIDE DEF w, b, p, k
<1>16. Len(w.blocks) = Len(b) - k /\ Len(w.printed) = Len(p) + k
  BY <1>1
<1>4. ASSUME NEW i \in 1 .. Len(w.blocks)
      PROVE  i + k \in 1 .. Len(b) /\ w.blocks[i].line = b[i + k].line
  <2>1. i + k \in 1 .. Len(b)
    BY <1>0, <1>16
  <2> QED BY <1>1, <2>1
<1>5. ASSUME NEW i \in 1 .. Len(w.printed)
      PROVE
        \/ i \in 1 .. Len(p) /\ w.printed[i] = p[i]
        \/ i > Len(p) /\ i - Len(p) \in 1 .. k /\ i - Len(p) \in 1 .. Len(b)
           /\ w.printed[i] = b[i - Len(p)].line
  <2>1. w.printed[i] = IF i <= Len(p) THEN p[i] ELSE b[i - Len(p)].line
    BY <1>1
  <2>2. \/ i \in 1 .. Len(p) /\ i <= Len(p)
        \/ /\ i > Len(p) /\ ~(i <= Len(p)) /\ i - Len(p) \in 1 .. k
           /\ i - Len(p) \in 1 .. Len(b)
    BY <1>0, <1>16, SMTT(30)
  <2> QED BY <2>1, <2>2
<1>6. /\ DOMAIN w.blocks = 1 .. Len(w.blocks) /\ DOMAIN w.printed = 1 .. Len(w.printed)
  BY <1>1
<1>7. \A i, j \in DOMAIN w.printed : i < j => w.printed[i] < w.printed[j]
  <2> SUFFICES ASSUME NEW i \in 1 .. Len(w.printed), NEW j \in 1 .. Len(w.printed), i < j
               PROVE  w.printed[i] < w.printed[j]
    BY <1>6
  <2>1. CASE j \in 1 .. Len(p) /\ w.printed[j] = p[j]
    <3>1. i \in 1 .. Len(p) /\ ~(i > Len(p))
      <4>1. i \in Nat /\ i >= 1 /\ j \in Nat /\ j <= Len(p)
        BY <1>0, <1>16, <2>1
      <4> QED BY <1>0, <4>1, SMTT(30)
    <3>2. w.printed[i] = p[i]
      BY <1>5, <3>1
    <3> QED BY <1>3, <2>1, <3>1, <3>2
  <2>2. CASE /\ j > Len(p) /\ j - Len(p) \in 1 .. k /\ j - Len(p) \in 1 .. Len(b)
             /\ w.printed[j] = b[j - Len(p)].line
    <3>1. CASE i \in 1 .. Len(p) /\ w.printed[i] = p[i]
      BY <1>3, <2>2, <3>1
    <3>2. CASE /\ i > Len(p) /\ i - Len(p) \in 1 .. Len(b)
               /\ w.printed[i] = b[i - Len(p)].line
      <4>1. i - Len(p) < j - Len(p)
        BY <1>0
      <4> QED BY <1>3, <2>2, <3>2, <4>1
    <3> QED BY <1>5, <3>1, <3>2
  <2> QED BY <1>5, <2>1, <2>2
<1>8. \A i, j \in DOMAIN w.blocks : i < j => w.blocks[i].line < w.blocks[j].line
  <2> SUFFICES ASSUME NEW i \in 1 .. Len(w.blocks), NEW j \in 1 .. Len(w.blocks), i < j
               PROVE  w.blocks[i].line < w.blocks[j].line
    BY <1>6
  <2>1. i + k < j + k
    BY <1>0
  <2> QED BY <1>3, <1>4, <2>1
<1>9. \A i \in DOMAIN w.printed, j \in DOMAIN w.blocks : w.printed[i] < w.blocks[j].line
  <2> SUFFICES ASSUME NEW i \in 1 .. Len(w.printed), NEW j \in 1 .. Len(w.blocks)
               PROVE  w.printed[i] < w.blocks[j].line
    BY <1>6
  <2>1. CASE i \in 1 .. Len(p) /\ w.printed[i] = p[i]
    BY <1>3, <1>4, <2>1
  <2>2. CASE /\ i > Len(p) /\ i - Len(p) \in 1 .. k /\ i - Len(p) \in 1 .. Len(b)
             /\ w.printed[i] = b[i - Len(p)].line
    <3>1. i - Len(p) < j + k
      BY <1>0, <2>2
    <3> QED BY <1>3, <1>4, <2>2, <3>1
  <2> QED BY <1>5, <2>1, <2>2
<1>10. /\ \A i \in DOMAIN w.printed : w.printed[i] <= n
       /\ \A j \in DOMAIN w.blocks : w.blocks[j].line <= n
  BY <1>3, <1>4, <1>5, <1>6
<1>11. w.length = Left(w.blocks)[Len(w.blocks)]
  <2>1. Left(w.blocks)[Len(w.blocks)] = Left(b)[Len(b)] - Left(b)[k] - take.part
    <3>1. k = Len(b) => take.part = 0
      BY DEF b, k
    <3>2. \A i \in 1 .. Len(w.blocks) :
            w.blocks[i].left = IF i = 1 THEN b[i + k].left - take.part ELSE b[i + k].left
      BY <1>1
    <3>3. w.blocks \in Seq(Blocks)
      BY <1>1
    <3>4. IsRest(w.blocks, b, k, take.part)
      BY <1>16, <3>1, <3>2, <3>3 DEF IsRest
    <3>5. take.part \in Nat
      BY <1>0
    <3> QED BY <1>0, <3>4, <3>5, LeftRest
  <2> QED BY <1>2, <1>3, <2>1
<1>12. w.length \in Nat /\ w.length <= q.length
  <2>1. w.length \in Nat
    BY <1>1, <1>11, LeftType
  <2>2. Left(b)[k] \in Nat
    BY <1>0, LeftType
  <2> QED BY <1>0, <1>2, <2>1, <2>2
<1>13. w.length > MAX_QUEUED_OUTPUT =>
         \A i, j \in DOMAIN w.blocks : w.blocks[i].left > 0 /\ w.blocks[j].left > 0 => i = j
  <2> SUFFICES ASSUME w.length > MAX_QUEUED_OUTPUT,
                      NEW i \in 1 .. Len(w.blocks), NEW j \in 1 .. Len(w.blocks),
                      w.blocks[i].left > 0, w.blocks[j].left > 0
               PROVE  i = j
    BY <1>6
  <2>1. \A m \in 1 .. Len(w.blocks) : m + k \in 1 .. Len(b) /\ b[m + k].left >= w.blocks[m].left
    <3> TAKE m \in 1 .. Len(w.blocks)
    <3>1. m + k \in 1 .. Len(b) /\ b[m + k].left \in Nat
      BY <1>0, <1>4, BlockFields
    <3>2. w.blocks[m].left = IF m = 1 THEN b[m + k].left - take.part ELSE b[m + k].left
      BY <1>1
    <3> QED BY <3>1, <3>2
  <2>2. b[i + k].left > 0 /\ b[j + k].left > 0
    <3>1. /\ b[i + k].left \in Nat /\ b[j + k].left \in Nat
          /\ w.blocks[i].left \in Nat /\ w.blocks[j].left \in Nat
      BY <1>0, <1>1, <2>1, BlockFields
    <3>2. b[i + k].left >= w.blocks[i].left /\ b[j + k].left >= w.blocks[j].left
      BY <2>1
    <3> QED BY <3>1, <3>2, SMTT(30)
  <2>3. q.length > MAX_QUEUED_OUTPUT
    BY <1>0, <1>12
  <2>4. i + k = j + k
    BY <1>3, <2>1, <2>2, <2>3
  <2> QED BY <1>0, <2>4
<1>14. w \in Queues
  BY <1>0, <1>1, <1>2, <1>12 DEF Queues
<1>15. Len(w.printed) + Len(w.blocks) + w.reported + w.flushed = n
  BY <1>0, <1>1, <1>2, <1>3
<1> QED BY <1>7, <1>8, <1>9, <1>10, <1>11, <1>13, <1>14, <1>15 DEF QueueOK, w
(* So does a flush of the first k blocks, which are not printed. *)
LEMMA FlushedOK ==
  ASSUME NEW n \in Nat, NEW q, QueueOK(q, n), NEW k \in 0 .. Len(q.blocks)
  PROVE  QueueOK(Flushed(q, k), n) /\ Flushed(q, k).length = q.length - Left(q.blocks)[k]
<1> DEFINE b == q.blocks
           take == [notice |-> TRUE, whole |-> k, part |-> 0]
           w == Written(q, take)
           r == SubSeq(b, k + 1, Len(b))
           f == Flushed(q, k)
<1>0. /\ q \in Queues /\ b \in Seq(Blocks) /\ k \in 0 .. Len(b) /\ Len(b) \in Nat
      /\ take.whole = k /\ take.part = 0
  BY DEF QueueOK, Queues
<1>1. QueueOK(w, n)
  <2>1. k < Len(b) => 0 <= b[k + 1].left
    <3>1. k < Len(b) => k + 1 \in 1 .. Len(b)
      BY <1>0
    <3>2. k < Len(b) => b[k + 1].left \in Nat
      BY <1>0, <3>1, BlockFields
    <3> QED BY <3>2
  <2> HIDE DEF take
  <2> QED BY <1>0, <2>1, WrittenOK
<1>2. r \in Seq(Blocks) /\ Len(r) = Len(b) - k
  <2>1. \A i \in k + 1 .. Len(b) : b[i] \in Blocks
    BY <1>0
  <2>2. /\ r \in Seq(Blocks)
        /\ Len(r) = IF k + 1 <= Len(b) THEN Len(b) - (k + 1) + 1 ELSE 0
    <3> HIDE DEF b
    <3> QED BY <1>0, <2>1, SubSeqProperties
  <2> HIDE DEF r, b
  <2> QED BY <1>0, <2>2
<1> HIDE DEF r
<1>3. w.blocks = r
  <2> DEFINE s == [i \in DOMAIN r |-> IF i = 1 THEN [r[i] EXCEPT !.left = @ - 0] ELSE r[i]]
  <2>1. w.blocks = s
    BY <1>0 DEF Written, r, Queues
  <2>2. ASSUME NEW i \in 1 .. Len(r) PROVE s[i] = r[i]
    <3>1. r[i] \in Blocks /\ r[i].left \in Nat
      BY <1>2, BlockFields
    <3>2. r[i].left - 0 = r[i].left
      BY <3>1
    <3>3. [r[i] EXCEPT !.left = @ - 0] = r[i]
      BY <3>1, <3>2 DEF Blocks
    <3> QED BY <1>2, <3>3
  <2>3. DOMAIN r = 1 .. Len(r) /\ DOMAIN s = DOMAIN r
    BY <1>2
  <2>4. r = [i \in DOMAIN r |-> r[i]] /\ s = [i \in DOMAIN r |-> s[i]]
    BY <1>2
  <2> HIDE DEF s
  <2> QED BY <2>1, <2>2, <2>3, <2>4
<1>4. /\ w.printed = q.printed \o [i \in 1 .. k |-> b[i].line]
      /\ w.length = q.length - Left(b)[k] - 0 /\ w.flushed = q.flushed /\ w.reported = q.reported
  BY <1>0 DEF Written, Queues
<1>5. /\ f.blocks = r /\ f.printed = q.printed /\ f.length = q.length - Left(b)[k]
      /\ f.flushed = q.flushed + k /\ f.reported = q.reported
      /\ f = [q EXCEPT !.blocks = r, !.length = q.length - Left(b)[k], !.flushed = q.flushed + k]
  <2>1. f = [q EXCEPT !.blocks = r, !.length = q.length - Left(b)[k], !.flushed = q.flushed + k]
    BY <1>0 DEF Flushed, Queues, r
  <2> HIDE DEF f, b
  <2> QED BY <1>0, <2>1 DEF Queues
<1>6. /\ q.printed \in Seq(Nat) /\ q.length \in Nat /\ q.flushed \in Nat /\ q.reported \in Nat
      /\ Left(b)[k] \in Nat /\ Len(q.printed) \in Nat
      /\ Len(q.printed) + Len(b) + q.reported + q.flushed = n
  BY <1>0, LeftType DEF Queues, QueueOK
<1> DEFINE p == q.printed
           m == [i \in 1 .. k |-> b[i].line]
<1>7. m \in Seq(Nat) /\ Len(m) = k
  <2>1. \A i \in 1 .. k : b[i].line \in Nat
    BY <1>0, BlockFields
  <2> HIDE DEF b
  <2> QED BY <1>0, <2>1
<1>8. /\ Len(w.printed) = Len(p) + k
      /\ \A i \in 1 .. Len(p) : i \in 1 .. Len(w.printed) /\ w.printed[i] = p[i]
  <2> HIDE DEF m, p
  <2>1. w.printed = p \o m /\ p \in Seq(Nat)
    BY <1>4, <1>6 DEF p, m
  <2>2. /\ Len(w.printed) = Len(p) + k
        /\ \A i \in 1 .. Len(p) + k : w.printed[i] = IF i <= Len(p) THEN p[i] ELSE m[i - Len(p)]
    <3>1. /\ Len(p \o m) = Len(p) + Len(m)
          /\ \A i \in 1 .. Len(p) + Len(m) :
               (p \o m)[i] = IF i <= Len(p) THEN p[i] ELSE m[i - Len(p)]
      BY <1>7, <2>1, ConcatProperties
    <3> HIDE DEF w
    <3> QED BY <1>7, <2>1, <3>1, Zenon
  <2>3. Len(p) \in Nat /\ \A i \in 1 .. Len(p) : i \in 1 .. Len(p) + k /\ i <= Len(p)
    BY <1>0, <1>6 DEF p
  <2> HIDE DEF w
  <2> QED BY <2>2, <2>3
<1>9. /\ w \in Queues
      /\ \A i, j \in DOMAIN w.printed : i < j => w.printed[i] < w.printed[j]
      /\ \A i, j \in DOMAIN r : i < j => r[i].line < r[j].line
      /\ \A i \in DOMAIN w.printed, j \in DOMAIN r : w.printed[i] < r[j].line
      /\ \A i \in DOMAIN w.printed : w.printed[i] <= n
      /\ \A j \in DOMAIN r : r[j].line <= n
      /\ w.length = Left(r)[Len(r)]
      /\ w.length > MAX_QUEUED_OUTPUT =>
           \A i, j \in DOMAIN r : r[i].left > 0 /\ r[j].left > 0 => i = j
  <2> HIDE DEF w
  <2> QED BY <1>1, <1>3 DEF QueueOK
<1>10. w.length = f.length
  <2> HIDE DEF w, f, b
  <2>1. w.length = q.length - Left(b)[k] - 0
    BY <1>4 DEF w
  <2>2. f.length = q.length - Left(b)[k]
    BY <1>5 DEF f
  <2> QED BY <1>6, <2>1, <2>2
<1>11. DOMAIN p = 1 .. Len(p) /\ DOMAIN w.printed = 1 .. Len(w.printed)
  <2>1. w.printed \in Seq(Nat) /\ p \in Seq(Nat)
    BY <1>6, <1>9 DEF Queues
  <2> HIDE DEF w, p
  <2> QED BY <2>1
<1> HIDE DEF w, f, b, m
<1>12. f \in Queues
  <2>1. f.length \in Nat /\ q.flushed + k \in Nat
    <3>1. w.length \in Nat
      BY <1>9 DEF Queues
    <3>2. q.flushed + k \in Nat
      BY <1>0, <1>6
    <3> QED BY <1>10, <3>1, <3>2
  <2>2. f = [q EXCEPT !.blocks = r, !.length = f.length, !.flushed = q.flushed + k]
    BY <1>5
  <2> QED BY <1>0, <1>2, <2>1, <2>2 DEF Queues
<1>13. Len(f.printed) + Len(f.blocks) + f.reported + f.flushed = n
  <2>1. /\ Len(f.printed) = Len(q.printed) /\ Len(f.blocks) = Len(b) - k
        /\ f.reported = q.reported /\ f.flushed = q.flushed + k
    BY <1>2, <1>5
  <2> QED BY <1>0, <1>6, <2>1
<1>14. /\ \A i, j \in DOMAIN f.printed : i < j => f.printed[i] < f.printed[j]
       /\ \A i \in DOMAIN f.printed, j \in DOMAIN f.blocks : f.printed[i] < f.blocks[j].line
       /\ \A i \in DOMAIN f.printed : f.printed[i] <= n
  BY <1>5, <1>8, <1>9, <1>11, ZenonT(90)
<1>15. QueueOK(f, n)
  BY <1>5, <1>9, <1>10, <1>12, <1>13, <1>14 DEF QueueOK
<1> QED BY <1>5, <1>15 DEF f, b

(* A line that is accepted goes behind all others, and makes the queue longer *)
(* than it may be only when no other byte is in it.                           *)
LEMMA AcceptOK ==
  ASSUME NEW n \in Nat, NEW q, QueueOK(q, n), NEW length \in Nat,
         q.length = 0 \/ q.length + length <= MAX_QUEUED_OUTPUT
  PROVE  QueueOK([q EXCEPT !.blocks = Append(@, [line |-> n + 1, left |-> length]),
                           !.length = @ + length], n + 1)
<1> DEFINE b == q.blocks
           e == [line |-> n + 1, left |-> length]
           a == Append(b, e)
           p == q.printed
           f == [q EXCEPT !.blocks = Append(@, e), !.length = @ + length]
<1>0. /\ q \in Queues /\ b \in Seq(Blocks) /\ p \in Seq(Nat) /\ e \in Blocks
      /\ Len(b) \in Nat /\ MAX_QUEUED_OUTPUT \in Nat
      /\ DOMAIN b = 1 .. Len(b) /\ DOMAIN p = 1 .. Len(p)
      /\ q.length \in Nat /\ q.flushed \in Nat /\ q.reported \in Nat
      /\ e.line = n + 1 /\ e.left = length
  BY NetworkAssumption DEF QueueOK, Queues, Blocks
<1>1. /\ f.blocks = a /\ f.printed = p /\ f.length = q.length + length
      /\ f.flushed = q.flushed /\ f.reported = q.reported
      /\ f = [q EXCEPT !.blocks = a, !.length = q.length + length]
  <2>1. f = [q EXCEPT !.blocks = a, !.length = q.length + length]
    BY <1>0 DEF Queues
  <2> HIDE DEF f, a
  <2> QED BY <1>0, <2>1 DEF Queues
<1>2. /\ \A i, j \in 1 .. Len(p) : i < j => p[i] < p[j]
      /\ \A i, j \in 1 .. Len(b) : i < j => b[i].line < b[j].line
      /\ \A i \in 1 .. Len(p), j \in 1 .. Len(b) : p[i] < b[j].line
      /\ \A i \in 1 .. Len(p) : p[i] <= n
      /\ \A j \in 1 .. Len(b) : b[j].line <= n
      /\ q.length = Left(b)[Len(b)]
      /\ Len(p) + Len(b) + q.reported + q.flushed = n
  BY <1>0 DEF QueueOK
<1> HIDE DEF f, b, e, p
<1>3. /\ a \in Seq(Blocks) /\ Len(a) = Len(b) + 1 /\ DOMAIN a = 1 .. Len(b) + 1
      /\ a[Len(b) + 1] = e /\ \A i \in 1 .. Len(b) : a[i] = b[i]
  BY <1>0
<1>4. Left(a)[Len(a)] = q.length + length
  BY <1>0, <1>2, <1>3, LeftAppend
<1> HIDE DEF a
<1>5. \A i \in DOMAIN a : \/ i \in 1 .. Len(b) /\ a[i] = b[i]
                          \/ i = Len(b) + 1 /\ a[i] = e
  BY <1>0, <1>3
<1>6. \A i, j \in DOMAIN a : i < j => a[i].line < a[j].line
  <2> SUFFICES ASSUME NEW i \in DOMAIN a, NEW j \in DOMAIN a, i < j PROVE a[i].line < a[j].line
    OBVIOUS
  <2>1. i \in 1 .. Len(b) /\ a[i] = b[i] /\ b[i].line \in Nat
    <3>1. i \in 1 .. Len(b)
      BY <1>0, <1>3
    <3> QED BY <1>0, <1>3, <3>1, BlockFields
  <2>2. CASE j \in 1 .. Len(b) /\ a[j] = b[j]
    BY <1>2, <2>1, <2>2
  <2>3. CASE j = Len(b) + 1 /\ a[j] = e
    <3>1. b[i].line <= n /\ n < n + 1
      BY <1>2, <2>1
    <3> QED BY <1>0, <2>1, <2>3, <3>1
  <2> QED BY <1>5, <2>2, <2>3
<1>7. \A i \in DOMAIN p, j \in DOMAIN a : p[i] < a[j].line
  <2> SUFFICES ASSUME NEW i \in DOMAIN p, NEW j \in DOMAIN a PROVE p[i] < a[j].line
    OBVIOUS
  <2>1. CASE j \in 1 .. Len(b) /\ a[j] = b[j]
    BY <1>0, <1>2, <2>1
  <2>2. CASE j = Len(b) + 1 /\ a[j] = e
    <3>1. p[i] <= n /\ p[i] \in Nat
      BY <1>0, <1>2, SMTT(30)
    <3> QED BY <1>0, <2>2, <3>1
  <2> QED BY <1>5, <2>1, <2>2
<1>8. /\ \A i \in DOMAIN p : p[i] <= n + 1
      /\ \A j \in DOMAIN a : a[j].line <= n + 1
  <2>1. \A i \in DOMAIN p : p[i] \in Nat /\ p[i] <= n
    BY <1>0, <1>2, SMTT(30)
  <2>2. \A j \in 1 .. Len(b) : b[j].line \in Nat /\ b[j].line <= n
    BY <1>0, <1>2, BlockFields
  <2>3. e.line <= n + 1
    BY <1>0
  <2>4. \A j \in DOMAIN a : a[j].line <= n + 1
    <3> TAKE j \in DOMAIN a
    <3>1. CASE j \in 1 .. Len(b) /\ a[j] = b[j]
      BY <2>2, <3>1
    <3>2. CASE j = Len(b) + 1 /\ a[j] = e
      BY <2>3, <3>2
    <3> QED BY <1>5, <3>1, <3>2
  <2> QED BY <2>1, <2>4
<1>9. q.length + length > MAX_QUEUED_OUTPUT =>
        \A i, j \in DOMAIN a : a[i].left > 0 /\ a[j].left > 0 => i = j
  <2> SUFFICES ASSUME q.length = 0 PROVE \A i \in DOMAIN a : a[i].left > 0 => i = Len(b) + 1
    <3>1. q.length + length > MAX_QUEUED_OUTPUT => q.length = 0
      BY <1>0
    <3> QED BY <3>1
  <2>1. \A i \in 1 .. Len(b) : b[i].left = 0
    BY <1>0, <1>2, LeftNothing
  <2> QED BY <1>5, <2>1
<1>10. f \in Queues
  <2>1. f = [q EXCEPT !.blocks = a, !.length = q.length + length] /\ q.length + length \in Nat
    BY <1>0, <1>1
  <2>2. a \in Seq(Blocks)
    BY <1>3
  <2> QED BY <1>0, <2>1, <2>2 DEF Queues
<1>11. Len(f.printed) + Len(f.blocks) + f.reported + f.flushed = n + 1
  <2>1. Len(p) \in Nat
    BY <1>0
  <2> QED BY <1>0, <1>1, <1>2, <1>3, <2>1, SMTT(30)
<1>12. QueueOK(f, n + 1)
  <2>1. \A i, j \in DOMAIN p : i < j => p[i] < p[j]
    BY <1>0, <1>2
  <2> QED BY <1>1, <1>4, <1>6, <1>7, <1>8, <1>9, <1>10, <1>11, <2>1 DEF QueueOK
<1> QED BY <1>12 DEF f, e
-----------------------------------------------------------------------------
(* While the connection is open its queue is as it should be, and a loss that *)
(* was not reported does not wait on an empty queue.                          *)
NetworkInv ==
  /\ taken \in Nat
  /\ open => QueueOK(Queue, taken) /\ (output_lines_flushed > 0 => output # <<>>)

(* push_output, of the queue as it is. *)
LEMMA PushOK ==
  ASSUME NetworkInv, open, NEW take \in Takes
  PROVE  LET q == push_output(Queue, take)
         IN /\ QueueOK(q, taken)
            /\ q.flushed = 0 \/ q = Queue
<1> DEFINE q0 == [Queue EXCEPT !.reported = @ + Queue.flushed, !.flushed = 0]
<1>0. /\ QueueOK(Queue, taken) /\ taken \in Nat /\ Queue.blocks = output
      /\ Queue.flushed = output_lines_flushed /\ Queue.reported = reported
      /\ Queue.length = output_length /\ Queue.printed = printed
  BY DEF NetworkInv, Queue
<1>1. CASE take.notice
  <2>1. QueueOK(q0, taken) /\ q0.blocks = output /\ q0.flushed = 0
    <3>1. /\ Queue \in Queues /\ reported \in Nat /\ output_lines_flushed \in Nat
          /\ Len(printed) \in Nat /\ Len(output) \in Nat
          /\ Len(printed) + Len(output) + reported + output_lines_flushed = taken
      BY <1>0 DEF QueueOK, Queues
    <3>2. q0 = [Queue EXCEPT !.reported = reported + output_lines_flushed, !.flushed = 0]
      BY <1>0, <3>1 DEF Queues
    <3> HIDE DEF q0
    <3>3. /\ q0.blocks = output /\ q0.length = output_length /\ q0.printed = printed
          /\ q0.reported = reported + output_lines_flushed /\ q0.flushed = 0 /\ q0 \in Queues
      <4>1. reported + output_lines_flushed \in Nat
        BY <3>1
      <4>2. q0 \in Queues
        BY <3>1, <3>2, <4>1 DEF Queues
      <4>3. /\ q0.blocks = Queue.blocks /\ q0.length = Queue.length
            /\ q0.printed = Queue.printed /\ q0.flushed = 0
            /\ q0.reported = reported + output_lines_flushed
        BY <3>1, <3>2 DEF Queues
      <4> QED BY <1>0, <4>2, <4>3
    <3>4. Len(q0.printed) + Len(q0.blocks) + q0.reported + q0.flushed = taken
      BY <3>1, <3>3
    <3> QED BY <1>0, <3>3, <3>4 DEF QueueOK
  <2>2. /\ take.whole \in 0 .. Len(output) /\ take.part \in Nat
        /\ take.whole = Len(output) => take.part = 0
        /\ take.whole < Len(output) => take.part < output[take.whole + 1].left
    <3>1. output \in Seq(Blocks) /\ Len(output) \in Nat
      BY <1>0 DEF QueueOK, Queues
    <3>2. \A i \in DOMAIN output : output[i].left \in Nat
      BY <3>1, BlockFields
    <3>3. /\ take.whole \in 0 .. Len(output)
          /\ take.part \in {0} \cup UNION {0 .. output[i].left - 1 : i \in DOMAIN output}
          /\ IF take.whole = Len(output) THEN take.part = 0
             ELSE take.part < output[take.whole + 1].left
      BY <1>1 DEF Takes
    <3>4. take.part \in Nat
      BY <3>2, <3>3
    <3> QED BY <3>1, <3>3, <3>4
  <2>3. push_output(Queue, take) = Written(q0, take)
    BY <1>1 DEF push_output
  <2> HIDE DEF q0
  <2>4. take.whole < Len(output) => take.part <= output[take.whole + 1].left
    <3>1. output \in Seq(Blocks) /\ Len(output) \in Nat
      BY <1>0 DEF QueueOK, Queues
    <3>2. take.whole < Len(output) => output[take.whole + 1].left \in Nat
      <4>1. take.whole < Len(output) => take.whole + 1 \in 1 .. Len(output)
        BY <2>2, <3>1
      <4> QED BY <3>1, <4>1, BlockFields
    <3> QED BY <2>2, <3>2
  <2>5. QueueOK(Written(q0, take), taken)
    BY <1>0, <2>1, <2>2, <2>4, WrittenOK
  <2>6. Written(q0, take).flushed = 0
    <3>1. q0 \in Queues
      BY <2>1 DEF QueueOK
    <3> QED BY <2>1, <3>1 DEF Written, Queues
  <2> QED BY <2>3, <2>5, <2>6
<1>2. CASE ~take.notice
  BY <1>0, <1>2 DEF push_output
<1> QED BY <1>1, <1>2

(* A line goes out, or is refused. *)
LEMMA EnqueueOK ==
  ASSUME NetworkInv, NEW length \in Lengths, NEW flush_ok \in BOOLEAN,
         enqueue_output(length, flush_ok)
  PROVE  NetworkInv'
<1>0. /\ open /\ open' = open /\ taken \in Nat /\ length \in Nat /\ MAX_QUEUED_OUTPUT \in Nat
      /\ QueueOK(Queue, taken) /\ (output_lines_flushed > 0 => output # <<>>)
      /\ Queue.blocks = output /\ Queue.flushed = output_lines_flushed
      /\ Queue.length = output_length /\ Queue.length \in Nat
  BY NetworkAssumption DEF enqueue_output, NetworkInv, Queue, QueueOK, Queues
<1>1. ASSUME NEW q, SetQueue(q), q \in Queues
      PROVE  Queue' = q /\ output' = q.blocks /\ output_lines_flushed' = q.flushed
  <2>1. Queue' = [blocks |-> q.blocks, length |-> q.length, flushed |-> q.flushed,
                 printed |-> q.printed, reported |-> q.reported]
    BY <1>1 DEF SetQueue, Queue
  <2> QED BY <1>1, <2>1 DEF SetQueue, Queues
<1>2. ASSUME NEW q, QueueOK(q, taken), Accept(q, length),
             q.length = 0 \/ q.length + length <= MAX_QUEUED_OUTPUT
      PROVE  NetworkInv'
  <2> DEFINE f == [q EXCEPT !.blocks = Append(@, [line |-> taken + 1, left |-> length]),
                            !.length = @ + length]
  <2>1. QueueOK(f, taken + 1)
    BY <1>0, <1>2, AcceptOK
  <2>2. SetQueue(f) /\ taken' = taken + 1
    BY <1>2 DEF Accept
  <2>3. q \in Queues /\ q.blocks \in Seq(Blocks)
    BY <1>2 DEF QueueOK, Queues
  <2>4. f.blocks = Append(q.blocks, [line |-> taken + 1, left |-> length])
    BY <2>3 DEF Queues
  <2>5. f.blocks # <<>>
    BY <2>3, <2>4
  <2> HIDE DEF f
  <2>6. Queue' = f /\ output' = f.blocks
    BY <1>1, <2>1, <2>2 DEF QueueOK
  <2> QED BY <1>0, <2>1, <2>2, <2>5, <2>6 DEF NetworkInv
<1>3. CASE output_length # 0 /\ output_length + length > MAX_QUEUED_OUTPUT
  <2>1. PICK take \in Takes :
          LET q == push_output(Queue, take)
              excess == q.length + length - MAX_QUEUED_OUTPUT
          IN \/ /\ excess > 0 /\ ~flush_ok
                /\ SetQueue(q) /\ UNCHANGED taken
             \/ /\ excess <= 0 \/ flush_ok
                /\ \E k \in 0 .. Len(q.blocks) :
                     MakesRoom(q.blocks, excess, k) /\ Accept(Flushed(q, k), length)
    BY <1>3 DEF enqueue_output
  <2> DEFINE q == push_output(Queue, take)
             excess == q.length + length - MAX_QUEUED_OUTPUT
  <2>2. QueueOK(q, taken) /\ (q.flushed = 0 \/ q = Queue)
    BY <1>0, PushOK
  <2> HIDE DEF q
  <2>3. q \in Queues /\ q.length \in Nat /\ q.length = Left(q.blocks)[Len(q.blocks)]
        /\ q.blocks \in Seq(Blocks)
    BY <2>2 DEF QueueOK, Queues
  <2>4. CASE SetQueue(q) /\ UNCHANGED taken
    <3>1. Queue' = q /\ output' = q.blocks /\ output_lines_flushed' = q.flushed
      BY <1>1, <2>3, <2>4
    <3>2. output_lines_flushed' > 0 => output' # <<>>
      BY <1>0, <2>2, <3>1
    <3> QED BY <1>0, <2>2, <2>4, <3>1, <3>2 DEF NetworkInv
  <2>5. CASE \E k \in 0 .. Len(q.blocks) :
               MakesRoom(q.blocks, excess, k) /\ Accept(Flushed(q, k), length)
    <3>1. PICK k \in 0 .. Len(q.blocks) :
                 MakesRoom(q.blocks, excess, k) /\ Accept(Flushed(q, k), length)
      BY <2>5
    <3>2. QueueOK(Flushed(q, k), taken) /\ Flushed(q, k).length = q.length - Left(q.blocks)[k]
      BY <1>0, <2>2, FlushedOK
    <3>3. k = Len(q.blocks) \/ Left(q.blocks)[k] >= excess
      BY <3>1 DEF MakesRoom
    <3>4. Left(q.blocks)[k] \in Nat
      BY <2>3, LeftType
    <3>5. Flushed(q, k).length = 0 \/ Flushed(q, k).length + length <= MAX_QUEUED_OUTPUT
      BY <1>0, <2>3, <3>2, <3>3, <3>4
    <3> QED BY <1>2, <3>1, <3>2, <3>5
  <2> QED BY <2>1, <2>4, <2>5 DEF q
<1>4. CASE ~(output_length # 0 /\ output_length + length > MAX_QUEUED_OUTPUT)
  <2>1. Accept(Queue, length)
    BY <1>4 DEF enqueue_output
  <2>2. Queue.length = 0 \/ Queue.length + length <= MAX_QUEUED_OUTPUT
    BY <1>0, <1>4
  <2> QED BY <1>0, <1>2, <2>1, <2>2
<1> QED BY <1>3, <1>4

(* Nothing is queued for a new connection. *)
LEMMA NetworkInvInit == InitNetwork => NetworkInv
<1> SUFFICES ASSUME InitNetwork PROVE NetworkInv
  OBVIOUS
<1>1. Queue = [blocks |-> <<>>, length |-> 0, flushed |-> 0, printed |-> <<>>, reported |-> 0]
  BY DEF InitNetwork, Queue
<1>2. Left(<<>>)[0] = 0
  <2>1. <<>> \in Seq(Blocks)
    OBVIOUS
  <2> QED BY <2>1, LeftIs
<1>3. QueueOK(Queue, 0)
  BY <1>1, <1>2, NetworkAssumption DEF QueueOK, Queues
<1> QED BY <1>3 DEF InitNetwork, NetworkInv

(* Every step keeps the account. *)
LEMMA NetworkInvNext == NetworkInv /\ [NextInput \/ NextOutput]_net_vars => NetworkInv'
<1> SUFFICES ASSUME NetworkInv, [NextInput \/ NextOutput]_net_vars PROVE NetworkInv'
  OBVIOUS
<1>1. ASSUME UNCHANGED out_vars, UNCHANGED open PROVE NetworkInv'
  BY <1>1 DEF NetworkInv, out_vars, Queue
<1>2. CASE NextInput
  BY <1>1, <1>2 DEF NextInput, ClientTypes, pull_input, SuspendInput, SetBinary
<1>3. ASSUME NEW length \in Lengths, NEW flush_ok \in BOOLEAN, enqueue_output(length, flush_ok)
      PROVE  NetworkInv'
  BY <1>3, EnqueueOK
<1>4. ASSUME NEW take \in Takes, WriteReady(take) PROVE NetworkInv'
  <2> DEFINE q == push_output(Queue, take)
  <2>1. /\ open /\ open' = open /\ SetQueue(q) /\ taken' = taken /\ taken \in Nat
        /\ Queue.flushed = output_lines_flushed /\ Queue.blocks = output
    BY <1>4 DEF WriteReady, NetworkInv, Queue
  <2>2. QueueOK(q, taken) /\ (q.flushed = 0 \/ q = Queue)
    BY <2>1, PushOK
  <2> HIDE DEF q
  <2>3. q \in Queues
    BY <2>2 DEF QueueOK
  <2>4. Queue' = q /\ output' = q.blocks /\ output_lines_flushed' = q.flushed
    <3>1. Queue' = [blocks |-> q.blocks, length |-> q.length, flushed |-> q.flushed,
                   printed |-> q.printed, reported |-> q.reported]
      BY <2>1 DEF SetQueue, Queue
    <3> QED BY <2>1, <2>3, <3>1 DEF SetQueue, Queues
  <2>5. output_lines_flushed' > 0 => output' # <<>>
    BY <2>1, <2>2, <2>4 DEF NetworkInv
  <2> QED BY <2>1, <2>2, <2>4, <2>5 DEF NetworkInv
<1>5. ASSUME NEW take \in Takes, close_nhandle(take) PROVE NetworkInv'
  BY <1>5 DEF close_nhandle, NetworkInv
<1>6. CASE UNCHANGED net_vars
  BY <1>1, <1>6 DEF net_vars
<1> QED BY <1>2, <1>3, <1>4, <1>5, <1>6 DEF NextOutput

(* And the account is what the property asks for. *)
LEMMA NetworkInvAccounts == NetworkInv => OutputAccounted
<1> SUFFICES ASSUME NetworkInv, open PROVE OutputAccounted
  BY DEF OutputAccounted
<1>1. QueueOK(Queue, taken) /\ (output_lines_flushed > 0 => output # <<>>)
  BY DEF NetworkInv
<1>2. /\ Queue.blocks = output /\ Queue.flushed = output_lines_flushed /\ Queue.reported = reported
      /\ Queue.length = output_length /\ Queue.printed = printed
  BY DEF Queue
<1>3. /\ output \in Seq(Blocks) /\ printed \in Seq(Nat)
      /\ Len(output) \in Nat /\ Len(printed) \in Nat
      /\ DOMAIN output = 1 .. Len(output) /\ DOMAIN printed = 1 .. Len(printed)
  BY <1>1, <1>2 DEF QueueOK, Queues
<1> DEFINE o == [i \in DOMAIN output |-> output[i].line]
           order == printed \o o
<1>4. /\ o \in Seq(Nat) /\ Len(o) = Len(output)
      /\ \A i \in 1 .. Len(output) : o[i] = output[i].line
  <2>1. \A i \in 1 .. Len(output) : output[i].line \in Nat
    BY <1>3, BlockFields
  <2> QED BY <1>3, <2>1
<1> HIDE DEF o
<1>5. /\ Len(order) = Len(printed) + Len(output)
      /\ \A i \in 1 .. Len(printed) + Len(output) :
           order[i] = IF i <= Len(printed) THEN printed[i] ELSE o[i - Len(printed)]
  <2>1. /\ Len(order) = Len(printed) + Len(o)
        /\ \A i \in 1 .. Len(printed) + Len(o) :
             order[i] = IF i <= Len(printed) THEN printed[i] ELSE o[i - Len(printed)]
    BY <1>3, <1>4, ConcatProperties
  <2> HIDE DEF order
  <2> QED BY <1>4, <2>1, Zenon
<1> HIDE DEF order
<1>6. ASSUME NEW i \in 1 .. Len(order) - 1 PROVE order[i] < order[i + 1]
  <2>1. i \in 1 .. Len(printed) + Len(output) /\ i + 1 \in 1 .. Len(printed) + Len(output)
    BY <1>3, <1>5
  <2>2. CASE i + 1 <= Len(printed)
    <3>1. i \in 1 .. Len(printed) /\ i + 1 \in 1 .. Len(printed) /\ i < i + 1 /\ i <= Len(printed)
      BY <1>3, <2>2
    <3>2. order[i] = printed[i] /\ order[i + 1] = printed[i + 1]
      BY <1>5, <2>1, <2>2, <3>1
    <3> QED BY <1>1, <1>2, <1>3, <3>1, <3>2 DEF QueueOK
  <2>3. CASE i <= Len(printed) /\ ~(i + 1 <= Len(printed))
    <3>1. i \in 1 .. Len(printed) /\ (i + 1) - Len(printed) \in 1 .. Len(output)
      BY <1>3, <2>1, <2>3
    <3>2. order[i] = printed[i] /\ order[i + 1] = output[(i + 1) - Len(printed)].line
      BY <1>4, <1>5, <2>1, <2>3, <3>1
    <3> QED BY <1>1, <1>2, <1>3, <3>1, <3>2 DEF QueueOK
  <2>4. CASE ~(i <= Len(printed))
    <3>1. /\ i - Len(printed) \in 1 .. Len(output) /\ (i + 1) - Len(printed) \in 1 .. Len(output)
          /\ i - Len(printed) < (i + 1) - Len(printed) /\ ~(i + 1 <= Len(printed))
      BY <1>3, <2>1, <2>4
    <3>2. /\ order[i] = output[i - Len(printed)].line
          /\ order[i + 1] = output[(i + 1) - Len(printed)].line
      BY <1>4, <1>5, <2>1, <2>4, <3>1
    <3> QED BY <1>1, <1>2, <1>3, <3>1, <3>2 DEF QueueOK
  <2> QED BY <2>2, <2>3, <2>4
<1>7. /\ Len(printed) + Len(output) + reported + output_lines_flushed = taken
      /\ output_length = Left(output)[Len(output)]
      /\ output_length > MAX_QUEUED_OUTPUT =>
           \A i, j \in DOMAIN output : output[i].left > 0 /\ output[j].left > 0 => i = j
  BY <1>1, <1>2 DEF QueueOK
<1> QED BY <1>1, <1>6, <1>7 DEF OutputAccounted, order, o

(* However much push_output() gets rid of and whenever, and however much      *)
(* enqueue_output() flushes: each line accepted is printed once and in its   *)
(* order, or waits, or is counted among those that were lost; and the queue  *)
(* holds what its length says.                                               *)
THEOREM OutputIsAccounted == SpecNetwork => []OutputAccounted
  BY NetworkInvInit, NetworkInvNext, NetworkInvAccounts, PTL DEF SpecNetwork
-----------------------------------------------------------------------------
(* Input.  The loop of pull_input over the bytes of one read, and then over *)
(* those of the next, does what it would do over both at once.              *)

(* Where the loop is. *)
IsTurn(s) ==
  /\ s.at \in Nat \ {0}
  /\ s = [at |-> s.at, cr |-> s.cr, input |-> s.input, lines |-> s.lines]

(* The same, in a buffer that has n bytes more before. *)
Shift(s, n) == [at |-> s.at + n, cr |-> s.cr, input |-> s.input, lines |-> s.lines]

(* The turns are given by what each does to the one before. *)
LEMMA TurnsAre ==
  ASSUME NEW S, NEW b \in Seq(S), NEW s
  PROVE  /\ Turns(b, s)[0] = s
         /\ \A i \in 1 .. Len(b) : Turns(b, s)[i] = Pull(b, Turns(b, s)[i - 1])
<1> DEFINE Runs(f, k) == /\ f = [i \in 0 .. k |-> f[i]] /\ f[0] = s
                         /\ \A i \in 1 .. k : f[i] = Pull(b, f[i - 1])
           T == {k \in Nat : \E f : Runs(f, k)}
<1>1. 0 \in T
  <2>1. Runs([i \in 0 .. 0 |-> s], 0)
    OBVIOUS
  <2> HIDE DEF Runs
  <2> QED BY <2>1
<1>2. ASSUME NEW k \in Nat, k \in T PROVE k + 1 \in T
  <2>1. PICK f : Runs(f, k)
    <3> HIDE DEF Runs
    <3> QED BY <1>2
  <2> DEFINE g == [i \in 0 .. k + 1 |-> IF i = k + 1 THEN Pull(b, f[k]) ELSE f[i]]
  <2>2. g = [i \in 0 .. k + 1 |-> g[i]] /\ g[0] = s
    BY <2>1
  <2>3. ASSUME NEW i \in 1 .. k + 1 PROVE g[i] = Pull(b, g[i - 1])
    <3>1. g[i - 1] = f[i - 1] /\ (i # k + 1 => i \in 1 .. k /\ g[i] = f[i])
      OBVIOUS
    <3>2. i = k + 1 => g[i] = Pull(b, f[i - 1])
      OBVIOUS
    <3> HIDE DEF g
    <3> QED BY <2>1, <3>1, <3>2
  <2>4. Runs(g, k + 1)
    BY <2>2, <2>3
  <2> HIDE DEF Runs, g
  <2> QED BY <2>4
<1>3. PICK f : Runs(f, Len(b))
  <2>1. Len(b) \in T
    <3> HIDE DEF T
    <3> QED BY <1>1, <1>2, Induct
  <2> HIDE DEF Runs
  <2> QED BY <2>1
<1> DEFINE Rule(g) == [i \in 0 .. Len(b) |-> IF i = 0 THEN s ELSE Pull(b, g[i - 1])]
           h == CHOOSE g : g = Rule(g)
<1>4. f = Rule(f)
  <2>1. ASSUME NEW i \in 0 .. Len(b) PROVE f[i] = IF i = 0 THEN s ELSE Pull(b, f[i - 1])
    <3>1. i # 0 => i \in 1 .. Len(b)
      OBVIOUS
    <3> QED BY <1>3, <3>1
  <2>2. f = [i \in 0 .. Len(b) |-> f[i]]
    BY <1>3
  <2> QED BY <2>1, <2>2
<1>5. Turns(b, s) = h
  BY DEF Turns
<1>6. h = Rule(h)
  <2> HIDE DEF Rule
  <2> QED BY <1>4
<1> HIDE DEF h
<1> QED BY <1>5, <1>6

(* A turn takes the loop further, within the buffer, or leaves it. *)
LEMMA PullMoves ==
  ASSUME NEW S, NEW b \in Seq(S), NEW s, IsTurn(s)
  PROVE  /\ IsTurn(Pull(b, s))
         /\ Pull(b, s) = s \/ (Pull(b, s).at > s.at /\ Pull(b, s).at <= Len(b) + 1)
<1> DEFINE stop == s.at > Len(b) \/ s.at + clearance_utf(b[s.at]) - 1 > Len(b)
           g == get_utf(b, s.at)
<1>1. g.size \in 1 .. clearance_utf(b[s.at]) /\ clearance_utf(b[s.at]) \in {1, 2}
  BY DEF get_utf, clearance_utf
<1>2. CASE stop
  <2>1. Pull(b, s) = s
    BY <1>2 DEF Pull
  <2> QED BY <2>1 DEF IsTurn
<1>3. CASE ~stop
  <2> DEFINE p == Pull(b, s)
  <2>1. /\ p.at = s.at + g.size
        /\ p = [at |-> p.at, cr |-> p.cr, input |-> p.input, lines |-> p.lines]
    BY <1>3 DEF Pull
  <2>2. s.at \in Nat \ {0} /\ Len(b) \in Nat
    BY DEF IsTurn
  <2> HIDE DEF p, g
  <2>3. p.at \in Nat \ {0} /\ p.at > s.at /\ p.at <= Len(b) + 1
    BY <1>1, <1>3, <2>1, <2>2
  <2> QED BY <2>1, <2>3 DEF IsTurn, p
<1> QED BY <1>2, <1>3

(* As many turns as there are bytes are the whole loop. *)
LEMMA LoopEnds ==
  ASSUME NEW S, NEW b \in Seq(S), NEW s, IsTurn(s), s.at = 1
  PROVE  LET t == Turns(b, s)
         IN /\ \A i \in 0 .. Len(b) : IsTurn(t[i]) /\ t[i].at <= Len(b) + 1
            /\ Pull(b, PullAll(b, s)) = PullAll(b, s)
<1> DEFINE t == Turns(b, s)
           P(i) == /\ IsTurn(t[i]) /\ t[i].at <= Len(b) + 1
                   /\ Pull(b, t[i]) = t[i] \/ t[i].at >= i + 1
           T == {i \in Nat : i <= Len(b) => P(i)}
<1>0. t[0] = s /\ Len(b) \in Nat /\ \A i \in 1 .. Len(b) : t[i] = Pull(b, t[i - 1])
  BY TurnsAre
<1> HIDE DEF t
<1>1. 0 \in T
  BY <1>0
<1>2. ASSUME NEW i \in Nat, i \in T PROVE i + 1 \in T
  <2> SUFFICES ASSUME i + 1 <= Len(b) PROVE P(i + 1)
    OBVIOUS
  <2>1. t[i + 1] = Pull(b, t[i]) /\ P(i)
    <3>1. i + 1 \in 1 .. Len(b) /\ (i + 1) - 1 = i /\ i <= Len(b)
      BY <1>0
    <3> HIDE DEF P
    <3> QED BY <1>0, <1>2, <3>1
  <2>2. /\ IsTurn(Pull(b, t[i]))
        /\ Pull(b, t[i]) = t[i] \/ (Pull(b, t[i]).at > t[i].at /\ Pull(b, t[i]).at <= Len(b) + 1)
    BY <2>1, PullMoves
  <2>3. CASE Pull(b, t[i]) = t[i]
    BY <2>1, <2>3
  <2>4. CASE /\ Pull(b, t[i]) # t[i] /\ t[i].at >= i + 1
             /\ Pull(b, t[i]).at > t[i].at /\ Pull(b, t[i]).at <= Len(b) + 1
    <3>1. t[i].at \in Nat /\ t[i + 1].at \in Nat
      BY <2>1, <2>2 DEF IsTurn
    <3>2. t[i + 1].at >= (i + 1) + 1
      BY <2>1, <2>4, <3>1
    <3> QED BY <2>1, <2>2, <2>4, <3>2
  <2> QED BY <2>1, <2>2, <2>3, <2>4
<1>3. \A i \in 0 .. Len(b) : P(i)
  <2>1. \A i \in Nat : i \in T
    <3> HIDE DEF T
    <3> QED BY <1>1, <1>2, Induct
  <2> HIDE DEF P
  <2> QED BY <1>0, <2>1
<1>4. Pull(b, t[Len(b)]) = t[Len(b)]
  <2>1. IsTurn(t[Len(b)]) /\ (Pull(b, t[Len(b)]) = t[Len(b)] \/ t[Len(b)].at >= Len(b) + 1)
    BY <1>0, <1>3
  <2>2. t[Len(b)].at >= Len(b) + 1 => Pull(b, t[Len(b)]) = t[Len(b)]
    <3>1. t[Len(b)].at \in Nat
      BY <2>1 DEF IsTurn
    <3>2. t[Len(b)].at >= Len(b) + 1 => t[Len(b)].at > Len(b)
      BY <1>0, <3>1
    <3> QED BY <3>2 DEF Pull
  <2> QED BY <2>1, <2>2
<1> QED BY <1>3, <1>4 DEF PullAll, t
(* A turn looks no further than the buffer it is in: with more bytes behind *)
(* it does the same, ...                                                    *)
LEMMA PullAhead ==
  ASSUME NEW S, NEW b \in Seq(S), NEW c \in Seq(S), NEW s, IsTurn(s), Pull(b, s) # s
  PROVE  Pull(b \o c, s) = Pull(b, s)
<1> DEFINE a == b \o c
<1>1. /\ s.at \in 1 .. Len(b) /\ s.at + clearance_utf(b[s.at]) - 1 <= Len(b)
      /\ clearance_utf(b[s.at]) \in Nat /\ Len(b) \in Nat /\ Len(c) \in Nat
  <2>1. ~(s.at > Len(b) \/ s.at + clearance_utf(b[s.at]) - 1 > Len(b))
    BY DEF Pull
  <2>2. clearance_utf(b[s.at]) \in Nat
    BY DEF clearance_utf
  <2> QED BY <2>1, <2>2 DEF IsTurn
<1>2. Len(a) = Len(b) + Len(c) /\ \A i \in 1 .. Len(b) : a[i] = b[i]
  <2>1. /\ Len(a) = Len(b) + Len(c)
        /\ \A i \in 1 .. Len(b) + Len(c) : a[i] = IF i <= Len(b) THEN b[i] ELSE c[i - Len(b)]
    BY ConcatProperties
  <2>2. \A i \in 1 .. Len(b) : i \in 1 .. Len(b) + Len(c) /\ i <= Len(b)
    BY <1>1
  <2> QED BY <2>1, <2>2
<1> HIDE DEF a
<1>3. a[s.at] = b[s.at] /\ (b[s.at] = "L" => a[s.at + 1] = b[s.at + 1])
  <2>1. b[s.at] = "L" => s.at + 1 \in 1 .. Len(b)
    BY <1>1 DEF clearance_utf
  <2> QED BY <1>1, <1>2, <2>1
<1>4. get_utf(a, s.at) = get_utf(b, s.at) /\ clearance_utf(a[s.at]) = clearance_utf(b[s.at])
  BY <1>3 DEF get_utf
<1>5. /\ ~(s.at > Len(a) \/ s.at + clearance_utf(a[s.at]) - 1 > Len(a))
      /\ ~(s.at > Len(b) \/ s.at + clearance_utf(b[s.at]) - 1 > Len(b))
  BY <1>1, <1>2, <1>4
<1>6. Pull(a, s) = Pull(b, s)
  BY <1>4, <1>5, Zenon DEF Pull
<1> QED BY <1>6 DEF a

(* ... and with more bytes before, what it does to them shifted. *)
LEMMA PullShifted ==
  ASSUME NEW S, NEW b \in Seq(S), NEW c \in Seq(S), NEW s, IsTurn(s)
  PROVE  Pull(b \o c, Shift(s, Len(b))) = Shift(Pull(c, s), Len(b))
<1> DEFINE a == b \o c
           n == Len(b)
           z == Shift(s, n)
<1>1. /\ n \in Nat /\ Len(c) \in Nat /\ s.at \in Nat /\ s.at >= 1 /\ z.at = s.at + n
      /\ z.cr = s.cr /\ z.input = s.input /\ z.lines = s.lines
  BY DEF IsTurn, Shift
<1>2. Len(a) = n + Len(c) /\ \A i \in 1 .. Len(c) : a[i + n] = c[i]
  <2>1. /\ Len(a) = n + Len(c)
        /\ \A i \in 1 .. n + Len(c) : a[i] = IF i <= n THEN b[i] ELSE c[i - n]
    BY ConcatProperties
  <2>2. \A i \in 1 .. Len(c) : i + n \in 1 .. n + Len(c) /\ ~(i + n <= n) /\ (i + n) - n = i
    BY <1>1
  <2> HIDE DEF a, n
  <2> QED BY <2>1, <2>2
<1> HIDE DEF a, n, z
<1>3. CASE s.at > Len(c)
  <2>1. z.at > Len(a)
    BY <1>1, <1>2, <1>3
  <2>2. Pull(a, z) = z /\ Pull(c, s) = s
    BY <1>3, <2>1 DEF Pull
  <2> QED BY <2>2 DEF a, n, z
<1>4. CASE ~(s.at > Len(c))
  <2>1. s.at \in 1 .. Len(c) /\ a[z.at] = c[s.at]
    <3>1. s.at \in 1 .. Len(c)
      BY <1>1, <1>4
    <3> QED BY <1>1, <1>2, <3>1
  <2>2. clearance_utf(a[z.at]) = clearance_utf(c[s.at]) /\ clearance_utf(c[s.at]) \in {1, 2}
    BY <2>1 DEF clearance_utf
  <2>3. CASE s.at + clearance_utf(c[s.at]) - 1 > Len(c)
    <3>1. z.at + clearance_utf(a[z.at]) - 1 > Len(a)
      BY <1>1, <1>2, <2>2, <2>3
    <3>2. Pull(a, z) = z /\ Pull(c, s) = s
      BY <2>3, <3>1 DEF Pull
    <3> QED BY <3>2 DEF a, n, z
  <2>4. CASE ~(s.at + clearance_utf(c[s.at]) - 1 > Len(c))
    <3>1. /\ ~(z.at > Len(a) \/ z.at + clearance_utf(a[z.at]) - 1 > Len(a))
          /\ ~(s.at > Len(c) \/ s.at + clearance_utf(c[s.at]) - 1 > Len(c))
      BY <1>1, <1>2, <1>4, <2>2, <2>4
    <3>2. c[s.at] = "L" => a[z.at + 1] = c[s.at + 1]
      <4>1. c[s.at] = "L" => s.at + 1 \in 1 .. Len(c) /\ (s.at + 1) + n = z.at + 1
        BY <1>1, <2>1, <2>4, SMTT(30) DEF clearance_utf
      <4> QED BY <1>2, <4>1
    <3>3. get_utf(a, z.at) = get_utf(c, s.at)
      BY <2>1, <3>2 DEF get_utf
    <3> DEFINE g == get_utf(c, s.at)
               line == g.rune = "CR" \/ (g.rune = "LF" /\ ~s.cr)
               next(at) ==
                 [at |-> at, cr |-> g.rune = "CR",
                  input |-> CASE g.rune = "BS" -> IF s.input = <<>> THEN <<>> ELSE Front(s.input)
                              [] g.rune \in {"CR", "LF"} -> IF line THEN <<>> ELSE s.input
                              [] OTHER -> Append(s.input, g.rune),
                  lines |-> IF line THEN Append(s.lines, s.input) ELSE s.lines]
    <3>4. Pull(c, s) = next(s.at + g.size)
      BY <3>1, Zenon DEF Pull
    <3>5. Pull(a, z) = next(z.at + g.size)
      BY <1>1, <3>1, <3>3, Zenon DEF Pull
    <3>6. z.at + g.size = (s.at + g.size) + n
      <4>1. g.size \in Nat
        BY DEF get_utf
      <4> HIDE DEF g
      <4> QED BY <1>1, <4>1
    <3>7. Shift(next(s.at + g.size), n) = next((s.at + g.size) + n)
      BY DEF Shift
    <3> HIDE DEF next
    <3> QED BY <3>4, <3>5, <3>6, <3>7 DEF a, n, z
  <2> QED BY <2>3, <2>4
<1> QED BY <1>3, <1>4

(* What the loop does over one read and then the next, when nothing of the  *)
(* first is left over, it does over both.                                   *)
LEMMA PullTwice ==
  ASSUME NEW S, NEW b \in Seq(S), NEW c \in Seq(S), NEW s, IsTurn(s), s.at = 1,
         PullAll(b, s).at = Len(b) + 1
  PROVE  LET w == PullAll(b, s)
         IN PullAll(b \o c, s) = Shift(PullAll(c, At(w.input, w.lines, w.cr)), Len(b))
<1> DEFINE a == b \o c
           n == Len(b)
           k == Len(c)
           w == PullAll(b, s)
           u == At(w.input, w.lines, w.cr)
           v == PullAll(c, u)
           ta == Turns(a, s)
           tb == Turns(b, s)
           tc == Turns(c, u)
<1>1. a \in Seq(S) /\ Len(a) = n + k /\ n \in Nat /\ k \in Nat
  BY ConcatProperties
<1>2. IsTurn(u) /\ u.at = 1
  BY DEF IsTurn, At
<1>3. /\ ta[0] = s /\ \A i \in 1 .. n + k : ta[i] = Pull(a, ta[i - 1])
      /\ tb[0] = s /\ \A i \in 1 .. n : tb[i] = Pull(b, tb[i - 1])
      /\ tc[0] = u /\ \A i \in 1 .. k : tc[i] = Pull(c, tc[i - 1])
  <2> HIDE DEF a, u
  <2> QED BY <1>1, TurnsAre
<1>4. /\ \A i \in 0 .. n : IsTurn(tb[i])
      /\ \A i \in 0 .. k : IsTurn(tc[i])
      /\ Pull(c, v) = v
  <2>1. \A i \in 0 .. n : IsTurn(tb[i])
    BY LoopEnds
  <2> HIDE DEF u
  <2>2. (\A i \in 0 .. k : IsTurn(tc[i])) /\ Pull(c, v) = v
    BY <1>2, LoopEnds
  <2> QED BY <2>1, <2>2
<1>5. w = tb[n] /\ v = tc[k] /\ PullAll(a, s) = ta[n + k]
  BY <1>1 DEF PullAll
<1>6. w = Shift(u, n)
  <2>1. IsTurn(w)
    BY <1>1, <1>4, <1>5
  <2>2. u.at + n = w.at /\ u.cr = w.cr /\ u.input = w.input /\ u.lines = w.lines
    BY <1>1 DEF At
  <2> HIDE DEF w, u
  <2> QED BY <2>1, <2>2 DEF IsTurn, Shift
<1> HIDE DEF ta, tb, tc, u, v, w, a, n, k
<1>7. \E j \in 0 .. n : ta[j] = w
  <2> DEFINE T == {i \in Nat : i <= n => \E j \in 0 .. i : ta[j] = tb[i]}
  <2>1. 0 \in T
    BY <1>3
  <2>2. ASSUME NEW i \in Nat, i \in T PROVE i + 1 \in T
    <3> SUFFICES ASSUME i + 1 <= n PROVE \E j \in 0 .. i + 1 : ta[j] = tb[i + 1]
      OBVIOUS
    <3>1. i <= n /\ i + 1 \in 1 .. n /\ (i + 1) - 1 = i
      BY <1>1
    <3>2. PICK j \in 0 .. i : ta[j] = tb[i]
      BY <2>2, <3>1
    <3>3. tb[i + 1] = Pull(b, tb[i]) /\ IsTurn(tb[i])
      BY <1>3, <1>4, <3>1
    <3>4. CASE Pull(b, tb[i]) = tb[i]
      BY <3>2, <3>3, <3>4
    <3>5. CASE Pull(b, tb[i]) # tb[i]
      <4>1. j + 1 \in 1 .. n + k /\ j + 1 \in 0 .. i + 1 /\ (j + 1) - 1 = j
        BY <1>1, <3>1
      <4>2. ta[j + 1] = Pull(a, ta[j])
        BY <1>3, <4>1
      <4>3. Pull(a, tb[i]) = Pull(b, tb[i])
        BY <3>3, <3>5, PullAhead DEF a
      <4> QED BY <3>2, <3>3, <4>1, <4>2, <4>3
    <3> QED BY <3>4, <3>5
  <2>3. n \in T
    <3> HIDE DEF T
    <3> QED BY <1>1, <2>1, <2>2, Induct
  <2> QED BY <1>1, <1>5, <2>3
<1>8. \E j \in 0 .. n + k : ta[j] = Shift(v, n)
  <2> DEFINE T == {i \in Nat : i <= k => \E j \in 0 .. n + i : ta[j] = Shift(tc[i], n)}
  <2>1. 0 \in T
    BY <1>1, <1>3, <1>6, <1>7
  <2>2. ASSUME NEW i \in Nat, i \in T PROVE i + 1 \in T
    <3> SUFFICES ASSUME i + 1 <= k PROVE \E j \in 0 .. n + (i + 1) : ta[j] = Shift(tc[i + 1], n)
      OBVIOUS
    <3>1. i <= k /\ i + 1 \in 1 .. k /\ (i + 1) - 1 = i
      BY <1>1
    <3>2. PICK j \in 0 .. n + i : ta[j] = Shift(tc[i], n)
      BY <2>2, <3>1
    <3>3. tc[i + 1] = Pull(c, tc[i]) /\ IsTurn(tc[i])
      BY <1>3, <1>4, <3>1
    <3>4. j + 1 \in 1 .. n + k /\ j + 1 \in 0 .. n + (i + 1) /\ (j + 1) - 1 = j
      BY <1>1, <3>1
    <3>5. ta[j + 1] = Pull(a, ta[j])
      BY <1>3, <3>4
    <3>6. Pull(a, Shift(tc[i], n)) = Shift(Pull(c, tc[i]), n)
      BY <3>3, PullShifted DEF a, n
    <3> QED BY <3>2, <3>3, <3>4, <3>5, <3>6
  <2>3. k \in T
    <3> HIDE DEF T
    <3> QED BY <1>1, <2>1, <2>2, Induct
  <2> QED BY <1>1, <1>5, <2>3
<1>9. Pull(a, Shift(v, n)) = Shift(v, n)
  <2>1. IsTurn(v)
    BY <1>1, <1>4, <1>5
  <2>2. Pull(a, Shift(v, n)) = Shift(Pull(c, v), n)
    BY <2>1, PullShifted DEF a, n
  <2> QED BY <1>4, <2>2
<1>10. ta[n + k] = Shift(v, n)
  <2>1. PICK j \in 0 .. n + k : ta[j] = Shift(v, n)
    BY <1>8
  <2> DEFINE T == {i \in Nat : j + i <= n + k => ta[j + i] = Shift(v, n)}
  <2>2. 0 \in T
    BY <2>1
  <2>3. ASSUME NEW i \in Nat, i \in T PROVE i + 1 \in T
    <3> SUFFICES ASSUME j + (i + 1) <= n + k PROVE ta[j + (i + 1)] = Shift(v, n)
      OBVIOUS
    <3>1. j + i <= n + k /\ j + (i + 1) \in 1 .. n + k /\ (j + (i + 1)) - 1 = j + i
      BY <1>1
    <3>2. ta[j + i] = Shift(v, n)
      BY <2>3, <3>1
    <3>3. ta[j + (i + 1)] = Pull(a, ta[j + i])
      BY <1>3, <3>1
    <3> QED BY <1>9, <3>2, <3>3
  <2>4. (n + k) - j \in T
    <3>1. (n + k) - j \in Nat
      BY <1>1
    <3> HIDE DEF T
    <3> QED BY <2>2, <2>3, <3>1, Induct
  <2>5. j + ((n + k) - j) = n + k
    BY <1>1
  <2> QED BY <1>1, <2>4, <2>5
<1> QED BY <1>5, <1>10 DEF a, n, w, u, v
(* What has been taken from the bytes that were read, as long as no read was  *)
(* begun with a part of a character left over, is what the loop takes from    *)
(* all of them; and when nothing is left over, it went over all of them.      *)
InputInv ==
  /\ typed \in Seq(Bytes) /\ wire \in Seq(Bytes)
  /\ ~split => LET whole == PullAll(typed, At(<<>>, <<>>, FALSE))
               IN /\ lines = whole.lines /\ input = whole.input /\ last_input_was_CR = whole.cr
                  /\ excess_utf = <<>> => whole.at = Len(typed) + 1

(* Nothing was typed yet. *)
LEMMA InputInvInit == InitNetwork => InputInv
<1> SUFFICES ASSUME InitNetwork PROVE InputInv
  OBVIOUS
<1> DEFINE s == At(<<>>, <<>>, FALSE)
<1>1. <<>> \in Seq(Bytes) /\ Len(<<>>) = 0
  OBVIOUS
<1>2. PullAll(<<>>, s) = s
  <2> HIDE DEF s
  <2> QED BY <1>1, TurnsAre DEF PullAll
<1>3. s.at = 1 /\ s.lines = <<>> /\ s.input = <<>> /\ s.cr = FALSE
  BY DEF At
<1>4. /\ typed = <<>> /\ wire = <<>> /\ lines = <<>> /\ input = <<>>
      /\ last_input_was_CR = FALSE
  BY DEF InitNetwork
<1> HIDE DEF s
<1>5. PullAll(typed, s) = s /\ Len(typed) + 1 = 1
  BY <1>1, <1>2, <1>4
<1> QED BY <1>1, <1>3, <1>4, <1>5 DEF InputInv, s

(* A read. *)
LEMMA ReadFaithful ==
  ASSUME InputInv, NEW count \in 1 .. MaxBytes, pull_input(count)
  PROVE  InputInv'
<1> DEFINE c == SubSeq(wire, 1, count)
           all == excess_utf \o c
           buffer == SubSeq(all, 1, count)
           u == At(input, lines, last_input_was_CR)
           v == PullAll(buffer, u)
           s == At(<<>>, <<>>, FALSE)
           w == PullAll(typed, s)
<1>1. /\ typed' = typed \o c /\ wire' = SubSeq(wire, count + 1, Len(wire))
      /\ split' = (split \/ excess_utf # <<>> \/ binary) /\ count \in 1 .. Len(wire)
      /\ ~binary => /\ lines' = v.lines /\ input' = v.input /\ last_input_was_CR' = v.cr
                    /\ excess_utf' = SubSeq(buffer, v.at, count)
  BY DEF pull_input
<1>2. typed \in Seq(Bytes) /\ wire \in Seq(Bytes) /\ Len(wire) \in Nat
  BY DEF InputInv
<1>3. c \in Seq(Bytes) /\ Len(c) = count
  <2>1. \A i \in 1 .. count : wire[i] \in Bytes
    BY <1>1, <1>2
  <2> QED BY <1>1, <1>2, <2>1, SubSeqProperties
<1>4. typed' \in Seq(Bytes) /\ wire' \in Seq(Bytes)
  <2>1. \A i \in count + 1 .. Len(wire) : wire[i] \in Bytes
    BY <1>2
  <2>2. SubSeq(wire, count + 1, Len(wire)) \in Seq(Bytes)
    BY <1>1, <1>2, <2>1, SubSeqProperties
  <2> HIDE DEF c
  <2> QED BY <1>1, <1>2, <1>3, <2>2, ConcatProperties
<1>5. ASSUME ~split'
      PROVE  /\ lines' = PullAll(typed', s).lines /\ input' = PullAll(typed', s).input
             /\ last_input_was_CR' = PullAll(typed', s).cr
             /\ excess_utf' = <<>> => PullAll(typed', s).at = Len(typed') + 1
  <2>1. ~split /\ excess_utf = <<>> /\ ~binary
    BY <1>1, <1>5
  <2>2. buffer = c
    <3> HIDE DEF c
    <3>1. all = c
      BY <1>3, <2>1
    <3> QED BY <1>1, <1>3, <3>1
  <2>3. /\ lines = w.lines /\ input = w.input /\ last_input_was_CR = w.cr
        /\ w.at = Len(typed) + 1
    BY <2>1 DEF InputInv
  <2>4. u = At(w.input, w.lines, w.cr)
    BY <2>3
  <2> HIDE DEF c, buffer
  <2>5. IsTurn(s) /\ s.at = 1 /\ IsTurn(u) /\ u.at = 1
    BY DEF IsTurn, At
  <2> HIDE DEF s, u
  <2>6. PullAll(typed', s) = Shift(v, Len(typed))
    <3>1. PullAll(typed \o c, s) = Shift(PullAll(c, At(w.input, w.lines, w.cr)), Len(typed))
      BY <1>2, <1>3, <2>3, <2>5, PullTwice
    <3> QED BY <1>1, <2>2, <2>4, <3>1
  <2>7. IsTurn(v) /\ v.at <= count + 1
    <3>1. Len(c) \in 0 .. Len(c)
      BY <1>1, <1>3
    <3>2. IsTurn(Turns(c, u)[Len(c)]) /\ Turns(c, u)[Len(c)].at <= Len(c) + 1
      BY <1>3, <2>5, <3>1, LoopEnds
    <3> QED BY <1>3, <2>2, <3>2 DEF PullAll
  <2> HIDE DEF v
  <2>8. excess_utf' = <<>> => v.at = count + 1
    <3> SUFFICES ASSUME v.at # count + 1 PROVE excess_utf' # <<>>
      OBVIOUS
    <3>1. v.at \in 1 .. count
      BY <1>1, <2>7 DEF IsTurn
    <3>2. \A i \in v.at .. count : c[i] \in Bytes
      BY <1>3, <3>1
    <3>3. Len(SubSeq(c, v.at, count)) = count - v.at + 1
      BY <1>1, <1>3, <3>1, <3>2, SubSeqProperties
    <3>4. Len(SubSeq(c, v.at, count)) # 0
      BY <1>1, <3>1, <3>3
    <3>5. excess_utf' = SubSeq(c, v.at, count)
      BY <1>1, <2>1, <2>2 DEF v
    <3>6. excess_utf' = <<>> => Len(excess_utf') = 0
      OBVIOUS
    <3> QED BY <3>4, <3>5, <3>6
  <2>9. Len(typed') = Len(typed) + count /\ Len(typed) \in Nat
    <3>1. Len(typed \o c) = Len(typed) + Len(c)
      BY <1>2, <1>3, ConcatProperties
    <3>2. Len(typed) \in Nat
      BY <1>2
    <3> QED BY <1>1, <1>3, <3>1, <3>2, Zenon
  <2>10. /\ PullAll(typed', s).lines = v.lines /\ PullAll(typed', s).input = v.input
         /\ PullAll(typed', s).cr = v.cr /\ PullAll(typed', s).at = v.at + Len(typed)
    BY <2>6 DEF Shift
  <2>11. excess_utf' = <<>> => PullAll(typed', s).at = Len(typed') + 1
    BY <1>1, <2>8, <2>9, <2>10
  <2> QED BY <1>1, <2>1, <2>10, <2>11
<1> HIDE DEF c, buffer, v
<1> QED BY <1>4, <1>5 DEF InputInv

(* Every step keeps it. *)
LEMMA InputInvNext == InputInv /\ [NextInput \/ NextOutput]_net_vars => InputInv'
<1> SUFFICES ASSUME InputInv, [NextInput \/ NextOutput]_net_vars PROVE InputInv'
  OBVIOUS
<1>1. ASSUME UNCHANGED in_vars PROVE InputInv'
  BY <1>1 DEF InputInv, in_vars
<1>2. ASSUME NEW b \in Bytes, ClientTypes(b) PROVE InputInv'
  <2>1. wire' = Append(wire, b)
        /\ UNCHANGED <<typed, split, lines, input, last_input_was_CR, excess_utf>>
    BY <1>2 DEF ClientTypes
  <2>2. wire' \in Seq(Bytes)
    BY <2>1 DEF InputInv
  <2> QED BY <2>1, <2>2 DEF InputInv
<1>3. ASSUME NEW count \in 1 .. MaxBytes, pull_input(count) PROVE InputInv'
  BY <1>3, ReadFaithful
<1>4. CASE SuspendInput \/ SetBinary
  BY <1>1, <1>4 DEF SuspendInput, SetBinary, in_vars
<1>5. CASE NextOutput
  BY <1>1, <1>5 DEF NextOutput, enqueue_output, WriteReady, close_nhandle
<1>6. CASE UNCHANGED net_vars
  BY <1>1, <1>6 DEF net_vars
<1> QED BY <1>2, <1>3, <1>4, <1>5, <1>6 DEF NextInput

(* However the client's bytes are cut into the reads of pull_input(), the    *)
(* server gets the lines that were typed, until a read begins with a part of *)
(* a character left over.                                                    *)
THEOREM LinesAreAsTyped == SpecNetwork => []InputFaithful
<1>1. InputInv => InputFaithful
  BY DEF InputInv, InputFaithful
<1> QED BY <1>1, InputInvInit, InputInvNext, PTL DEF SpecNetwork
=============================================================================
