----------------------------- MODULE WorkProofs -----------------------------
(***************************************************************************)
(* Proofs about TaskQueues, continued: nothing that could run is left on   *)
(* an idle queue, which run_ready_tasks() never looks at, and no           *)
(* connection goes deaf, that is, stays paused with no input left whose    *)
(* dequeueing would resume it.                                             *)
(*                                                                         *)
(* Neither is inductive.  Whether a connection is resumed goes by the      *)
(* length that the queue believes its input to have, so the invariant says *)
(* that it is the sum of the lines' lengths; and a queue made for a        *)
(* connection may be there before it (a task may force input on a number   *)
(* that no connection has yet), so the invariant says that such a queue is *)
(* not suspended.  QueueOK collects what is said of one queue.             *)
(***************************************************************************)
EXTENDS OwnershipProofs

(* No task runs as a connection, or as #-1.  One may, in the code, and the
   finding of MCOrphans is what becomes of it: leave_own_tasks() leaves the
   tasks of a connection that logs in on an idle queue. *)
NoConnectionTasks == Programmers \subseteq Nat

(* The total of the lengths of the lines l is n: f[i] is that of the first i. *)
Sums(l, n) ==
  \E f \in [0 .. Len(l) -> Int] :
    /\ f[0] = 0 /\ f[Len(l)] = n
    /\ \A i \in 1 .. Len(l) : f[i] = f[i - 1] + Length(l[i])

(* The connection of the queue, if any, neither paused without the queue's
   knowing it nor deaf. *)
Heard(s, q) ==
  \A h \in ConnIds : s.handles[h].open /\ s.handles[h].queue = q =>
    /\ s.handles[h].paused <=> s.tq[q].suspended
    /\ s.tq[q].suspended => s.tq[q].input # <<>>

(* The connections that will be made have numbers of n and below. *)
QueueOK(s, q, n) ==
  /\ NoConnectionTasks => /\ q \in s.idle => NothingToDo(s.tq[q])
                          /\ s.tq[q].player < 0 => s.tq[q].bg = <<>>
  /\ Sums(s.tq[q].input, s.tq[q].len)
  /\ s.tq[q].suspended => s.tq[q].player > n
  /\ Heard(s, q)

WaitingOK(s) ==
  NoConnectionTasks => \A i \in DOMAIN s.waiting : s.waiting[i].progr >= 0

WorkOK(s, n) == (\A q \in QueueIds : QueueOK(s, q, n)) /\ WaitingOK(s)

WorkInv == WorkOK(Heap, nextConn)

(* The heaps s and t differ only in the queue q and in the pausing of its
   connection. *)
Touches(s, t, q) ==
  /\ \A k \in QueueIds \ {q} : /\ t.tq[k] = s.tq[k]
                               /\ k \in t.idle <=> k \in s.idle
  /\ \A h \in ConnIds : /\ t.handles[h].open = s.handles[h].open
                        /\ t.handles[h].queue = s.handles[h].queue
                        /\ t.handles[h].player = s.handles[h].player
                        /\ s.handles[h].queue # q =>
                             t.handles[h].paused = s.handles[h].paused
  /\ t.waiting = s.waiting

(* find_shandle() finds the connection of a connected queue, which is the only
   one, and made before. *)
Linked(s, q, n) ==
  /\ s.tq[q].connected =>
       /\ s.tq[q].player > n
       /\ \E h \in ConnIds :
            /\ s.handles[h].open
            /\ \A k \in ConnIds : s.handles[k].open =>
                 /\ s.handles[k].player = s.tq[q].player <=> k = h
                 /\ s.handles[k].queue = q <=> k = h
  /\ \A h \in ConnIds : s.handles[h].open /\ s.handles[h].queue = q => s.tq[q].connected

(* NothingToDo(r), case by case. *)
Quiet(r) ==
  /\ r.bg = <<>>
  /\ IF r.reading # NoTask THEN r.input = <<>> /\ r.connected
     ELSE IF r.hold THEN r.no_oob \/ "oob" \notin Elems(r.input)
     ELSE r.input = <<>>

(* The connection of q has been paused, or resumed, as b says. *)
FlowSet(s, t, q, b) ==
  /\ s.tq[q].connected /\ Touches(s, t, q) /\ t.idle = s.idle
  /\ t.tq[q] = [s.tq[q] EXCEPT !.suspended = b]
  /\ \A h \in ConnIds : t.handles[h].open /\ t.handles[h].queue = q =>
       t.handles[h].paused = b

-----------------------------------------------------------------------------
(* The length of the input *)

(* Nothing has no length. *)
LEMMA SumsNothing == \A n : Sums(<<>>, n) <=> n = 0
<1> SUFFICES ASSUME NEW n PROVE Sums(<<>>, n) <=> n = 0
  OBVIOUS
<1>1. Sums(<<>>, n) => n = 0
  BY DEF Sums
<1>2. Sums(<<>>, 0)
  <2> DEFINE f == [i \in 0 .. 0 |-> 0]
  <2>1. f \in [0 .. Len(<<>>) -> Int] /\ f[0] = 0 /\ f[Len(<<>>)] = 0
    OBVIOUS
  <2>2. \A i \in 1 .. Len(<<>>) : f[i] = f[i - 1] + Length(<<>>[i])
    OBVIOUS
  <2> HIDE DEF f
  <2> QED BY <2>1, <2>2 DEF Sums
<1> QED BY <1>1, <1>2

(* A line put anywhere in the list adds its length. *)
LEMMA SumsInsertAt ==
  ASSUME NEW l \in Seq(LineKinds), NEW n \in Int, Sums(l, n),
         NEW i \in 1 .. Len(l) + 1, NEW e \in LineKinds
  PROVE  Sums(InsertAt(l, i, e), n + Length(e))
<1> DEFINE m == InsertAt(l, i, e)
<1>1. /\ m \in Seq(LineKinds) /\ Len(m) = Len(l) + 1 /\ Len(l) \in Nat
      /\ \A j \in 1 .. Len(l) + 1 :
           m[j] = IF j < i THEN l[j] ELSE IF j = i THEN e ELSE l[j - 1]
  BY DEF InsertAt
<1>2. PICK f \in [0 .. Len(l) -> Int] :
        /\ f[0] = 0 /\ f[Len(l)] = n
        /\ \A j \in 1 .. Len(l) : f[j] = f[j - 1] + Length(l[j])
  BY DEF Sums
<1>3. Length(e) \in Int
  BY LengthType
<1> DEFINE c == Length(e)
           g == [j \in 0 .. Len(l) + 1 |-> IF j < i THEN f[j] ELSE f[j - 1] + c]
<1> HIDE DEF m, c
<1>4. g \in [0 .. Len(m) -> Int] /\ g[0] = 0 /\ g[Len(m)] = n + c
  BY <1>1, <1>2, <1>3 DEF c
<1>5. \A j \in 1 .. Len(m) : g[j] = g[j - 1] + Length(m[j])
  <2> TAKE j \in 1 .. Len(m)
  <2>1. CASE j < i
    <3>1. j \in 1 .. Len(l) /\ m[j] = l[j] /\ g[j] = f[j] /\ g[j - 1] = f[j - 1]
      BY <1>1, <2>1
    <3> QED BY <1>2, <3>1
  <2>2. CASE j = i
    <3>1. m[j] = e /\ g[j] = f[j - 1] + c /\ g[j - 1] = f[j - 1]
      BY <1>1, <2>2
    <3> QED BY <3>1 DEF c
  <2>3. CASE j > i
    <3>1. /\ j - 1 \in 1 .. Len(l) /\ m[j] = l[j - 1] /\ g[j] = f[j - 1] + c
          /\ g[j - 1] = f[(j - 1) - 1] + c
      BY <1>1, <2>3
    <3>2. f[j - 1] = f[(j - 1) - 1] + Length(l[j - 1])
      BY <1>2, <3>1
    <3>3. f[(j - 1) - 1] \in Int /\ Length(l[j - 1]) \in Int /\ c \in Int
      <4>1. l[j - 1] \in LineKinds
        BY <3>1
      <4>2. Length(l[j - 1]) \in Int
        BY <4>1, LengthType
      <4>3. (j - 1) - 1 \in 0 .. Len(l)
        BY SMTT(30), <1>1, <3>1
      <4> QED BY <1>2, <1>3, <4>2, <4>3 DEF c
    <3> QED BY <3>1, <3>2, <3>3
  <2> QED BY <2>1, <2>2, <2>3
<1> HIDE DEF g
<1> QED BY <1>4, <1>5 DEF Sums, m, c

(* A line appended adds its length. *)
LEMMA SumsAppend ==
  ASSUME NEW l \in Seq(LineKinds), NEW n \in Int, Sums(l, n), NEW e \in LineKinds
  PROVE  Sums(Append(l, e), n + Length(e))
<1> DEFINE a == Append(l, e)
           m == InsertAt(l, Len(l) + 1, e)
<1>1. Len(l) + 1 \in 1 .. Len(l) + 1 /\ Len(m) = Len(l) + 1 /\ Len(a) = Len(l) + 1
  BY DEF InsertAt
<1>2. \A j \in 1 .. Len(l) + 1 : m[j] = a[j]
  BY DEF InsertAt
<1>3. Sums(m, n + Length(e))
  BY <1>1, SumsInsertAt
<1> HIDE DEF a, m
<1> QED BY ZenonT(40), <1>1, <1>2, <1>3 DEF Sums, a

(* A line removed takes its length away. *)
LEMMA SumsRemoveAt ==
  ASSUME NEW l \in Seq(LineKinds), NEW n \in Int, Sums(l, n), NEW i \in DOMAIN l
  PROVE  Sums(RemoveAt(l, i), n - Length(l[i]))
<1> DEFINE m == RemoveAt(l, i)
<1>1. /\ m \in Seq(LineKinds) /\ Len(m) = Len(l) - 1 /\ Len(l) \in Nat /\ i \in 1 .. Len(l)
      /\ \A j \in 1 .. Len(l) - 1 : m[j] = IF j < i THEN l[j] ELSE l[j + 1]
  BY DEF RemoveAt
<1>2. PICK f \in [0 .. Len(l) -> Int] :
        /\ f[0] = 0 /\ f[Len(l)] = n
        /\ \A j \in 1 .. Len(l) : f[j] = f[j - 1] + Length(l[j])
  BY DEF Sums
<1> DEFINE c == Length(l[i])
           g == [j \in 0 .. Len(l) - 1 |-> IF j < i THEN f[j] ELSE f[j + 1] - c]
<1>3. c \in Int /\ \A j \in 1 .. Len(l) : Length(l[j]) \in Int
  <2>1. \A j \in 1 .. Len(l) : l[j] \in LineKinds
    BY <1>1
  <2> QED BY <1>1, <2>1, LengthType DEF c
<1> HIDE DEF m, c
<1>4. g \in [0 .. Len(m) -> Int] /\ g[0] = 0
  <2>1. \A j \in 0 .. Len(l) : f[j] \in Int
    BY <1>2
  <2>2. \A j \in 0 .. Len(l) - 1 : (IF j < i THEN f[j] ELSE f[j + 1] - c) \in Int
    <3> TAKE j \in 0 .. Len(l) - 1
    <3>1. f[j] \in Int /\ f[j + 1] \in Int
      BY <1>1, <2>1
    <3> QED BY <1>3, <3>1
  <2>3. Len(m) = Len(l) - 1 /\ 0 \in 0 .. Len(l) - 1 /\ 0 < i
    BY <1>1
  <2> QED BY <1>2, <2>2, <2>3
<1>5. g[Len(m)] = n - c
  <2>1. CASE Len(m) < i
    <3>1. i = Len(l) /\ g[Len(m)] = f[i - 1] /\ f[i] = f[i - 1] + c
      BY <1>1, <1>2, <2>1 DEF c
    <3>2. f[i - 1] \in Int /\ f[i] = n
      <4>1. i - 1 \in 0 .. Len(l)
        BY <1>1
      <4> QED BY <1>2, <3>1, <4>1
    <3> QED BY <1>3, <3>1, <3>2
  <2>2. CASE Len(m) >= i
    BY <1>1, <1>2, <2>2
  <2> QED BY <1>1, <2>1, <2>2
<1>6. \A j \in 1 .. Len(m) : g[j] = g[j - 1] + Length(m[j])
  <2> TAKE j \in 1 .. Len(m)
  <2>1. CASE j < i
    <3>1. j \in 1 .. Len(l) /\ m[j] = l[j] /\ g[j] = f[j] /\ g[j - 1] = f[j - 1]
      BY <1>1, <2>1
    <3> QED BY <1>2, <3>1
  <2>2. CASE j = i
    <3>1. m[j] = l[j + 1] /\ g[j] = f[j + 1] - c /\ g[j - 1] = f[j - 1]
      BY SMTT(30), <1>1, <2>2
    <3>2. f[j + 1] = f[(j + 1) - 1] + Length(l[j + 1]) /\ f[j] = f[j - 1] + c
      <4>1. j + 1 \in 1 .. Len(l) /\ j \in 1 .. Len(l) /\ c = Length(l[j])
        BY <1>1, <2>2 DEF c
      <4> QED BY <1>2, <4>1
    <3>3. /\ f[j] \in Int /\ f[j - 1] \in Int /\ Length(l[j + 1]) \in Int
          /\ (j + 1) - 1 = j
      <4>1. /\ j + 1 \in 1 .. Len(l) /\ j \in 0 .. Len(l) /\ j - 1 \in 0 .. Len(l)
            /\ (j + 1) - 1 = j
        BY <1>1
      <4> QED BY <1>2, <1>3, <4>1
    <3> QED BY SMTT(30), <1>3, <3>1, <3>2, <3>3
  <2>3. CASE j > i
    <3>1. /\ m[j] = l[j + 1] /\ g[j] = f[j + 1] - c /\ g[j - 1] = f[j] - c
      BY SMTT(60), <1>1, <2>3
    <3>2. f[j + 1] = f[(j + 1) - 1] + Length(l[j + 1])
      BY <1>1, <1>2
    <3>3. f[j] \in Int /\ Length(l[j + 1]) \in Int /\ (j + 1) - 1 = j
      <4>1. /\ j + 1 \in 1 .. Len(l) /\ j \in 0 .. Len(l) /\ j - 1 \in 0 .. Len(l)
            /\ (j + 1) - 1 = j
        BY <1>1
      <4> QED BY <1>2, <1>3, <4>1
    <3> QED BY <1>3, <3>1, <3>2, <3>3
  <2> QED BY <2>1, <2>2, <2>3
<1> HIDE DEF g
<1> QED BY <1>4, <1>5, <1>6 DEF Sums, m, c
-----------------------------------------------------------------------------
(* Helpers that concern one queue *)

(* Touches is transitive. *)
LEMMA TouchesChain ==
  ASSUME NEW s, NEW t, NEW u, NEW q, Touches(s, t, q), Touches(t, u, q)
  PROVE  Touches(s, u, q)
  BY DEF Touches

(* What a heap keeps that has the same queues, waiting tasks and connections. *)
LEMMA TouchesNothing ==
  ASSUME NEW s, NEW q
  PROVE  Touches(s, s, q)
  BY DEF Touches

(* What is said of the other queues stays true. *)
LEMMA TouchesWork ==
  ASSUME NEW s, NEW n, WorkOK(s, n), NEW q \in QueueIds, NEW t, Touches(s, t, q),
         QueueOK(t, q, n)
  PROVE  WorkOK(t, n)
<1>1. ASSUME NEW k \in QueueIds \ {q} PROVE QueueOK(t, k, n)
  <2>1. t.tq[k] = s.tq[k] /\ (k \in t.idle <=> k \in s.idle)
    BY <1>1 DEF Touches
  <2>2. QueueOK(s, k, n)
    BY <1>1 DEF WorkOK
  <2>3. Heard(t, k)
    <3>1. \A h \in ConnIds : /\ t.handles[h].open = s.handles[h].open
                             /\ t.handles[h].queue = s.handles[h].queue
                             /\ s.handles[h].queue = k =>
                                  t.handles[h].paused = s.handles[h].paused
      BY <1>1 DEF Touches
    <3> QED BY <2>1, <2>2, <3>1 DEF QueueOK, Heard
  <2> QED BY <2>1, <2>2, <2>3 DEF QueueOK
<1>2. WaitingOK(t)
  BY DEF WorkOK, WaitingOK, Touches
<1> QED BY <1>1, <1>2 DEF WorkOK

(* A queue is replaced. *)
LEMMA ReplaceQueue ==
  ASSUME NEW s, HeapOK(s), NEW q \in QueueIds, NEW r
  PROVE  LET t == [s EXCEPT !.tq[q] = r]
         IN /\ Touches(s, t, q) /\ t.tq[q] = r
            /\ t.idle = s.idle /\ t.handles = s.handles /\ t.active = s.active
<1> DEFINE t == [s EXCEPT !.tq[q] = r]
<1>1. /\ t.active = s.active /\ t.idle = s.idle /\ t.waiting = s.waiting
      /\ t.handles = s.handles /\ t.tq = [s.tq EXCEPT ![q] = r]
  BY DEF HeapOK, HeapType
<1>2. \A k \in QueueIds : t.tq[k] = IF k = q THEN r ELSE s.tq[k]
  BY <1>1 DEF HeapOK, HeapType
<1> HIDE DEF t
<1>3. Touches(s, t, q)
  BY <1>1, <1>2 DEF Touches
<1> QED BY <1>1, <1>2, <1>3 DEF t

(* Linked speaks of the connections, and of the queue's player. *)
LEMMA TouchesLinked ==
  ASSUME NEW s, NEW q, NEW n, Linked(s, q, n), NEW t, Touches(s, t, q),
         t.tq[q].connected = s.tq[q].connected, t.tq[q].player = s.tq[q].player
  PROVE  Linked(t, q, n)
<1>1. \A h \in ConnIds : /\ t.handles[h].open = s.handles[h].open
                         /\ t.handles[h].queue = s.handles[h].queue
                         /\ t.handles[h].player = s.handles[h].player
  BY DEF Touches
<1> QED BY <1>1 DEF Linked

(* In a heap whose owners agree every live queue is linked to its connection. *)
LEMMA OwnersLinked ==
  ASSUME NEW s, HeapOK(s), OwnersOK(s), NEW n \in Int, n < NOTHING,
         \A h \in ConnIds : s.handles[h].open => h > n, NEW q \in Live(s)
  PROVE  Linked(s, q, n)
<1> SUFFICES ASSUME s.tq[q].connected
             PROVE  /\ s.tq[q].player > n
                    /\ \E h \in ConnIds :
                         /\ s.handles[h].open
                         /\ \A k \in ConnIds : s.handles[k].open =>
                              /\ s.handles[k].player = s.tq[q].player <=> k = h
                              /\ s.handles[k].queue = q <=> k = h
  BY DEF Linked, OwnersOK, ConnectionsOK
<1>1. PICK h \in ConnIds : s.handles[h].open /\ s.handles[h].queue = q
  BY DEF OwnersOK, ConnectionsOK
<1>2. s.tq[q].player = s.handles[h].player /\ s.tq[q].player # NOTHING
  BY <1>1 DEF OwnersOK, ConnectionsOK, QueuesOK
<1>3. s.tq[q].player > n
  <2>1. h > n /\ h \in Int /\ s.handles[h].player \in Int
    BY <1>1, ConnIdsType DEF HeapOK, HeapType, Handle
  <2>2. s.handles[h].player = h \/ s.handles[h].player >= 0
    BY <1>1 DEF OwnersOK, ConnectionsOK
  <2> QED BY <1>2, <2>1, <2>2 DEF NOTHING
<1>4. \A k \in ConnIds : s.handles[k].open =>
        /\ s.handles[k].player = s.tq[q].player <=> k = h
        /\ s.handles[k].queue = q <=> k = h
  BY <1>1, <1>2 DEF OwnersOK, ConnectionsOK, QueuesOK
<1> QED BY <1>1, <1>3, <1>4

(* ensure_usage() makes a queue active, if it is not. *)
LEMMA EnsureUsageEffect ==
  ASSUME NEW s, HeapOK(s), NEW q \in QueueIds
  PROVE  LET t == ensure_usage(s, q)
         IN /\ Touches(s, t, q) /\ q \notin t.idle
            /\ t.tq[q] = [s.tq[q] EXCEPT !.usage = t.tq[q].usage]
            /\ t.handles = s.handles
<1> DEFINE t == ensure_usage(s, q)
<1>1. CASE s.tq[q].usage # NO_USAGE
  <2>1. t = s /\ q \notin s.idle /\ s.tq[q] \in TQueue
    BY <1>1 DEF ensure_usage, HeapOK, HeapType
  <2>2. s.tq[q] = [s.tq[q] EXCEPT !.usage = s.tq[q].usage]
    BY <2>1 DEF TQueue
  <2> HIDE DEF t
  <2> QED BY <2>1, <2>2, TouchesNothing DEF t
<1>2. CASE s.tq[q].usage = NO_USAGE
  <2> DEFINE m == IF s.active = <<>> THEN 0 ELSE s.tq[s.active[1]].usage
             r == [s.tq[q] EXCEPT !.usage = m]
             u == [s EXCEPT !.tq[q] = r, !.idle = s.idle \ {q}]
  <2>1. t = activate_tqueue(u, q)
    BY <1>2 DEF ensure_usage
  <2> HIDE DEF m, r
  <2>2. /\ u.tq = [s.tq EXCEPT ![q] = r] /\ u.idle = s.idle \ {q}
        /\ u.handles = s.handles /\ u.waiting = s.waiting /\ u.active = s.active
        /\ u.panic = s.panic
        /\ DOMAIN u = {"tq", "active", "idle", "waiting", "handles", "panic"}
    BY DEF HeapOK, HeapType
  <2>3. s.tq \in [QueueIds -> TQueue]
    BY DEF HeapOK, HeapType
  <2> HIDE DEF u
  <2>4. t.tq = u.tq /\ t.idle = u.idle /\ t.handles = u.handles /\ t.waiting = u.waiting
    <3> DEFINE a == t.active
    <3>1. t = [u EXCEPT !.active = a]
      BY <2>1 DEF activate_tqueue
    <3> QED BY <2>2, <3>1
  <2>5. s.tq[q] \in TQueue
    BY <2>3
  <2>6. r = [s.tq[q] EXCEPT !.usage = r.usage]
    BY <2>5 DEF TQueue, r
  <2> QED BY <2>2, <2>3, <2>4, <2>6 DEF Touches
<1> QED BY <1>1, <1>2
(* What NothingToDo says. *)
LEMMA NothingToDoIsQuiet ==
  ASSUME NEW r \in TQueue
  PROVE  NothingToDo(r) <=> Quiet(r)
<1>1. r.input \in Seq(LineKinds) /\ r.hold \in BOOLEAN /\ r.no_oob \in BOOLEAN
      /\ r.connected \in BOOLEAN
  BY DEF TQueue
<1>2. DOMAIN r.input = {} <=> r.input = <<>>
  <2>1. /\ DOMAIN r.input = 1 .. Len(r.input) /\ Len(r.input) \in Nat
        /\ Len(r.input) = 0 <=> r.input = <<>>
    BY <1>1
  <2>2. \A m \in Nat : 1 .. m = {} <=> m = 0
    <3> TAKE m \in Nat
    <3>1. m # 0 => 1 \in 1 .. m
      OBVIOUS
    <3>2. m = 0 => \A i \in 1 .. m : FALSE
      OBVIOUS
    <3> QED BY <3>1, <3>2
  <2> QED BY <2>1, <2>2
<1>3. HasInput(r, "DQ_FIRST") <=> r.input # <<>>
  BY <1>2 DEF HasInput, Wanted
<1>4. HasInput(r, "DQ_OOB") <=> ~r.no_oob /\ "oob" \in Elems(r.input)
  BY DEF HasInput, Wanted, Elems
<1>5. CASE r.reading # NoTask
  BY <1>1, <1>3, <1>5 DEF NothingToDo, Quiet, How, ReaderStranded, is_out_of_input
<1>6. CASE r.reading = NoTask
  BY <1>1, <1>3, <1>4, <1>6 DEF NothingToDo, Quiet, How, ReaderStranded, is_out_of_input
<1> QED BY <1>5, <1>6

(* Pausing or resuming a queue's connection, with the queue's mark. *)
LEMMA SetFlow ==
  ASSUME NEW s, HeapOK(s), NEW q \in QueueIds, NEW n, Linked(s, q, n),
         s.tq[q].connected, NEW b \in BOOLEAN
  PROVE  FlowSet(s, [server_set_paused(s, s.tq[q].player, b)
                       EXCEPT !.tq[q].suspended = b], q, b)
<1> DEFINE p == s.tq[q].player
           h == find_shandle(s, p)
           g == [s.handles[h] EXCEPT !.paused = b]
           t == [s EXCEPT !.handles[h] = g]
           r == [t.tq[q] EXCEPT !.suspended = b]
           u == [t EXCEPT !.tq[q] = r]
<1>1. HasHandle(s, p)
  BY DEF Linked, HasHandle
<1>2. h \in ConnIds /\ s.handles[h].open /\ s.handles[h].player = p
  BY <1>1 DEF HasHandle, find_shandle
<1>3. server_set_paused(s, p, b) = t
  BY <1>1 DEF server_set_paused
<1>4. \A k \in ConnIds : s.handles[k].open => (s.handles[k].queue = q <=> k = h)
  BY <1>2 DEF Linked
<1> HIDE DEF h, p
<1>5. s.handles[h] \in Handle
  BY <1>2 DEF HeapOK, HeapType
<1>6. /\ g.open = s.handles[h].open /\ g.player = s.handles[h].player
      /\ g.queue = s.handles[h].queue /\ g.paused = b
      /\ g \in Handle
  BY <1>5 DEF Handle
<1> HIDE DEF g
<1>7. /\ t.idle = s.idle /\ t.waiting = s.waiting /\ t.tq = s.tq
      /\ t.handles = [s.handles EXCEPT ![h] = g]
  BY DEF HeapOK, HeapType
<1>8. HeapOK(t)
  <2>1. g.open => g.queue \in QueueIds
    BY <1>2, <1>6 DEF HeapOK
  <2> QED BY <1>2, <1>6, <2>1, SetHandle
<1> HIDE DEF t
<1>9. /\ Touches(t, u, q) /\ u.tq[q] = r /\ u.idle = t.idle /\ u.handles = t.handles
  BY <1>8, ReplaceQueue
<1> HIDE DEF u
<1>10. \A k \in ConnIds : t.handles[k] = IF k = h THEN g ELSE s.handles[k]
  BY <1>7 DEF HeapOK, HeapType
<1>11. Touches(s, t, q)
  BY <1>2, <1>4, <1>6, <1>7, <1>10 DEF Touches
<1>12. Touches(s, u, q)
  BY <1>9, <1>11, TouchesChain
<1>13. \A k \in ConnIds : u.handles[k].open /\ u.handles[k].queue = q => u.handles[k].paused = b
  BY <1>4, <1>6, <1>9, <1>10
<1>14. FlowSet(s, u, q, b)
  BY <1>7, <1>9, <1>12, <1>13 DEF FlowSet
<1> QED BY <1>3, <1>14 DEF u, p

(* task_suspend_input(). *)
LEMMA SuspendInputEffect ==
  ASSUME NEW s, HeapOK(s), NEW q \in QueueIds, NEW n, Linked(s, q, n)
  PROVE  LET t == task_suspend_input(s, q)
         IN FlowSet(s, t, q, TRUE) \/ t = s
<1>1. CASE ~s.tq[q].suspended /\ s.tq[q].connected
  BY <1>1, SetFlow DEF task_suspend_input
<1>2. CASE ~(~s.tq[q].suspended /\ s.tq[q].connected)
  BY <1>2 DEF task_suspend_input
<1> QED BY <1>1, <1>2

(* What the dequeueing functions do last. *)
LEMMA ResumeIfLowEffect ==
  ASSUME NEW s, HeapOK(s), NEW q \in QueueIds, NEW n, Linked(s, q, n)
  PROVE  LET t == resume_if_low(s, q)
         IN \/ FlowSet(s, t, q, FALSE)
            \/ /\ t = s
               /\ ~(s.tq[q].suspended /\ s.tq[q].connected /\ s.tq[q].len < INPUT_LOWAT)
<1>1. CASE s.tq[q].suspended /\ s.tq[q].connected /\ s.tq[q].len < INPUT_LOWAT
  BY <1>1, SetFlow DEF resume_if_low
<1>2. CASE ~(s.tq[q].suspended /\ s.tq[q].connected /\ s.tq[q].len < INPUT_LOWAT)
  BY <1>2 DEF resume_if_low
<1> QED BY <1>1, <1>2
(* Setting the mark of a queue and its connection together. *)
LEMMA FlowSetQueue ==
  ASSUME NEW s, HeapOK(s), NEW q \in QueueIds, NEW n, Linked(s, q, n), QueueOK(s, q, n),
         NEW b \in BOOLEAN, b => s.tq[q].input # <<>>, NEW t, FlowSet(s, t, q, b)
  PROVE  QueueOK(t, q, n)
<1>1. s.tq[q] \in TQueue /\ t.tq[q] \in TQueue
  <2>1. s.tq[q] \in TQueue
    BY DEF HeapOK, HeapType
  <2> QED BY SMTT(30), <2>1 DEF TQueue, FlowSet
<1>2. /\ t.tq[q].suspended = b /\ t.tq[q].input = s.tq[q].input
      /\ t.tq[q].len = s.tq[q].len /\ t.tq[q].player = s.tq[q].player
      /\ t.tq[q].bg = s.tq[q].bg /\ t.tq[q].reading = s.tq[q].reading
      /\ t.tq[q].connected = s.tq[q].connected /\ t.tq[q].hold = s.tq[q].hold
      /\ t.tq[q].no_oob = s.tq[q].no_oob
  BY <1>1 DEF FlowSet, TQueue
<1>3. t.idle = s.idle /\ s.tq[q].player > n
  BY DEF FlowSet, Linked
<1>4. Quiet(t.tq[q]) <=> Quiet(s.tq[q])
  BY <1>2 DEF Quiet
<1>5. Heard(t, q)
  BY <1>2 DEF Heard, FlowSet
<1> QED BY <1>1, <1>2, <1>3, <1>4, <1>5, NothingToDoIsQuiet DEF QueueOK

(* Pausing a connection whose input is not empty. *)
LEMMA SuspendInputWork ==
  ASSUME NEW s, HeapOK(s), NEW q \in QueueIds, NEW n, Linked(s, q, n), QueueOK(s, q, n),
         s.tq[q].input # <<>>
  PROVE  LET t == task_suspend_input(s, q)
         IN Touches(s, t, q) /\ QueueOK(t, q, n)
<1> DEFINE t == task_suspend_input(s, q)
<1>1. FlowSet(s, t, q, TRUE) \/ t = s
  BY SuspendInputEffect
<1> HIDE DEF t
<1>2. CASE FlowSet(s, t, q, TRUE)
  BY <1>2, FlowSetQueue DEF FlowSet, t
<1>3. CASE t = s
  BY <1>3, TouchesNothing DEF t
<1> QED BY <1>1, <1>2, <1>3

(* A queue whose input has just become shorter: it may have to be resumed. *)
Shortened(s, q, n) ==
  /\ NoConnectionTasks => /\ q \in s.idle => Quiet(s.tq[q])
                          /\ s.tq[q].player < 0 => s.tq[q].bg = <<>>
  /\ Sums(s.tq[q].input, s.tq[q].len)
  /\ s.tq[q].suspended => s.tq[q].player > n
  /\ \A h \in ConnIds : s.handles[h].open /\ s.handles[h].queue = q =>
       (s.handles[h].paused <=> s.tq[q].suspended)

(* resume_if_low() leaves every queue its work. *)
LEMMA ResumeIfLowWork ==
  ASSUME NEW s, HeapOK(s), NEW q \in QueueIds, NEW n, Linked(s, q, n), Shortened(s, q, n)
  PROVE  LET t == resume_if_low(s, q)
         IN Touches(s, t, q) /\ QueueOK(t, q, n)
<1> DEFINE t == resume_if_low(s, q)
<1>1. \/ FlowSet(s, t, q, FALSE)
      \/ /\ t = s
         /\ ~(s.tq[q].suspended /\ s.tq[q].connected /\ s.tq[q].len < INPUT_LOWAT)
  BY ResumeIfLowEffect
<1> HIDE DEF t
<1>2. s.tq[q] \in TQueue
  BY DEF HeapOK, HeapType
<1>3. CASE FlowSet(s, t, q, FALSE)
  <2>1. t.tq[q] \in TQueue
    BY ZenonT(40), <1>2, <1>3 DEF FlowSet, TQueue
  <2>2. /\ t.tq[q].suspended = FALSE /\ t.tq[q].input = s.tq[q].input
        /\ t.tq[q].len = s.tq[q].len /\ t.tq[q].player = s.tq[q].player
        /\ t.tq[q].bg = s.tq[q].bg /\ t.tq[q].reading = s.tq[q].reading
        /\ t.tq[q].connected = s.tq[q].connected /\ t.tq[q].hold = s.tq[q].hold
        /\ t.tq[q].no_oob = s.tq[q].no_oob
    BY <1>2, <1>3 DEF FlowSet, TQueue
  <2>3. Quiet(t.tq[q]) <=> Quiet(s.tq[q])
    BY <2>2 DEF Quiet
  <2>4. Heard(t, q)
    BY <1>3, <2>2 DEF Heard, FlowSet
  <2>5. t.idle = s.idle /\ Touches(s, t, q)
    BY <1>3 DEF FlowSet
  <2>6. QueueOK(t, q, n)
    BY <2>1, <2>2, <2>3, <2>4, <2>5, NothingToDoIsQuiet DEF QueueOK, Shortened
  <2> QED BY <2>5, <2>6 DEF t
<1>4. CASE /\ t = s
           /\ ~(s.tq[q].suspended /\ s.tq[q].connected /\ s.tq[q].len < INPUT_LOWAT)
  <2>1. s.tq[q].input = <<>> => s.tq[q].len = 0
    BY SumsNothing DEF Shortened
  <2>2. 0 < INPUT_LOWAT
    BY ConstantsAssumption DEF INPUT_LOWAT
  <2>3. Heard(s, q)
    BY <1>4, <2>1, <2>2 DEF Heard, Shortened, Linked
  <2>4. QueueOK(s, q, n)
    BY <1>2, <2>3, NothingToDoIsQuiet DEF QueueOK, Shortened
  <2> QED BY <1>4, <2>4, TouchesNothing DEF t
<1> QED BY <1>1, <1>3, <1>4
(* A queue, and the heap, with another list of lines, of length m, on q. *)
WithLines(r, l, m) == [r EXCEPT !.input = l, !.len = m]
WithInput(s, q, l, m) == [s EXCEPT !.tq[q] = WithLines(s.tq[q], l, m)]

(* What the heap is after a queue's input has been replaced. *)
LEMMA SetInputEffect ==
  ASSUME NEW s, HeapOK(s), NEW q \in QueueIds, NEW l, NEW m
  PROVE  LET t == WithInput(s, q, l, m)
         IN /\ Touches(s, t, q) /\ t.idle = s.idle /\ t.handles = s.handles
            /\ t.active = s.active
            /\ t.tq[q] = WithLines(s.tq[q], l, m)
<1> DEFINE r == WithLines(s.tq[q], l, m)
           t == [s EXCEPT !.tq[q] = r]
<1> HIDE DEF r
<1>1. /\ Touches(s, t, q) /\ t.tq[q] = r
      /\ t.idle = s.idle /\ t.handles = s.handles /\ t.active = s.active
  BY ReplaceQueue
<1> HIDE DEF t
<1> QED BY <1>1 DEF t, r, WithInput

(* Lines are taken from a queue, and its connection perhaps resumed. *)
LEMMA ShortenWork ==
  ASSUME NEW s, HeapOK(s), NEW q \in QueueIds, NEW n, Linked(s, q, n), QueueOK(s, q, n),
         NEW l \in Seq(LineKinds), NEW m \in Int, Sums(l, m),
         Elems(l) \subseteq Elems(s.tq[q].input)
  PROVE  LET t == resume_if_low(WithInput(s, q, l, m), q)
         IN Touches(s, t, q) /\ QueueOK(t, q, n)
<1> DEFINE u == WithInput(s, q, l, m)
           t == resume_if_low(u, q)
<1>1. HeapOK(u)
  <2> DEFINE v == [s EXCEPT !.tq[q].input = l, !.tq[q].len = m]
  <2>1. HeapOK(v)
    BY SetInput DEF Preserves
  <2>2. v = u
    BY DEF HeapOK, HeapType, WithInput, WithLines
  <2> HIDE DEF v, u
  <2> QED BY <2>1, <2>2
<1>2. /\ Touches(s, u, q) /\ u.idle = s.idle /\ u.handles = s.handles
      /\ u.tq[q] = WithLines(s.tq[q], l, m)
  BY SetInputEffect
<1>3. s.tq[q] \in TQueue
  BY DEF HeapOK, HeapType
<1> HIDE DEF u
<1>4. /\ u.tq[q].suspended = s.tq[q].suspended /\ u.tq[q].input = l
      /\ u.tq[q].len = m /\ u.tq[q].player = s.tq[q].player
      /\ u.tq[q].bg = s.tq[q].bg /\ u.tq[q].reading = s.tq[q].reading
      /\ u.tq[q].connected = s.tq[q].connected /\ u.tq[q].hold = s.tq[q].hold
      /\ u.tq[q].no_oob = s.tq[q].no_oob
  BY <1>2, <1>3 DEF TQueue, WithLines
<1>5. Linked(u, q, n)
  BY <1>2, <1>4, TouchesLinked
<1>6. Quiet(s.tq[q]) => Quiet(u.tq[q])
  <2>1. s.tq[q].input = <<>> => l = <<>>
    <3>1. s.tq[q].input = <<>> => Elems(l) = {}
      BY DEF Elems
    <3>2. Elems(l) = {} => l = <<>>
      <4>1. l # <<>> => 1 \in DOMAIN l
        OBVIOUS
      <4> QED BY <4>1 DEF Elems
    <3> QED BY <3>1, <3>2
  <2> QED BY <1>4, <2>1 DEF Quiet
<1>7. Shortened(u, q, n)
  BY <1>2, <1>3, <1>4, <1>6, NothingToDoIsQuiet DEF Shortened, QueueOK, Heard
<1>8. Touches(u, t, q) /\ QueueOK(t, q, n)
  BY <1>1, <1>5, <1>7, ResumeIfLowWork
<1> HIDE DEF t
<1>9. Touches(s, t, q)
  BY <1>2, <1>8, TouchesChain
<1> QED BY <1>8, <1>9 DEF t, u

(* dequeue_input_task(). *)
LEMMA DequeueInputWork ==
  ASSUME NEW s, HeapOK(s), NEW q \in QueueIds, NEW n, Linked(s, q, n), QueueOK(s, q, n),
         NEW how, HasInput(s.tq[q], how)
  PROVE  LET t == dequeue_input_task(s, q, how)
         IN Touches(s, t, q) /\ QueueOK(t, q, n)
<1> DEFINE r == s.tq[q]
           i == InputIndex(r, how)
           l == RemoveAt(r.input, i)
           m == r.len - Length(r.input[i])
<1>1. i \in DOMAIN r.input
  BY InputIndexIn
<1>2. r.input \in Seq(LineKinds) /\ r.len \in Int
  BY DEF HeapOK, HeapType, TQueue
<1>3. dequeue_input_task(s, q, how)
        = resume_if_low(WithInput(s, q, l, m), q)
  BY DEF dequeue_input_task, HeapOK, HeapType, WithInput, WithLines
<1> HIDE DEF r, i
<1>4. l \in Seq(LineKinds) /\ Elems(l) \subseteq Elems(r.input)
  <2>1. /\ l \in Seq(LineKinds)
        /\ \A j \in DOMAIN l : \E k \in DOMAIN r.input : l[j] = r.input[k]
    BY <1>1, <1>2, RemoveInsert
  <2> HIDE DEF l
  <2> QED BY <2>1 DEF Elems
<1>5. m \in Int
  <2>1. r.input[i] \in LineKinds
    BY <1>1, <1>2
  <2> QED BY <1>2, <2>1, LengthType
<1>6. Sums(l, m)
  BY <1>1, <1>2, SumsRemoveAt DEF QueueOK, r
<1> HIDE DEF l, m
<1>7. Elems(l) \subseteq Elems(s.tq[q].input)
  BY <1>4 DEF r
<1> QED BY <1>3, <1>4, <1>5, <1>6, <1>7, ShortenWork

(* Dequeueing everything there is. *)
LEMMA DequeueAllWork ==
  ASSUME NEW s, HeapOK(s), NEW q \in QueueIds, NEW n, Linked(s, q, n), QueueOK(s, q, n)
  PROVE  LET t == dequeue_all_input(s, q)
         IN Touches(s, t, q) /\ QueueOK(t, q, n)
<1>1. CASE s.tq[q].input = <<>>
  BY <1>1, TouchesNothing DEF dequeue_all_input
<1>2. CASE s.tq[q].input # <<>>
  <2>1. dequeue_all_input(s, q)
          = resume_if_low(WithInput(s, q, <<>>, 0), q)
    BY <1>2 DEF dequeue_all_input, WithInput, WithLines
  <2>2. /\ <<>> \in Seq(LineKinds) /\ 0 \in Int
        /\ Elems(<<>>) \subseteq Elems(s.tq[q].input)
    BY DEF Elems
  <2>3. Sums(<<>>, 0)
    BY SumsNothing
  <2> QED BY <2>1, <2>2, <2>3, ShortenWork, Zenon
<1> QED BY <1>1, <1>2
(* A line is put in the list: the queue may have to run, and may be full. *)
LEMMA LengthenWork ==
  ASSUME NEW s, HeapOK(s), NEW q \in QueueIds, NEW n, Linked(s, q, n), QueueOK(s, q, n),
         NEW l \in Seq(LineKinds), l # <<>>, NEW m \in Int, Sums(l, m),
         NEW line \in LineKinds, Elems(l) = Elems(s.tq[q].input) \cup {line}
  PROVE  LET s1 == WithInput(s, q, l, m)
             r  == s1.tq[q]
             s2 == IF ~r.hold \/ r.reading # NoTask \/ (~r.no_oob /\ line = "oob")
                   THEN ensure_usage(s1, q) ELSE s1
             t  == IF s2.tq[q].len > INPUT_HIWAT THEN task_suspend_input(s2, q) ELSE s2
         IN /\ Touches(s, t, q) /\ QueueOK(t, q, n)
            /\ HeapOK(t) /\ Linked(t, q, n) /\ t.tq[q].input # <<>>
<1> DEFINE s1 == WithInput(s, q, l, m)
           r  == s1.tq[q]
           s2 == IF ~r.hold \/ r.reading # NoTask \/ (~r.no_oob /\ line = "oob")
                 THEN ensure_usage(s1, q) ELSE s1
           t  == IF s2.tq[q].len > INPUT_HIWAT THEN task_suspend_input(s2, q) ELSE s2
<1>1. HeapOK(s1)
  <2> DEFINE v == [s EXCEPT !.tq[q].input = l, !.tq[q].len = m]
  <2>1. HeapOK(v)
    BY SetInput DEF Preserves
  <2>2. v = s1
    BY DEF HeapOK, HeapType, WithInput, WithLines
  <2> HIDE DEF v, s1
  <2> QED BY <2>1, <2>2
<1>2. /\ Touches(s, s1, q) /\ s1.idle = s.idle /\ s1.handles = s.handles
      /\ r = WithLines(s.tq[q], l, m)
  BY SetInputEffect
<1>3. s.tq[q] \in TQueue
  BY DEF HeapOK, HeapType
<1> HIDE DEF s1
<1>4. /\ r.suspended = s.tq[q].suspended /\ r.input = l
      /\ r.len = m /\ r.player = s.tq[q].player
      /\ r.bg = s.tq[q].bg /\ r.reading = s.tq[q].reading
      /\ r.connected = s.tq[q].connected /\ r.hold = s.tq[q].hold
      /\ r.no_oob = s.tq[q].no_oob /\ r \in TQueue
  BY <1>2, <1>3 DEF TQueue, WithLines
<1>5. Heard(s1, q)
  BY <1>2, <1>4 DEF Heard, QueueOK
<1>6. Linked(s1, q, n)
  BY <1>2, <1>4, TouchesLinked
<1>7. /\ HeapOK(s2) /\ Touches(s1, s2, q) /\ QueueOK(s2, q, n)
      /\ Linked(s2, q, n) /\ s2.tq[q].input # <<>>
  <2>1. CASE ~r.hold \/ r.reading # NoTask \/ (~r.no_oob /\ line = "oob")
    <3> DEFINE u == ensure_usage(s1, q)
    <3>1. s2 = u
      BY <2>1
    <3>2. /\ HeapOK(u) /\ Touches(s1, u, q) /\ q \notin u.idle /\ u.handles = s1.handles
          /\ u.tq[q] = [r EXCEPT !.usage = u.tq[q].usage]
      BY <1>1, EnsureUsage, EnsureUsageEffect DEF Preserves
    <3> HIDE DEF u
    <3>3. /\ u.tq[q].suspended = r.suspended /\ u.tq[q].input = l /\ u.tq[q].len = m
          /\ u.tq[q].player = r.player /\ u.tq[q].bg = r.bg
          /\ u.tq[q].connected = r.connected
      BY <1>4, <3>2 DEF TQueue
    <3>4. Heard(u, q) /\ Linked(u, q, n)
      BY <1>4, <1>5, <1>6, <3>2, <3>3, TouchesLinked DEF Heard
    <3>5. QueueOK(u, q, n)
      BY <1>4, <3>2, <3>3, <3>4 DEF QueueOK
    <3> QED BY <3>1, <3>2, <3>3, <3>4, <3>5
  <2>2. CASE ~(~r.hold \/ r.reading # NoTask \/ (~r.no_oob /\ line = "oob"))
    <3>1. s2 = s1
      BY <2>2
    <3>2. Quiet(s.tq[q]) => Quiet(r)
      BY <1>4, <2>2 DEF Quiet
    <3>3. QueueOK(s1, q, n)
      BY <1>2, <1>3, <1>4, <1>5, <3>2, NothingToDoIsQuiet DEF QueueOK
    <3> QED BY <1>1, <1>4, <1>6, <3>1, <3>3, TouchesNothing
  <2> QED BY <2>1, <2>2
<1> HIDE DEF s2
<1>8. /\ Touches(s2, t, q) /\ QueueOK(t, q, n) /\ HeapOK(t) /\ Linked(t, q, n)
      /\ t.tq[q].input # <<>>
  <2>1. CASE s2.tq[q].len > INPUT_HIWAT
    <3> DEFINE u == task_suspend_input(s2, q)
    <3>1. HeapOK(u) /\ Touches(s2, u, q) /\ QueueOK(u, q, n)
      BY <1>7, SuspendInput, SuspendInputWork DEF Preserves
    <3>2. FlowSet(s2, u, q, TRUE) \/ u = s2
      BY <1>7, SuspendInputEffect
    <3> HIDE DEF u
    <3>3. s2.tq[q] \in TQueue
      BY <1>7 DEF HeapOK, HeapType
    <3>4. /\ u.tq[q].input = s2.tq[q].input /\ u.tq[q].connected = s2.tq[q].connected
          /\ u.tq[q].player = s2.tq[q].player
      BY <3>2, <3>3 DEF FlowSet, TQueue
    <3>5. Linked(u, q, n)
      BY <1>7, <3>1, <3>4, TouchesLinked
    <3> QED BY <1>7, <2>1, <3>1, <3>4, <3>5 DEF u
  <2>2. CASE ~(s2.tq[q].len > INPUT_HIWAT)
    BY <1>7, <2>2, TouchesNothing
  <2> QED BY <2>1, <2>2
<1>9. Touches(s, t, q)
  BY <1>2, <1>7, <1>8, TouchesChain
<1> HIDE DEF t
<1> QED BY <1>8, <1>9 DEF t, s2, s1

(* enqueue_input_task(). *)
LEMMA EnqueueInputWork ==
  ASSUME NEW s, HeapOK(s), NEW q \in QueueIds, NEW n, Linked(s, q, n), QueueOK(s, q, n),
         NEW line \in LineKinds, NEW at_front \in BOOLEAN
  PROVE  LET t == enqueue_input_task(s, q, line, at_front)
         IN /\ Touches(s, t, q) /\ QueueOK(t, q, n)
            /\ HeapOK(t) /\ Linked(t, q, n) /\ t.tq[q].input # <<>>
<1> DEFINE old == s.tq[q].input
           l == IF at_front THEN InsertAt(old, 1, line) ELSE Append(old, line)
           m == s.tq[q].len + Length(line)
           s1 == WithInput(s, q, l, m)
           r  == s1.tq[q]
           s2 == IF ~r.hold \/ r.reading # NoTask \/ (~r.no_oob /\ line = "oob")
                 THEN ensure_usage(s1, q) ELSE s1
           t  == IF s2.tq[q].len > INPUT_HIWAT THEN task_suspend_input(s2, q) ELSE s2
<1>1. s.tq[q] \in TQueue /\ old \in Seq(LineKinds) /\ s.tq[q].len \in Int
  BY DEF HeapOK, HeapType, TQueue
<1>2. s1 = [s EXCEPT !.tq[q].input = IF at_front THEN InsertAt(@, 1, line)
                                     ELSE Append(@, line),
                     !.tq[q].len = @ + Length(line)]
  BY DEF HeapOK, HeapType, WithInput, WithLines
<1>3. enqueue_input_task(s, q, line, at_front) = t
  <2> HIDE DEF s1
  <2> QED BY <1>2 DEF enqueue_input_task
<1>4. m \in Int
  BY <1>1, LengthType
<1>5. l \in Seq(LineKinds) /\ l # <<>> /\ Elems(l) = Elems(old) \cup {line}
  <2> HIDE DEF old
  <2>1. CASE at_front
    <3>1. 1 \in 1 .. Len(old) + 1
      BY <1>1
    <3>2. InsertAt(old, 1, line) # <<>>
      BY <1>1 DEF InsertAt
    <3> QED BY <1>1, <2>1, <3>1, <3>2, InsertAtType, InsertAtElems
  <2>2. CASE ~at_front
    <3>1. /\ Append(old, line) \in Seq(LineKinds) /\ Append(old, line) # <<>>
          /\ DOMAIN Append(old, line) = 1 .. Len(old) + 1 /\ DOMAIN old = 1 .. Len(old)
          /\ Len(old) \in Nat
          /\ \A i \in 1 .. Len(old) + 1 :
               Append(old, line)[i] = IF i = Len(old) + 1 THEN line ELSE old[i]
      BY <1>1
    <3> DEFINE a == Append(old, line)
    <3> HIDE DEF a
    <3>2. Elems(a) = Elems(old) \cup {line}
      <4>1. Len(old) + 1 \in DOMAIN a /\ a[Len(old) + 1] = line
        BY <3>1 DEF a
      <4>2. \A i \in DOMAIN a : i = Len(old) + 1 \/ (i \in DOMAIN old /\ a[i] = old[i])
        BY <3>1 DEF a
      <4>3. \A i \in DOMAIN old : i \in DOMAIN a /\ a[i] = old[i]
        BY <3>1 DEF a
      <4> QED BY <4>1, <4>2, <4>3 DEF Elems
    <3> QED BY <2>2, <3>1, <3>2 DEF a
  <2> QED BY <2>1, <2>2
<1>6. Sums(l, m)
  <2>1. Sums(old, s.tq[q].len)
    BY DEF QueueOK
  <2>2. 1 \in 1 .. Len(old) + 1
    BY SMTT(30), <1>1
  <2> HIDE DEF old
  <2> QED BY <1>1, <2>1, <2>2, SumsInsertAt, SumsAppend
<1> HIDE DEF l, m
<1>7. /\ Touches(s, t, q) /\ QueueOK(t, q, n)
      /\ HeapOK(t) /\ Linked(t, q, n) /\ t.tq[q].input # <<>>
  BY <1>4, <1>5, <1>6, LengthenWork
<1> HIDE DEF t
<1> QED BY <1>3, <1>7

(* new_input_task(). *)
LEMMA NewInputWork ==
  ASSUME NEW s, HeapOK(s), NEW q \in QueueIds, NEW n, Linked(s, q, n), QueueOK(s, q, n),
         NEW line \in LineKinds
  PROVE  LET t == new_input_task(s, q, line)
         IN Touches(s, t, q) /\ QueueOK(t, q, n)
<1>1. CASE line = "flush"
  BY <1>1, DequeueAllWork DEF new_input_task
<1>2. CASE line # "flush"
  BY <1>2, EnqueueInputWork DEF new_input_task
<1> QED BY <1>1, <1>2
-----------------------------------------------------------------------------
(* Tasks *)

(* The queues r and u differ at most in their usage and num_bg. *)
Alike(r, u) ==
  /\ u.player = r.player /\ u.connected = r.connected /\ u.input = r.input
  /\ u.len = r.len /\ u.suspended = r.suspended /\ u.bg = r.bg
  /\ u.hold = r.hold /\ u.no_oob = r.no_oob /\ u.reading = r.reading

(* Connections are left alone, or closed. *)
ClosesOnly(s, t) ==
  \A h \in ConnIds : t.handles[h].open => /\ s.handles[h].open
                                          /\ t.handles[h].queue = s.handles[h].queue
                                          /\ t.handles[h].paused = s.handles[h].paused

(* Queues that stay as they are stay in order. *)
LEMMA AlikeWork ==
  ASSUME NEW s, HeapOK(s), NEW t, HeapOK(t), NEW n, WorkOK(s, n), ClosesOnly(s, t),
         \A k \in QueueIds : \/ Alike(s.tq[k], t.tq[k]) /\ (k \in t.idle => k \in s.idle)
                             \/ QueueOK(t, k, n),
         WaitingOK(t)
  PROVE  WorkOK(t, n)
<1> SUFFICES ASSUME NEW k \in QueueIds, Alike(s.tq[k], t.tq[k]), k \in t.idle => k \in s.idle
             PROVE  QueueOK(t, k, n)
  BY DEF WorkOK
<1>1. s.tq[k] \in TQueue /\ t.tq[k] \in TQueue
  BY DEF HeapOK, HeapType
<1>2. Quiet(t.tq[k]) <=> Quiet(s.tq[k])
  BY DEF Quiet, Alike
<1>3. QueueOK(s, k, n)
  BY DEF WorkOK
<1>4. Heard(t, k)
  BY <1>3 DEF Heard, QueueOK, Alike, ClosesOnly
<1> QED BY <1>1, <1>2, <1>3, <1>4, NothingToDoIsQuiet DEF QueueOK, Alike

(* find_tqueue() makes a queue that has nothing to do. *)
LEMMA FindTQueueWork ==
  ASSUME NEW s, HeapOK(s), NEW n, WorkOK(s, n), NEW p \in Int, HasRoomFor(s, p),
         \A h \in ConnIds : s.handles[h].open => s.handles[h].queue \in Live(s)
  PROVE  WorkOK(find_tqueue(s, p), n)
<1> DEFINE t == find_tqueue(s, p)
           u == TQueueOf(t, p)
<1>1. CASE HasTQueue(s, p)
  BY <1>1 DEF find_tqueue
<1>2. CASE ~HasTQueue(s, p)
  <2>1. /\ u \in QueueIds \ Live(s) /\ Live(t) = Live(s) \cup {u}
        /\ t.tq = [s.tq EXCEPT ![u] = FreshQueue(p)]
        /\ t.active = s.active /\ t.waiting = s.waiting /\ t.handles = s.handles
    BY <1>2, FindTQueueNew
  <2>2. HeapOK(t)
    BY FindTQueue DEF Preserves
  <2> HIDE DEF t, u
  <2>3. t.tq[u] = FreshQueue(p) /\ \A k \in QueueIds \ {u} : t.tq[k] = s.tq[k]
    BY <2>1 DEF HeapOK, HeapType
  <2>4. \A k \in QueueIds \ {u} : k \in t.idle <=> k \in s.idle
    BY <2>1, <2>2 DEF Live, Elems, HeapOK
  <2>5. Touches(s, t, u)
    BY <2>1, <2>3, <2>4 DEF Touches
  <2>6. Quiet(FreshQueue(p)) /\ FreshQueue(p) \in TQueue
    BY FreshQueueType DEF Quiet, FreshQueue
  <2>7. /\ FreshQueue(p).bg = <<>> /\ FreshQueue(p).input = <<>> /\ FreshQueue(p).len = 0
        /\ FreshQueue(p).suspended = FALSE
    BY DEF FreshQueue
  <2>8. Heard(t, u)
    BY <2>1 DEF Heard
  <2>9. QueueOK(t, u, n)
    BY <2>3, <2>6, <2>7, <2>8, NothingToDoIsQuiet, SumsNothing DEF QueueOK
  <2>10. WorkOK(t, n)
    BY <2>1, <2>5, <2>9, TouchesWork
  <2> QED BY <2>10 DEF t
<1> QED BY <1>1, <1>2

(* Tasks are put on a queue or taken from it. *)
LEMMA WithTasksWork ==
  ASSUME NEW s, HeapOK(s), NEW n, WorkOK(s, n), NEW q \in QueueIds, NEW b, NEW m, NEW w,
         HeapOK(WithTasks(s, q, b, m, w)),
         NoConnectionTasks => /\ s.tq[q].player < 0 => b = <<>>
                              /\ q \in s.idle => b = s.tq[q].bg
                              /\ \A i \in DOMAIN w : w[i].progr >= 0
  PROVE  WorkOK(WithTasks(s, q, b, m, w), n)
<1> DEFINE r == [s.tq[q] EXCEPT !.bg = b, !.num_bg = m]
           t == WithTasks(s, q, b, m, w)
<1>1. t = [s EXCEPT !.tq[q] = r, !.waiting = w]
  BY DEF WithTasks
<1>2. s.tq[q] \in TQueue
  BY DEF HeapOK, HeapType
<1>3. /\ r.player = s.tq[q].player /\ r.connected = s.tq[q].connected
      /\ r.input = s.tq[q].input /\ r.len = s.tq[q].len
      /\ r.suspended = s.tq[q].suspended /\ r.bg = b /\ r.hold = s.tq[q].hold
      /\ r.no_oob = s.tq[q].no_oob /\ r.reading = s.tq[q].reading
  BY <1>2 DEF TQueue
<1> HIDE DEF r, t
<1>4. /\ t.tq = [s.tq EXCEPT ![q] = r] /\ t.idle = s.idle /\ t.handles = s.handles
      /\ t.waiting = w
  BY <1>1 DEF HeapOK, HeapType
<1>5. t.tq[q] = r /\ \A k \in QueueIds \ {q} : t.tq[k] = s.tq[k]
  BY <1>4 DEF HeapOK, HeapType
<1>6. HeapOK(t)
  BY DEF t
<1>7. QueueOK(t, q, n)
  <2>1. r \in TQueue
    BY <1>5, <1>6 DEF HeapOK, HeapType
  <2>2. b = s.tq[q].bg => (Quiet(r) <=> Quiet(s.tq[q]))
    BY <1>3 DEF Quiet
  <2>3. QueueOK(s, q, n)
    BY DEF WorkOK
  <2>4. Heard(t, q)
    BY <1>3, <1>4, <1>5, <2>3 DEF Heard, QueueOK
  <2> QED BY <1>2, <1>3, <1>4, <1>5, <2>1, <2>2, <2>3, <2>4, NothingToDoIsQuiet DEF QueueOK
<1>8. WaitingOK(t)
  BY <1>4 DEF WaitingOK
<1>9. WorkOK(t, n)
  BY ZenonT(40), <1>4, <1>5, <1>6, <1>7, <1>8, AlikeWork DEF Alike, ClosesOnly
<1> QED BY <1>9 DEF t

(* enqueue_waiting(). *)
LEMMA EnqueueWaitingWork ==
  ASSUME NEW s, HeapOK(s), OwnersOK(s), NEW n, WorkOK(s, n), NEW t \in Task,
         HasRoomFor(s, t.progr), NEW i \in WaitingPlaces(s, t),
         NoConnectionTasks => t.progr >= 0
  PROVE  WorkOK(enqueue_waiting(s, t, i), n)
<1> DEFINE p == t.progr
           s1 == find_tqueue(s, p)
           q == TQueueOf(s1, p)
           b == s1.tq[q].bg
           m == s1.tq[q].num_bg + 1
           w == InsertAt(s1.waiting, i, t)
           u == enqueue_waiting(s, t, i)
<1>1. /\ HeapOK(s1) /\ q \in Live(s1) /\ s1.tq[q].player = p
      /\ s1.waiting = s.waiting /\ WorkOK(s1, n)
  <2>1. p \in Int BY DEF Task
  <2> QED BY <2>1, FindTQueueOwners, FindTQueueWork DEF OwnersOK, ConnectionsOK
<1>2. HeapOK(u)
  BY EnqueueWaiting DEF Preserves
<1>3. u = [s1 EXCEPT !.tq[q].num_bg = @ + 1, !.waiting = InsertAt(@, i, t)]
  BY DEF enqueue_waiting
<1> HIDE DEF s1, q, u, p
<1>4. q \in QueueIds /\ s1.tq[q] \in TQueue
  <2>1. q \in QueueIds BY <1>1, LiveType
  <2> QED BY <1>1, <2>1 DEF HeapOK, HeapType
<1>5. u = WithTasks(s1, q, b, m, w)
  <2>1. [s1.tq[q] EXCEPT !.bg = b, !.num_bg = m] = [s1.tq[q] EXCEPT !.num_bg = m]
    BY <1>4 DEF TQueue
  <2> QED BY <1>3, <2>1 DEF WithTasks
<1>6. NoConnectionTasks => \A j \in DOMAIN w : w[j].progr >= 0
  <2>1. s1.waiting \in Seq(Task) /\ i \in 1 .. Len(s1.waiting) + 1
    <3>1. s1.waiting \in Seq(Task) BY <1>1 DEF HeapOK, HeapType
    <3> QED BY <1>1, <3>1 DEF WaitingPlaces
  <2>2. Elems(w) = Elems(s1.waiting) \cup {t}
    BY <2>1, InsertAtElems
  <2> HIDE DEF w
  <2>3. NoConnectionTasks => \A x \in Elems(w) : x.progr >= 0
    BY <1>1, <2>2 DEF WorkOK, WaitingOK, Elems
  <2> QED BY <2>3 DEF Elems
<1>7. NoConnectionTasks => (s1.tq[q].player < 0 => b = <<>>)
  BY <1>1, <1>4 DEF WorkOK, QueueOK
<1> HIDE DEF m, w
<1>8. WorkOK(u, n)
  BY <1>1, <1>2, <1>4, <1>5, <1>6, <1>7, WithTasksWork
<1> QED BY <1>8 DEF u
(* make_ready(): the task's queue becomes active. *)
LEMMA MakeReadyWork ==
  ASSUME NEW s, HeapOK(s), OwnersOK(s), NEW n, WorkOK(s, n), NEW i \in DOMAIN s.waiting
  PROVE  WorkOK(make_ready(s, i, s.waiting[i]), n)
<1> DEFINE t == s.waiting[i]
           p == t.progr
           w == RemoveAt(s.waiting, i)
           s0 == [s EXCEPT !.waiting = w]
           s1 == find_tqueue(s0, p)
           q == TQueueOf(s1, p)
           s2 == ensure_usage(s1, q)
           u == make_ready(s, i, t)
<1>1. HasTQueue(s, p)
  BY DEF OwnersOK, TasksOK
<1>2. HeapOK(u)
  BY <1>1, MakeReady DEF Preserves, HasRoomFor
<1>3. /\ s.waiting \in Seq(Task) /\ w \in Seq(Task) /\ t \in Task
      /\ \A j \in DOMAIN w : \E k \in DOMAIN s.waiting : w[j] = s.waiting[k]
  <2>1. s.waiting \in Seq(Task) BY DEF HeapOK, HeapType
  <2> QED BY <2>1, RemoveInsert
<1>4. u = enqueue_bg_task(s2, q, t)
  BY DEF make_ready
<1>5. NoConnectionTasks => /\ p >= 0
                           /\ \A j \in DOMAIN w : w[j].progr >= 0
  <2>1. NoConnectionTasks => \A j \in DOMAIN s.waiting : s.waiting[j].progr >= 0
    BY DEF WorkOK, WaitingOK
  <2> QED BY <1>3, <2>1
<1>5a. p \in Int
  BY <1>3 DEF Task
<1> HIDE DEF w, t, u
<1>6. /\ HeapOK(s0) /\ s0.waiting = w /\ s0.tq = s.tq /\ s0.active = s.active
      /\ s0.idle = s.idle /\ s0.handles = s.handles
  <2>1. HeapOK(s0)
    BY <1>3, SetWaiting DEF Preserves
  <2> QED BY <2>1 DEF HeapOK, HeapType
<1> HIDE DEF s0, p
<1>7. HasTQueue(s0, p) /\ Live(s0) = Live(s)
  BY <1>1, <1>6 DEF HasTQueue, Live
<1>8. s1 = s0
  BY <1>7 DEF find_tqueue
<1> HIDE DEF s1
<1>9. q \in QueueIds /\ s.tq[q].player = p
  BY <1>6, <1>7, <1>8, TQueueOfLive
<1> HIDE DEF q
<1>10. WorkOK(s0, n)
  BY <1>5, <1>6, AlikeWork DEF Alike, ClosesOnly, WaitingOK
<1>11. /\ HeapOK(s2) /\ Touches(s0, s2, q) /\ q \notin s2.idle /\ s2.handles = s0.handles
       /\ s2.tq[q] = [s0.tq[q] EXCEPT !.usage = s2.tq[q].usage]
  BY <1>6, <1>8, <1>9, EnsureUsage, EnsureUsageEffect DEF Preserves
<1> HIDE DEF s2
<1>12. s0.tq[q] \in TQueue /\ s2.tq[q] \in TQueue
  BY <1>6, <1>9, <1>11 DEF HeapOK, HeapType
<1>13. Alike(s0.tq[q], s2.tq[q])
  BY <1>11, <1>12 DEF Alike, TQueue
<1>14. WorkOK(s2, n) /\ s2.waiting = w
  <2>1. \A k \in QueueIds : Alike(s0.tq[k], s2.tq[k]) /\ (k \in s2.idle => k \in s0.idle)
    BY <1>11, <1>13 DEF Touches, Alike
  <2>2. s2.waiting = w
    BY <1>6, <1>11 DEF Touches
  <2> QED BY <1>5, <1>6, <1>10, <1>11, <2>1, <2>2, AlikeWork DEF ClosesOnly, WaitingOK
<1> DEFINE b == Append(s2.tq[q].bg, t)
<1>15. u = WithTasks(s2, q, b, s2.tq[q].num_bg, s2.waiting)
  <2>1. [s2.tq[q] EXCEPT !.bg = b, !.num_bg = s2.tq[q].num_bg] = [s2.tq[q] EXCEPT !.bg = b]
    BY <1>12 DEF TQueue
  <2>2. u = [s2 EXCEPT !.tq[q] = [s2.tq[q] EXCEPT !.bg = b]]
    BY <1>4, <1>12 DEF enqueue_bg_task
  <2> HIDE DEF b
  <2> QED BY <1>11, <2>1, <2>2 DEF HeapOK, HeapType, WithTasks
<1>16. NoConnectionTasks => ~(s2.tq[q].player < 0)
  <2>1. s2.tq[q].player = p
    BY <1>6, <1>9, <1>13 DEF Alike
  <2> QED BY <1>5, <1>5a, <2>1
<1> HIDE DEF b
<1>17. WorkOK(u, n)
  BY <1>2, <1>5, <1>9, <1>11, <1>14, <1>15, <1>16, WithTasksWork
<1> QED BY <1>17 DEF u, t

(* A background task leaves an active queue. *)
LEMMA RemoveBgWork ==
  ASSUME NEW s, HeapOK(s), OwnersOK(s), NEW n, WorkOK(s, n), NEW q \in Live(s), q \notin s.idle,
         NEW i \in DOMAIN s.tq[q].bg
  PROVE  WorkOK(WithoutBg(s, q, i), n)
<1> DEFINE b == RemoveAt(s.tq[q].bg, i)
           m == s.tq[q].num_bg - 1
           u == WithoutBg(s, q, i)
<1>1. q \in QueueIds /\ s.tq[q] \in TQueue /\ s.tq[q].bg \in Seq(Task)
  <2>1. q \in QueueIds BY LiveType
  <2> QED BY <2>1, QueueFields DEF HeapOK, HeapType
<1>2. u = WithTasks(s, q, b, m, s.waiting)
  BY <1>1 DEF WithTasks, WithoutBg, HeapOK, HeapType
<1>3. HeapOK(u)
  BY RemoveBgOwners
<1>4. NoConnectionTasks => ~(s.tq[q].player < 0)
  BY <1>1 DEF WorkOK, QueueOK
<1>5. WaitingOK(s)
  BY DEF WorkOK
<1> HIDE DEF u, b, m
<1>6. WorkOK(u, n)
  BY <1>1, <1>2, <1>3, <1>4, <1>5, WithTasksWork DEF WaitingOK
<1> QED BY <1>6 DEF u

(* dequeue_bg_task() *)
LEMMA DequeueBgWork ==
  ASSUME NEW s, HeapOK(s), OwnersOK(s), NEW n, WorkOK(s, n), NEW q \in Live(s), q \notin s.idle,
         s.tq[q].bg # <<>>
  PROVE  WorkOK(dequeue_bg_task(s, q), n)
<1>1. q \in QueueIds /\ s.tq[q].bg \in Seq(Task)
  <2>1. q \in QueueIds BY LiveType
  <2> QED BY <2>1, QueueFields
<1>2. 1 \in DOMAIN s.tq[q].bg /\ Tail(s.tq[q].bg) = RemoveAt(s.tq[q].bg, 1)
  BY <1>1 DEF RemoveAt
<1>3. dequeue_bg_task(s, q) = WithoutBg(s, q, 1)
  BY <1>1, <1>2 DEF dequeue_bg_task, WithoutBg, HeapOK, HeapType
<1> QED BY <1>2, <1>3, RemoveBgWork

(* A waiting task is killed. *)
LEMMA KillWaitingWork ==
  ASSUME NEW s, HeapOK(s), OwnersOK(s), NEW n, WorkOK(s, n), NEW i \in DOMAIN s.waiting
  PROVE  LET p == s.waiting[i].progr
             s0 == [s EXCEPT !.waiting = RemoveAt(@, i)]
             u == IF HasTQueue(s0, p)
                  THEN [s0 EXCEPT !.tq[TQueueOf(s0, p)].num_bg = @ - 1] ELSE s0
         IN WorkOK(u, n)
<1> DEFINE p == s.waiting[i].progr
           w == RemoveAt(s.waiting, i)
           s0 == [s EXCEPT !.waiting = w]
           q == TQueueOf(s0, p)
           v == [s0 EXCEPT !.tq[q].num_bg = @ - 1]
           u == IF HasTQueue(s0, p) THEN v ELSE s0
<1>1. HeapOK(u)
  BY KillWaitingOwners
<1>2. /\ s.waiting \in Seq(Task) /\ w \in Seq(Task)
      /\ \A j \in DOMAIN w : \E k \in DOMAIN s.waiting : w[j] = s.waiting[k]
  <2>1. s.waiting \in Seq(Task) BY DEF HeapOK, HeapType
  <2> QED BY <2>1, RemoveInsert
<1>3. NoConnectionTasks => \A j \in DOMAIN w : w[j].progr >= 0
  <2>1. NoConnectionTasks => \A j \in DOMAIN s.waiting : s.waiting[j].progr >= 0
    BY DEF WorkOK, WaitingOK
  <2> QED BY <1>2, <2>1
<1> HIDE DEF w
<1>4. /\ HeapOK(s0) /\ s0.waiting = w /\ s0.tq = s.tq /\ s0.active = s.active
      /\ s0.idle = s.idle /\ s0.handles = s.handles
  <2>1. HeapOK(s0)
    BY <1>2, SetWaiting DEF Preserves
  <2> QED BY <2>1 DEF HeapOK, HeapType
<1>5. HasTQueue(s, p)
  BY DEF OwnersOK, TasksOK
<1> HIDE DEF s0, p
<1>6. HasTQueue(s0, p)
  BY <1>4, <1>5 DEF HasTQueue, Live
<1>7. q \in QueueIds
  BY <1>4, <1>6, TQueueOfLive
<1> HIDE DEF q
<1>8. s0.tq[q] \in TQueue
  BY <1>4, <1>7 DEF HeapOK, HeapType
<1> DEFINE r == [s0.tq[q] EXCEPT !.num_bg = @ - 1]
<1>9. Alike(s0.tq[q], r)
  BY <1>8 DEF Alike, TQueue
<1>10. v = [s0 EXCEPT !.tq[q] = r]
  BY <1>4 DEF HeapOK, HeapType
<1> HIDE DEF r, v
<1>11. /\ v.tq = [s0.tq EXCEPT ![q] = r] /\ v.idle = s.idle /\ v.handles = s.handles
       /\ v.waiting = w
  BY <1>4, <1>10 DEF HeapOK, HeapType
<1>12. \A k \in QueueIds : v.tq[k] = IF k = q THEN r ELSE s.tq[k]
  BY <1>4, <1>11 DEF HeapOK, HeapType
<1>13. u = v
  BY <1>6
<1> HIDE DEF u
<1>14. \A k \in QueueIds : Alike(s.tq[k], u.tq[k])
  BY <1>4, <1>9, <1>12, <1>13 DEF Alike
<1>15. WorkOK(u, n)
  BY <1>1, <1>3, <1>11, <1>13, <1>14, AlikeWork DEF ClosesOnly, WaitingOK
<1> QED BY <1>15 DEF u, v, q, s0, p, w
-----------------------------------------------------------------------------
(* Fields of one queue *)

(* The fields in which the queues r and u may differ decide whether there is
   anything to do, and nothing else. *)
SameWork(r, u) ==
  /\ u.player = r.player /\ u.input = r.input /\ u.len = r.len
  /\ u.suspended = r.suspended /\ u.bg = r.bg

(* A queue whose options, reader or connection change stays in order if it
   becomes active, and if it is still quiet. *)
LEMMA SetFieldsWork ==
  ASSUME NEW s, HeapOK(s), NEW q \in QueueIds, NEW n, QueueOK(s, q, n),
         NEW r \in TQueue, SameWork(s.tq[q], r), HeapOK([s EXCEPT !.tq[q] = r]),
         NEW b \in BOOLEAN, NoConnectionTasks /\ ~b /\ q \in s.idle => Quiet(r)
  PROVE  LET s1 == [s EXCEPT !.tq[q] = r]
             t  == IF b THEN ensure_usage(s1, q) ELSE s1
         IN Touches(s, t, q) /\ QueueOK(t, q, n)
<1> DEFINE s1 == [s EXCEPT !.tq[q] = r]
           e == ensure_usage(s1, q)
           t == IF b THEN e ELSE s1
<1>1. /\ Touches(s, s1, q) /\ s1.tq[q] = r /\ s1.idle = s.idle
      /\ s1.handles = s.handles /\ HeapOK(s1)
  BY ReplaceQueue
<1> HIDE DEF s1
<1>2. /\ Touches(s1, e, q) /\ q \notin e.idle /\ e.handles = s.handles
      /\ e.tq[q] = [r EXCEPT !.usage = e.tq[q].usage]
  BY <1>1, EnsureUsageEffect
<1> HIDE DEF e
<1>3. Touches(s, t, q)
  BY <1>1, <1>2, TouchesChain
<1>4. SameWork(s.tq[q], t.tq[q]) /\ t.handles = s.handles
  BY <1>1, <1>2 DEF SameWork, TQueue
<1>5. NoConnectionTasks => (q \in t.idle => NothingToDo(t.tq[q]))
  BY <1>1, <1>2, NothingToDoIsQuiet
<1> HIDE DEF t
<1>6. QueueOK(t, q, n)
  BY <1>4, <1>5 DEF QueueOK, SameWork, Heard
<1> QED BY <1>3, <1>6 DEF t, e, s1

(* free_shandle(): a connection is closed, the only one on its queue.  A reader
   left behind makes the queue active. *)
LEMMA FreeShandleWork ==
  ASSUME NEW s, HeapOK(s), NEW n, WorkOK(s, n), NEW h \in ConnIds, s.handles[h].open,
         \A k \in ConnIds : s.handles[k].open /\ s.handles[k].queue = s.handles[h].queue
                              => k = h
  PROVE  WorkOK(free_shandle(s, h), n)
<1> DEFINE q == s.handles[h].queue
           c == ClosedHandle(h)
           s0 == [s EXCEPT !.handles[h] = c]
           r == [s0.tq[q] EXCEPT !.connected = FALSE]
           s1 == [s0 EXCEPT !.tq[q] = r]
           b == r.reading # NoTask
           t == IF b THEN ensure_usage(s1, q) ELSE s1
<1>1. q \in QueueIds
  BY DEF HeapOK
<1>2. ~c.open /\ c \in Handle
  BY ClosedHandleType, ConnIdsType
<1> HIDE DEF c
<1>3. /\ HeapOK(s0) /\ s0.tq = s.tq /\ s0.idle = s.idle /\ s0.waiting = s.waiting
      /\ s0.handles = [s.handles EXCEPT ![h] = c] /\ ~c.open
  <2>1. c.open => c.queue \in QueueIds
    BY <1>2
  <2>2. /\ HeapOK(s0) /\ s0.tq = s.tq /\ s0.idle = s.idle /\ s0.waiting = s.waiting
        /\ s0.handles = [s.handles EXCEPT ![h] = c]
    BY <1>2, <2>1, SetHandle
  <2> QED BY <1>2, <2>2
<1> HIDE DEF s0, q
<1>4. \A k \in ConnIds : s0.handles[k].open => k # h /\ s0.handles[k] = s.handles[k]
  BY <1>3 DEF HeapOK, HeapType
<1>5. \A k \in ConnIds : s0.handles[k].open => s0.handles[k].queue # q
  BY <1>4 DEF q
<1>6. s0.tq[q] \in TQueue
  BY <1>1, <1>3 DEF HeapOK, HeapType
<1>7. r \in TQueue /\ SameWork(s0.tq[q], r) /\ r.reading = s0.tq[q].reading
      /\ r.hold = s0.tq[q].hold /\ r.no_oob = s0.tq[q].no_oob
  BY <1>6 DEF TQueue, SameWork
<1>8. WorkOK(s0, n)
  BY <1>3, <1>4, AlikeWork DEF ClosesOnly, Alike, WaitingOK, WorkOK
<1>9. QueueOK(s0, q, n)
  BY <1>1, <1>8 DEF WorkOK
<1>10. s1 = [s0 EXCEPT !.tq[q].connected = FALSE]
  BY <1>1, <1>3 DEF HeapOK, HeapType
<1>11. HeapOK(s1)
  BY <1>1, <1>3, <1>10, SetConnected
<1>12. s1.tq[q] = r
  BY <1>1, <1>3, <1>6 DEF HeapOK, HeapType
<1>13. free_shandle(s, h) = t
  BY <1>10, <1>12 DEF free_shandle, free_task_queue, q, s0, c
<1> HIDE DEF r
<1>14. NoConnectionTasks /\ ~b /\ q \in s0.idle => Quiet(r)
  BY <1>6, <1>7, <1>9, NothingToDoIsQuiet DEF QueueOK, Quiet, SameWork
<1> HIDE DEF b
<1>15. Touches(s0, t, q) /\ QueueOK(t, q, n)
  <2>1. b \in BOOLEAN BY DEF b
  <2> QED BY <1>1, <1>3, <1>7, <1>9, <1>11, <1>14, <2>1, SetFieldsWork
<1> HIDE DEF t
<1>16. WorkOK(t, n)
  BY <1>1, <1>8, <1>15, TouchesWork
<1> QED BY <1>13, <1>16

(* A mark on a connection says nothing of its queue. *)
LEMMA MarkHandleWork ==
  ASSUME NEW s, HeapOK(s), NEW n, WorkOK(s, n), NEW h \in ConnIds, NEW b \in BOOLEAN
  PROVE  WorkOK([s EXCEPT !.handles[h].disconnect_me = b], n)
<1> DEFINE t == [s EXCEPT !.handles[h].disconnect_me = b]
<1>1. HeapOK(t)
  BY MarkHandle DEF Preserves
<1>2. /\ t.tq = s.tq /\ t.idle = s.idle /\ t.waiting = s.waiting
      /\ t.handles = [s.handles EXCEPT ![h].disconnect_me = b]
  BY DEF HeapOK, HeapType
<1> HIDE DEF t
<1>3. ClosesOnly(s, t)
  BY <1>2 DEF ClosesOnly, HeapOK, HeapType, Handle
<1>4. WorkOK(t, n)
  BY <1>1, <1>2, <1>3, AlikeWork DEF Alike, WorkOK, WaitingOK
<1> QED BY <1>4 DEF t

(* server_new_connection(): the queue that may be there already for the number
   h, of the next connection, was not connected, and so not suspended; those
   for the numbers after it still are not. *)
LEMMA ServerNewConnectionWork ==
  ASSUME NEW s, HeapOK(s), OwnersOK(s), NEW h \in ConnIds, h < NOTHING, WorkOK(s, h),
         ~s.handles[h].open, \A k \in ConnIds : s.handles[k].open => k > h,
         HasRoomFor(s, h), NEW l \in Listeners, NEW outbound \in BOOLEAN,
         NEW greet \in BOOLEAN
  PROVE  WorkOK(server_new_connection(s, h, l, outbound, greet), h - 1)
<1> DEFINE s1 == find_tqueue(s, h)
           q == TQueueOf(s1, h)
           r == [s1.tq[q] EXCEPT !.connected = TRUE]
           sc == [s1 EXCEPT !.tq[q].connected = TRUE]
           g == [open |-> TRUE, player |-> h, queue |-> q, listener |-> l,
                 logged |-> FALSE, disconnect_me |-> FALSE,
                 outbound |-> outbound, paused |-> FALSE]
           s2 == [sc EXCEPT !.handles[h] = g]
           s3 == enqueue_input_task(s2, q, "blank", FALSE)
           u == task_suspend_input(s3, q)
           t == server_new_connection(s, h, l, outbound, greet)
<1>1. t = (IF greet THEN u ELSE s2) /\ server_new_connection(s, h, l, outbound, FALSE) = s2
  BY DEF server_new_connection
<1>2. h \in Int /\ h - 1 \in Int /\ h - 1 < NOTHING
  BY ConnIdsType DEF NOTHING
<1>3. /\ OwnersOK(s2) /\ HeapOK(s2)
      /\ \A k \in ConnIds : s2.handles[k].open => s.handles[k].open \/ k = h
  <2> DEFINE v == server_new_connection(s, h, l, outbound, FALSE)
  <2>1. HeapOK(v)
    BY ServerNewConnection DEF Preserves
  <2>2. OwnersOK(v) /\ \A k \in ConnIds : v.handles[k].open => s.handles[k].open \/ k = h
    BY ServerNewConnectionOwners
  <2> HIDE DEF s2
  <2> QED BY <1>1, <2>1, <2>2
<1>4. \A k \in ConnIds : s2.handles[k].open => k > h - 1
  <2> HIDE DEF s2
  <2> QED BY <1>2, <1>3, ConnIdsType
<1>5. /\ HeapOK(s1) /\ OwnersOK(s1) /\ q \in Live(s1) /\ s1.tq[q].player = h
      /\ s1.handles = s.handles /\ WorkOK(s1, h)
  BY <1>2, FindTQueueOwners, FindTQueueWork DEF OwnersOK, ConnectionsOK
<1> HIDE DEF s1, q, u, t
<1>6. q \in QueueIds
  BY <1>5, LiveType
<1>7. \A k \in ConnIds : s1.handles[k].open => s1.handles[k].queue # q
  BY <1>2, <1>5 DEF OwnersOK, ConnectionsOK, NOTHING
<1>8. s1.tq[q] \in TQueue /\ \A k \in QueueIds : s1.tq[k] \in TQueue /\ s1.tq[k].player \in Int
  <2>1. \A k \in QueueIds : s1.tq[k] \in TQueue
    BY <1>5 DEF HeapOK, HeapType
  <2> QED BY <1>6, <2>1 DEF TQueue
<1>9. /\ r \in TQueue /\ SameWork(s1.tq[q], r) /\ r.reading = s1.tq[q].reading
      /\ r.hold = s1.tq[q].hold /\ r.no_oob = s1.tq[q].no_oob /\ r.connected = TRUE
  BY <1>8 DEF TQueue, SameWork
<1>10. /\ sc.tq = [s1.tq EXCEPT ![q] = r] /\ sc.active = s1.active /\ sc.idle = s1.idle
       /\ sc.waiting = s1.waiting /\ sc.handles = s1.handles /\ HeapOK(sc)
  <2>1. HeapOK(sc)
    BY <1>5, <1>6, SetConnected
  <2> QED BY <1>5, <2>1 DEF HeapOK, HeapType
<1> HIDE DEF sc, r
<1>11. g.queue = q /\ g.paused = FALSE
  OBVIOUS
<1> HIDE DEF g
<1>12. /\ s2.tq = sc.tq /\ s2.idle = sc.idle /\ s2.waiting = sc.waiting
       /\ s2.active = sc.active /\ s2.handles = [sc.handles EXCEPT ![h] = g]
  BY <1>10 DEF HeapOK, HeapType
<1> HIDE DEF s2
<1>13. /\ \A k \in QueueIds : s2.tq[k] = IF k = q THEN r ELSE s1.tq[k]
       /\ \A k \in ConnIds : s2.handles[k] = IF k = h THEN g ELSE s1.handles[k]
  BY <1>5, <1>10, <1>12 DEF HeapOK, HeapType
<1>14. QueueOK(s2, q, h - 1)
  <2>1. QueueOK(s1, q, h)
    BY <1>5, <1>6 DEF WorkOK
  <2>2. r.suspended = FALSE /\ s2.tq[q] = r
    BY <1>2, <1>5, <1>6, <1>8, <1>9, <1>13, <2>1 DEF QueueOK, SameWork, TQueue
  <2>3. Heard(s2, q)
    BY <1>7, <1>11, <1>13, <2>2 DEF Heard
  <2>4. NoConnectionTasks => (q \in s2.idle => NothingToDo(r))
    BY <1>8, <1>9, <1>10, <1>12, <2>1, NothingToDoIsQuiet DEF QueueOK, Quiet, SameWork
  <2> QED BY <1>9, <2>1, <2>2, <2>3, <2>4 DEF QueueOK, SameWork
<1>15. \A k \in QueueIds \ {q} : QueueOK(s2, k, h - 1)
  <2> TAKE k \in QueueIds \ {q}
  <2>1. QueueOK(s1, k, h) /\ s2.tq[k] = s1.tq[k] /\ s1.tq[k].player \in Int
    BY <1>5, <1>8, <1>13 DEF WorkOK
  <2>2. s1.tq[k].player > h => s1.tq[k].player > h - 1
    BY <1>2, <2>1
  <2>3. Heard(s2, k)
    BY <1>11, <1>13, <2>1 DEF QueueOK, Heard
  <2> QED BY <1>10, <1>12, <2>1, <2>2, <2>3 DEF QueueOK
<1>16. WorkOK(s2, h - 1)
  BY <1>5, <1>10, <1>12, <1>14, <1>15 DEF WorkOK, WaitingOK
<1>17. q \in Live(s2)
  BY <1>5, <1>10, <1>12 DEF Live
<1>18. Linked(s2, q, h - 1)
  BY <1>2, <1>3, <1>4, <1>17, OwnersLinked
<1>19. /\ Touches(s2, s3, q) /\ QueueOK(s3, q, h - 1) /\ HeapOK(s3)
       /\ Linked(s3, q, h - 1) /\ s3.tq[q].input # <<>>
  BY <1>3, <1>6, <1>14, <1>18, EnqueueInputWork DEF LineKinds
<1> HIDE DEF s3
<1>20. Touches(s3, u, q) /\ QueueOK(u, q, h - 1)
  BY <1>6, <1>19, SuspendInputWork DEF u
<1>21. WorkOK(u, h - 1)
  BY <1>6, <1>16, <1>19, <1>20, TouchesChain, TouchesWork
<1> QED BY <1>1, <1>16, <1>21 DEF t

(* The first queue has nothing to do, and leaves the active queues. *)
LEMMA DeactivateWork ==
  ASSUME NEW s, HeapOK(s), NEW n, WorkOK(s, n), s.active # <<>>,
         NothingToDo(s.tq[s.active[1]]),
         HeapOK(deactivate_tqueue([s EXCEPT !.active = Tail(@)], s.active[1]))
  PROVE  WorkOK(deactivate_tqueue([s EXCEPT !.active = Tail(@)], s.active[1]), n)
<1> DEFINE q == s.active[1]
           r == [s.tq[q] EXCEPT !.usage = NO_USAGE]
           t == deactivate_tqueue([s EXCEPT !.active = Tail(@)], q)
<1>1. q \in QueueIds
  BY TailElems DEF HeapOK, HeapType
<1>2. t = [s EXCEPT !.tq[q] = r, !.active = Tail(s.active), !.idle = s.idle \cup {q}]
  BY DEF deactivate_tqueue
<1>3. s.tq[q] \in TQueue
  BY <1>1 DEF HeapOK, HeapType
<1>4. r \in TQueue /\ Alike(s.tq[q], r) /\ NothingToDo(s.tq[q]) /\ HeapOK(t)
  BY <1>3 DEF TQueue, Alike, NO_USAGE
<1> HIDE DEF q, r, t
<1>5. /\ t.tq = [s.tq EXCEPT ![q] = r] /\ t.idle = s.idle \cup {q}
      /\ t.waiting = s.waiting /\ t.handles = s.handles
  BY <1>2 DEF HeapOK, HeapType
<1>6. \A k \in QueueIds : t.tq[k] = IF k = q THEN r ELSE s.tq[k]
  BY <1>5 DEF HeapOK, HeapType
<1>7. NothingToDo(r)
  BY <1>3, <1>4, NothingToDoIsQuiet DEF Quiet, Alike
<1>8. QueueOK(t, q, n)
  BY <1>1, <1>4, <1>5, <1>6, <1>7 DEF WorkOK, QueueOK, Alike, Heard
<1>9. \A k \in QueueIds : k # q => Alike(s.tq[k], t.tq[k]) /\ (k \in t.idle => k \in s.idle)
  BY <1>5, <1>6 DEF Alike
<1>10. WorkOK(t, n)
  BY <1>4, <1>5, <1>8, <1>9, AlikeWork DEF ClosesOnly, WorkOK, WaitingOK
<1> QED BY <1>10 DEF t, q

(* The queue that ran is charged for it, and finds its place. *)
LEMMA ChargeFirstWork ==
  ASSUME NEW s, HeapOK(s), NEW n, WorkOK(s, n), s.active # <<>>, NEW e \in Nat
  PROVE  LET q == s.active[1]
             t == [s EXCEPT !.active = RestAfter(@, q), !.tq[q].usage = @ + e]
         IN WorkOK(activate_tqueue(t, q), n)
<1> DEFINE q == s.active[1]
           l == RestAfter(s.active, q)
           m == s.tq[q].usage + e
           r == [s.tq[q] EXCEPT !.usage = m]
           t == [s EXCEPT !.active = RestAfter(@, q), !.tq[q].usage = @ + e]
           u == activate_tqueue(t, q)
<1>1. q \in QueueIds
  BY SMTT(30), TailElems DEF HeapOK, HeapType
<1>2. /\ HeapOK(t) /\ q \notin t.idle /\ q \notin Elems(t.active)
      /\ t.tq[q].usage # NO_USAGE
  BY ChargeFirst
<1>3. Alike(s.tq[q], r)
  <2>1. s.tq[q] \in TQueue BY <1>1 DEF HeapOK, HeapType
  <2> HIDE DEF m
  <2> QED BY <2>1 DEF TQueue, Alike
<1>4. t = [s EXCEPT !.active = l, !.tq[q] = r]
  OBVIOUS
<1> HIDE DEF q, l, r, t
<1>5. /\ t.tq = [s.tq EXCEPT ![q] = r] /\ t.idle = s.idle /\ t.waiting = s.waiting
      /\ t.handles = s.handles
  BY <1>4 DEF HeapOK, HeapType
<1>6. \A k \in QueueIds : t.tq[k] = IF k = q THEN r ELSE s.tq[k]
  BY <1>5 DEF HeapOK, HeapType
<1>7. HeapOK(u) /\ u = [t EXCEPT !.active = u.active]
  BY <1>1, <1>2, ActivateTQueue
<1> HIDE DEF u
<1>8. /\ u.tq = t.tq /\ u.idle = t.idle /\ u.waiting = t.waiting /\ u.handles = t.handles
  BY <1>2, <1>7 DEF HeapOK, HeapType
<1>9. \A k \in QueueIds : Alike(s.tq[k], u.tq[k])
  BY <1>3, <1>6, <1>8 DEF Alike
<1>10. WorkOK(u, n)
  BY <1>5, <1>7, <1>8, <1>9, AlikeWork DEF ClosesOnly, WorkOK, WaitingOK
<1> QED BY <1>10 DEF u, t, q

(* The queues that are freed have no connection, and none is left on them. *)
LEMMA FreeIdleTQueuesWork ==
  ASSUME NEW s, HeapOK(s), OwnersOK(s), NEW n, WorkOK(s, n)
  PROVE  WorkOK(free_idle_tqueues(s), n)
<1> DEFINE dead == {q \in s.idle : ~s.tq[q].connected /\ s.tq[q].input = <<>>
                                   /\ s.tq[q].num_bg = 0}
           f == [q \in QueueIds |-> IF q \in dead THEN FreshQueue(NOTHING) ELSE s.tq[q]]
           t == free_idle_tqueues(s)
<1>1. t = [s EXCEPT !.idle = s.idle \ dead, !.tq = f]
  BY DEF free_idle_tqueues
<1>2. HeapOK(t)
  BY FreeIdleTQueues DEF Preserves
<1>3. /\ \A q \in dead : ~s.tq[q].connected
      /\ \A q \in QueueIds : f[q] = IF q \in dead THEN FreshQueue(NOTHING) ELSE s.tq[q]
  OBVIOUS
<1> HIDE DEF dead, f, t
<1>4. /\ t.tq = f /\ t.idle = s.idle \ dead
      /\ t.waiting = s.waiting /\ t.handles = s.handles
  BY <1>1 DEF HeapOK, HeapType
<1>5. \A q \in QueueIds \cap dead : QueueOK(t, q, n)
  <2> TAKE q \in QueueIds \cap dead
  <2>1. t.tq[q] = FreshQueue(NOTHING) /\ q \notin t.idle
    BY <1>3, <1>4
  <2>2. \A h \in ConnIds : t.handles[h].open => t.handles[h].queue # q
    BY <1>3, <1>4 DEF OwnersOK, ConnectionsOK
  <2>3. Sums(<<>>, 0)
    BY SumsNothing
  <2> QED BY <2>1, <2>2, <2>3 DEF QueueOK, Heard, FreshQueue
<1>6. \A q \in QueueIds : q \notin dead => Alike(s.tq[q], t.tq[q])
                                          /\ (q \in t.idle => q \in s.idle)
  BY <1>3, <1>4 DEF Alike
<1>7. WorkOK(t, n)
  BY <1>2, <1>4, <1>5, <1>6, AlikeWork DEF ClosesOnly, WorkOK, WaitingOK
<1> QED BY <1>7 DEF t

-----------------------------------------------------------------------------
(* Logins *)

(* The queue q, an active one, is given to the player p. *)
LEMMA SetPlayerWork ==
  ASSUME NEW s, HeapOK(s), NEW n \in Int, WorkOK(s, n), NEW q \in QueueIds, q \notin s.idle,
         NEW p \in Nat, n < NOTHING
  PROVE  WorkOK([s EXCEPT !.tq[q].player = p], n)
<1> DEFINE r == [s.tq[q] EXCEPT !.player = p]
           t == [s EXCEPT !.tq[q] = r]
<1>1. s.tq[q] \in TQueue
  BY DEF HeapOK, HeapType
<1>2. /\ r.player = p /\ r.input = s.tq[q].input /\ r.len = s.tq[q].len
      /\ r.suspended = s.tq[q].suspended
  BY <1>1 DEF TQueue
<1>3. [s EXCEPT !.tq[q].player = p] = t
  BY DEF HeapOK, HeapType
<1> HIDE DEF r
<1>4. Touches(s, t, q) /\ t.tq[q] = r /\ t.idle = s.idle /\ t.handles = s.handles
  BY ReplaceQueue
<1> HIDE DEF t
<1>5. QueueOK(s, q, n)
  BY DEF WorkOK
<1>6. p > n /\ ~(p < 0)
  BY DEF NOTHING
<1>7. QueueOK(t, q, n)
  BY <1>2, <1>4, <1>5, <1>6 DEF QueueOK, Heard
<1> QED BY <1>3, <1>4, <1>7, TouchesWork

(* A connection becomes a player's. *)
LEMMA SetHandlePlayerWork ==
  ASSUME NEW s, HeapOK(s), NEW n, WorkOK(s, n), NEW h \in ConnIds, NEW p \in Int
  PROVE  WorkOK(WithPlayer(s, h, p), n)
<1> DEFINE t == WithPlayer(s, h, p)
<1>1. /\ HeapOK(t) /\ t.handles[h].open = s.handles[h].open
      /\ t.handles[h].queue = s.handles[h].queue
      /\ \A k \in ConnIds \ {h} : t.handles[k] = s.handles[k]
      /\ t.tq = s.tq /\ t.idle = s.idle /\ t.waiting = s.waiting
  BY SetHandlePlayer
<1>2. t.handles[h].paused = s.handles[h].paused
  BY DEF WithPlayer, HeapOK, HeapType, Handle
<1> HIDE DEF t
<1>3. ClosesOnly(s, t)
  BY <1>1, <1>2 DEF ClosesOnly
<1>4. WorkOK(t, n)
  BY <1>1, <1>3, AlikeWork DEF Alike, WorkOK, WaitingOK
<1> QED BY <1>4 DEF t

(* leave_own_tasks(): where no task runs as a connection there are none. *)
LEMMA LeaveOwnTasksWork ==
  ASSUME NEW s, HeapOK(s), NEW n, WorkOK(s, n), NEW q \in Live(s), NEW old \in Int,
         ~HasTQueue(s, old), s.tq[q].num_bg = 0 \/ HasRoomFor(s, old),
         NoConnectionTasks => s.tq[q].num_bg = 0,
         \A h \in ConnIds : s.handles[h].open => s.handles[h].queue \in Live(s)
  PROVE  WorkOK(leave_own_tasks(s, q, old), n)
<1> DEFINE s1 == find_tqueue(s, old)
           o == TQueueOf(s1, old)
           u == [s1 EXCEPT !.tq[o].num_bg = s.tq[q].num_bg,
                           !.tq[o].bg = @ \o s.tq[q].bg,
                           !.tq[q].bg = <<>>, !.tq[q].num_bg = 0]
<1>1. CASE s.tq[q].num_bg = 0
  BY <1>1 DEF leave_own_tasks
<1>2. CASE s.tq[q].num_bg # 0
  <2>1. ~NoConnectionTasks /\ HasRoomFor(s, old)
    BY <1>2
  <2>2. leave_own_tasks(s, q, old) = u
    BY <1>2 DEF leave_own_tasks
  <2>3. HeapOK(s1) /\ WorkOK(s1, n)
    BY <2>1, FindTQueue, FindTQueueWork DEF Preserves
  <2>4. HeapOK(u)
    <3>1. q \in QueueIds BY LiveType
    <3> HIDE DEF u
    <3> QED BY <2>1, <2>2, <3>1, LeaveOwnTasks DEF Preserves
  <2>5. q \in QueueIds /\ o \in QueueIds
    BY <2>1, LiveType, FindTQueue
  <2> HIDE DEF s1, o
  <2>6. /\ u.waiting = s1.waiting /\ u.handles = s1.handles
        /\ \A k \in QueueIds : /\ u.tq[k].player = s1.tq[k].player
                               /\ u.tq[k].input = s1.tq[k].input
                               /\ u.tq[k].len = s1.tq[k].len
                               /\ u.tq[k].suspended = s1.tq[k].suspended
    <3> DEFINE b == s1.tq[o].bg \o s.tq[q].bg
               m == s.tq[q].num_bg
               r == [s1.tq[o] EXCEPT !.num_bg = m, !.bg = b]
               v == [[s1.tq EXCEPT ![o].num_bg = m, ![o].bg = b]
                        EXCEPT ![q].bg = <<>>, ![q].num_bg = 0]
    <3>1. u.tq = v /\ u.waiting = s1.waiting /\ u.handles = s1.handles
      BY <2>3, <2>5 DEF HeapOK, HeapType, TQueue
    <3> HIDE DEF b, m, u
    <3>2. s1.tq \in [QueueIds -> TQueue] /\ s1.tq[o] \in TQueue
      BY <2>3, <2>5 DEF HeapOK, HeapType
    <3>3. /\ r.player = s1.tq[o].player /\ r.input = s1.tq[o].input
          /\ r.len = s1.tq[o].len /\ r.suspended = s1.tq[o].suspended
          /\ DOMAIN r = DOMAIN s1.tq[o]
      BY <3>2 DEF TQueue
    <3>4. [s1.tq EXCEPT ![o].num_bg = m, ![o].bg = b] = [s1.tq EXCEPT ![o] = r]
      BY <2>5, <3>2
    <3> HIDE DEF r
    <3> DEFINE w == [s1.tq EXCEPT ![o] = r]
    <3>5. \A k \in QueueIds : /\ w[k].player = s1.tq[k].player
                              /\ w[k].input = s1.tq[k].input
                              /\ w[k].len = s1.tq[k].len
                              /\ w[k].suspended = s1.tq[k].suspended
                              /\ DOMAIN w[k] = DOMAIN s1.tq[k]
      BY <3>2, <3>3
    <3>6. DOMAIN w = QueueIds /\ v = [w EXCEPT ![q].bg = <<>>, ![q].num_bg = 0]
      BY <3>2, <3>4
    <3>7. {"player", "input", "len", "suspended"} \subseteq DOMAIN s1.tq[q]
      BY <2>5, <3>2 DEF TQueue
    <3> HIDE DEF w, v
    <3>8. \A k \in QueueIds \ {q} : v[k] = w[k]
      BY <2>5, <3>6
    <3>9. v[q] = [w[q] EXCEPT !.bg = <<>>, !.num_bg = 0]
      BY <2>5, <3>6
    <3>10. /\ v[q].player = w[q].player /\ v[q].input = w[q].input
           /\ v[q].len = w[q].len /\ v[q].suspended = w[q].suspended
      BY <2>5, <3>5, <3>7, <3>9
    <3> QED BY <3>1, <3>5, <3>8, <3>10
  <2> HIDE DEF u
  <2>7. \A k \in QueueIds : QueueOK(u, k, n)
    BY <2>1, <2>3, <2>6 DEF WorkOK, QueueOK, Heard
  <2>8. WorkOK(u, n)
    BY <2>1, <2>7 DEF WorkOK, WaitingOK
  <2> QED BY <2>2, <2>8
<1> QED BY <1>1, <1>2

(* merge_dead_tqueue(): the old queue gives up its input, which resumes its
   connection while it can still be found, then its tasks, and then its
   player. *)
LEMMA MergeDeadTQueueWork ==
  ASSUME NEW s, HeapOK(s), NEW n \in Int, n < NOTHING, WorkOK(s, n),
         NEW q \in QueueIds, NEW dead \in QueueIds, q # dead,
         NoConnectionTasks => q \notin s.idle, s.tq[q].player >= 0, Linked(s, dead, n)
  PROVE  WorkOK(merge_dead_tqueue(s, q, dead), n)
<1> DEFINE m == s.tq[dead].num_bg
           r == [s.tq[q] EXCEPT !.num_bg = m]
           s0 == [s EXCEPT !.tq[q].num_bg = m]
           s1 == dequeue_all_input(s0, dead)
           x == [s1.tq[q] EXCEPT !.bg = @ \o s1.tq[dead].bg]
           y == [s1.tq[dead] EXCEPT !.bg = <<>>, !.player = NOTHING, !.num_bg = 0]
           t == merge_dead_tqueue(s, q, dead)
<1>1. s.tq[q] \in TQueue /\ m \in Int
  BY QueueFields DEF HeapOK, HeapType
<1>2. HeapOK(t)
  BY MergeDeadTQueue DEF Preserves
<1>3. t = [s1 EXCEPT !.tq[q].bg = @ \o s1.tq[dead].bg, !.tq[dead].bg = <<>>,
                     !.tq[dead].player = NOTHING, !.tq[dead].num_bg = 0]
  BY DEF merge_dead_tqueue
<1>4. HeapOK(s0)
  BY <1>1, SetNumBg DEF Preserves
<1> HIDE DEF m
<1>5. Alike(s.tq[q], r)
  BY <1>1 DEF TQueue, Alike
<1>6. /\ s0.tq = [s.tq EXCEPT ![q] = r] /\ s0.idle = s.idle
      /\ s0.waiting = s.waiting /\ s0.handles = s.handles
  BY DEF HeapOK, HeapType
<1> HIDE DEF r, s0, t
<1>7. \A k \in QueueIds : s0.tq[k] = IF k = q THEN r ELSE s.tq[k]
  BY <1>6 DEF HeapOK, HeapType
<1>8. WorkOK(s0, n)
  <2>1. \A k \in QueueIds : Alike(s.tq[k], s0.tq[k])
    BY <1>5, <1>7 DEF Alike
  <2> QED BY <1>4, <1>6, <2>1, AlikeWork DEF ClosesOnly, WorkOK, WaitingOK
<1>9. Linked(s0, dead, n) /\ QueueOK(s0, dead, n)
  BY <1>6, <1>7, <1>8 DEF Linked, WorkOK
<1>10. Touches(s0, s1, dead) /\ QueueOK(s1, dead, n) /\ HeapOK(s1)
  BY <1>4, <1>9, DequeueAllWork, DequeueAllInput DEF Preserves
<1> HIDE DEF s1
<1>11. WorkOK(s1, n)
  BY <1>8, <1>10, TouchesWork
<1>12. /\ s1.tq[q] = r /\ (NoConnectionTasks => q \notin s1.idle)
       /\ r.player >= 0
  BY <1>5, <1>6, <1>7, <1>10 DEF Touches, Alike
<1>13. /\ s1.tq[q] \in TQueue /\ s1.tq[dead] \in TQueue
       /\ s1.tq \in [QueueIds -> TQueue]
  BY <1>10 DEF HeapOK, HeapType
<1>14. /\ x.player = s1.tq[q].player /\ x.input = s1.tq[q].input
       /\ x.len = s1.tq[q].len /\ x.suspended = s1.tq[q].suspended
  BY <1>13 DEF TQueue
<1>15. /\ y.player = NOTHING /\ y.input = s1.tq[dead].input /\ y.bg = <<>>
       /\ y.len = s1.tq[dead].len /\ y.suspended = s1.tq[dead].suspended
       /\ y.connected = s1.tq[dead].connected /\ y.hold = s1.tq[dead].hold
       /\ y.no_oob = s1.tq[dead].no_oob /\ y.reading = s1.tq[dead].reading
       /\ y \in TQueue
  <2>1. <<>> \in Seq(Task) /\ NOTHING \in Int /\ 0 \in Int
    BY DEF NOTHING
  <2> QED BY <1>13, <2>1 DEF TQueue
<1>16. t = [s1 EXCEPT !.tq = [[s1.tq EXCEPT ![q] = x] EXCEPT ![dead] = y]]
  <2>1. [s1.tq EXCEPT ![q] = x][dead] = s1.tq[dead]
    <3> HIDE DEF x
    <3> QED BY <1>13
  <2> QED BY ZenonT(40), <1>3, <1>13, <2>1
<1> HIDE DEF x, y
<1>17. /\ t.tq = [[s1.tq EXCEPT ![q] = x] EXCEPT ![dead] = y]
       /\ t.idle = s1.idle /\ t.waiting = s1.waiting /\ t.handles = s1.handles
  BY <1>10, <1>16 DEF HeapOK, HeapType
<1>18. \A k \in QueueIds : t.tq[k] = IF k = dead THEN y ELSE IF k = q THEN x ELSE s1.tq[k]
  BY <1>13, <1>17
<1>19. QueueOK(t, q, n)
  <2>1. QueueOK(s1, q, n) /\ t.tq[q] = x
    BY <1>11, <1>18 DEF WorkOK
  <2>2. s1.tq[q].player \in Int /\ ~(x.player < 0)
    BY <1>12, <1>13, <1>14 DEF TQueue
  <2> QED BY <1>12, <1>14, <1>17, <2>1, <2>2 DEF QueueOK, Heard
<1>20. QueueOK(t, dead, n)
  <2>1. QueueOK(s1, dead, n) /\ t.tq[dead] = y
    BY <1>10, <1>18
  <2>2. NoConnectionTasks => (dead \in t.idle => NothingToDo(y))
    BY <1>13, <1>15, <1>17, <2>1, NothingToDoIsQuiet DEF QueueOK, Quiet
  <2>3. NOTHING > n
    BY DEF NOTHING
  <2> QED BY <1>15, <1>17, <2>1, <2>2, <2>3 DEF QueueOK, Heard
<1>21. \A k \in QueueIds : \/ Alike(s1.tq[k], t.tq[k]) /\ (k \in t.idle => k \in s1.idle)
                           \/ QueueOK(t, k, n)
  BY <1>17, <1>18, <1>19, <1>20 DEF Alike
<1>22. WorkOK(t, n)
  BY <1>2, <1>10, <1>11, <1>17, <1>21, AlikeWork DEF ClosesOnly, WorkOK, WaitingOK
<1> QED BY <1>22 DEF t

(* A login, up to the merging of the queues. *)
LEMMA TakesOverWork ==
  ASSUME NEW s, HeapOK(s), OwnersOK(s), NEW n \in Int, n < NOTHING, WorkOK(s, n),
         \A h \in ConnIds : s.handles[h].open => h > n,
         NEW q \in Live(s), s.tq[q].connected, s.tq[q].player < 0, q \notin s.idle,
         NEW p \in Nat, s.tq[q].num_bg = 0 \/ Live(s) # QueueIds
  PROVE  LET old == s.tq[q].player
             s1 == leave_own_tasks([s EXCEPT !.tq[q].player = p], q, old)
             s2 == IF HasTQueue(s, p) THEN merge_dead_tqueue(s1, q, TQueueOf(s, p)) ELSE s1
         IN WorkOK(s2, n)
<1> DEFINE old == s.tq[q].player
           r == [s.tq[q] EXCEPT !.player = p]
           s0 == [s EXCEPT !.tq[q].player = p]
           s1 == leave_own_tasks(s0, q, old)
           dead == TQueueOf(s, p)
           s2 == IF HasTQueue(s, p) THEN merge_dead_tqueue(s1, q, dead) ELSE s1
<1>1. /\ q \in QueueIds /\ s.tq[q] \in TQueue /\ old \in Int /\ p \in Int
      /\ old # NOTHING /\ p # NOTHING /\ p # old
      /\ \A k \in Live(s) : s.tq[k].player = old => k = q
  <2>1. q \in QueueIds BY LiveType
  <2>2. old \in Int BY <2>1, QueueFields
  <2>3. s.tq[q] \in TQueue BY <2>1 DEF HeapOK, HeapType
  <2> QED BY <2>1, <2>2, <2>3 DEF OwnersOK, QueuesOK, NOTHING
<1>2. /\ r.player = p /\ r.connected = s.tq[q].connected
      /\ r.bg = s.tq[q].bg /\ r.num_bg = s.tq[q].num_bg
  BY <1>1 DEF TQueue
<1>3. HeapOK(s0) /\ Live(s0) = Live(s) /\ WorkOK(s0, n)
  BY <1>1, SetPlayer, SetPlayerWork DEF Preserves
<1>4. /\ s0.tq = [s.tq EXCEPT ![q] = r] /\ s0.idle = s.idle /\ s0.handles = s.handles
  BY DEF HeapOK, HeapType
<1>5. NoConnectionTasks => s.tq[q].num_bg = 0
  <2> HAVE NoConnectionTasks
  <2>1. s.tq[q].bg = <<>> /\ \A i \in DOMAIN s.waiting : s.waiting[i].progr >= 0
    BY <1>1 DEF WorkOK, QueueOK, WaitingOK
  <2>2. Own(s.waiting, old) = {}
    <3>1. \A i \in DOMAIN s.waiting : s.waiting[i].progr # old
      BY <1>1, <2>1
    <3> HIDE DEF old
    <3> QED BY <3>1 DEF Own
  <2>3. s.tq[q].num_bg = Len(s.tq[q].bg) + Cardinality(Own(s.waiting, old))
    BY <1>1 DEF OwnersOK, TasksOK, Counted
  <2>4. Cardinality({}) = 0
    BY FS_EmptySet
  <2> QED BY <2>1, <2>2, <2>3, <2>4
<1> HIDE DEF r, s0, old
<1>6. \A k \in QueueIds : s0.tq[k] = IF k = q THEN r ELSE s.tq[k]
  BY <1>4 DEF HeapOK, HeapType
<1>7. ~HasTQueue(s0, old)
  BY <1>1, <1>2, <1>3, <1>6, LiveType DEF HasTQueue
<1>8. s0.tq[q].num_bg = s.tq[q].num_bg /\ s0.tq[q].player = p
      /\ (s0.tq[q].num_bg = 0 \/ HasRoomFor(s0, old))
  BY <1>1, <1>2, <1>3, <1>6 DEF HasRoomFor
<1>9. \A h \in ConnIds : s0.handles[h].open => s0.handles[h].queue \in Live(s0)
  BY <1>3, <1>4 DEF OwnersOK, ConnectionsOK
<1>10. WorkOK(s1, n) /\ HeapOK(s1)
  BY <1>1, <1>3, <1>5, <1>7, <1>8, <1>9, LeaveOwnTasksWork, LeaveOwnTasks DEF Preserves
<1>11. /\ s1.handles = s.handles /\ s1.tq[q].player = p
       /\ \A k \in Live(s) \ {q} : s1.tq[k] = s.tq[k]
  <2>1. s0.tq[q].num_bg = 0 => s0.tq[q].bg = <<>>
    <3>1. s.tq[q].num_bg = Len(s.tq[q].bg) + Cardinality(Own(s.waiting, old))
      BY <1>1 DEF OwnersOK, TasksOK, Counted, old
    <3>2. s.tq[q].bg \in Seq(Task)
      BY <1>1, QueueFields
    <3>3. Cardinality(Own(s.waiting, old)) \in Nat /\ Len(s.tq[q].bg) \in Nat
      BY <3>2, OwnFinite DEF HeapOK, HeapType
    <3>4. s.tq[q].num_bg = 0 => Len(s.tq[q].bg) = 0
      BY <3>1, <3>3
    <3>5. Len(s.tq[q].bg) = 0 => s.tq[q].bg = <<>>
      BY <3>2
    <3> QED BY <1>1, <1>2, <1>6, <3>4, <3>5
  <2>2. LeavesTasks(s0, s1, q, old)
    BY <1>1, <1>3, <1>7, <1>8, <2>1, LeaveOwnTasksEffect
  <2> HIDE DEF s1
  <2> QED BY <1>1, <1>3, <1>4, <1>6, <1>8, <2>2, LiveType DEF LeavesTasks
<1>12. NoConnectionTasks => q \notin s1.idle
  <2>1. NoConnectionTasks => s1 = s0
    BY <1>5, <1>8 DEF leave_own_tasks
  <2> QED BY <1>4, <2>1
<1> HIDE DEF s1
<1>13. ASSUME HasTQueue(s, p) PROVE WorkOK(merge_dead_tqueue(s1, q, dead), n)
  <2>1. dead \in Live(s) /\ dead \in QueueIds /\ s.tq[dead].player = p /\ dead # q
    BY <1>1, <1>13, TQueueOfLive DEF old
  <2> HIDE DEF dead
  <2>2. Linked(s, dead, n)
    BY <2>1, OwnersLinked
  <2>3. Linked(s1, dead, n)
    BY <1>11, <2>1, <2>2 DEF Linked
  <2> QED BY <1>1, <1>10, <1>11, <1>12, <2>1, <2>3, MergeDeadTQueueWork
<1>14. WorkOK(s2, n)
  BY <1>10, <1>13
<1> QED BY <1>14 DEF s1, s0, old

(* player_connected(): the connection that p has, if any, is closed. *)
LEMMA PlayerConnectedWork ==
  ASSUME NEW s, HeapOK(s), OwnersOK(s), NEW n, NEW p \in Nat, NEW t, HeapOK(t),
         SameConnections(s, t), WorkOK(t, n), NEW h \in ConnIds
  PROVE  WorkOK(player_connected(t, h, p), n)
<1> DEFINE u == WithPlayer(t, h, p)
           d == find_shandle(t, p)
           v == player_connected(t, h, p)
<1>1. v = IF HasHandle(t, p) THEN free_shandle(u, d) ELSE u
  BY DEF player_connected, WithPlayer
<1>2. HeapOK(u) /\ WorkOK(u, n)
  BY SetHandlePlayer, SetHandlePlayerWork
<1>3. \A k \in ConnIds : /\ u.handles[k].open = s.handles[k].open
                         /\ u.handles[k].queue = s.handles[k].queue
  <2>1. /\ u.handles[h].open = t.handles[h].open /\ u.handles[h].queue = t.handles[h].queue
        /\ \A k \in ConnIds \ {h} : u.handles[k] = t.handles[k]
    BY SetHandlePlayer
  <2> HIDE DEF u
  <2> QED BY <2>1 DEF SameConnections
<1> HIDE DEF u, v
<1>4. ASSUME HasHandle(t, p) PROVE WorkOK(free_shandle(u, d), n)
  <2>1. d \in ConnIds /\ t.handles[d].open
    BY <1>4, FindShandleOpen
  <2> HIDE DEF d
  <2>2. u.handles[d].open
    BY <1>3, <2>1 DEF SameConnections
  <2>3. \A k \in ConnIds : u.handles[k].open /\ u.handles[k].queue = u.handles[d].queue
                             => k = d
    BY <1>3, <2>1, <2>2 DEF OwnersOK, ConnectionsOK
  <2> QED BY <1>2, <2>1, <2>2, <2>3, FreeShandleWork
<1>5. WorkOK(v, n)
  BY <1>1, <1>2, <1>4
<1> QED BY <1>5 DEF v

-----------------------------------------------------------------------------
(* The steps *)

(* At first there is no queue, and no connection. *)
LEMMA InitWorkInv == Init => WorkInv
<1> SUFFICES ASSUME Init PROVE WorkInv
  OBVIOUS
<1>1. /\ Heap.tq = [q \in QueueIds |-> FreshQueue(NOTHING)]
      /\ Heap.idle = {} /\ Heap.waiting = <<>>
      /\ \A h \in ConnIds : ~Heap.handles[h].open
  BY ConnIdsType, ClosedHandleType, HeapFields DEF Init
<1>2. \A q \in QueueIds : QueueOK(Heap, q, nextConn)
  <2>1. Sums(<<>>, 0)
    BY SumsNothing
  <2> QED BY <1>1, <2>1 DEF QueueOK, Heard, FreshQueue
<1> QED BY <1>1, <1>2 DEF WorkInv, WorkOK, WaitingOK

(* A step that leaves the heap s in order. *)
LEMMA BecomesWork ==
  ASSUME NEW STATE s, HeapOK(s), HeapBecomes(s), WorkOK(s, nextConn), nextConn' = nextConn
  PROVE  WorkInv'
<1>1. Heap' = s
  BY HeapBecomesThat
<1> QED BY <1>1 DEF WorkInv

(* A step that leaves the heap alone. *)
LEMMA SameHeapWork ==
  ASSUME WorkInv, UNCHANGED <<tq, active, idle, waiting, handles, nextConn, panic>>
  PROVE  WorkInv'
BY DEF WorkInv, Heap

(* find_shandle() finds the connection of a live queue. *)
LEMMA LiveQueueLinked ==
  ASSUME IInv, OwnInv, NEW q \in Live(Heap)
  PROVE  Linked(Heap, q, nextConn)
BY OwnersLinked, HeapFields DEF IInv, OwnInv

(* A step that only touches the queue q. *)
LEMMA TouchesStep ==
  ASSUME NEW STATE s, HeapOK(s), HeapBecomes(s), IInv, WorkInv, nextConn' = nextConn,
         NEW STATE q, q \in QueueIds, Touches(Heap, s, q), QueueOK(s, q, nextConn)
  PROVE  WorkInv'
<1>1. WorkOK(s, nextConn)
  BY TouchesWork DEF WorkInv
<1> QED BY <1>1, BecomesWork

(* Accept and open_network_connection. *)
LEMMA NewConnectionWork ==
  ASSUME IInv, OwnInv, WorkInv, nextConn \in ConnIds, HasRoomFor(Heap, nextConn),
         NEW l \in Listeners, NEW outbound \in BOOLEAN, NEW greet \in BOOLEAN,
         HeapBecomes(server_new_connection(Heap, nextConn, l, outbound, greet)),
         nextConn' = nextConn - 1
  PROVE  WorkInv'
<1> DEFINE s == server_new_connection(Heap, nextConn, l, outbound, greet)
<1>1. HeapOK(Heap) /\ OwnersOK(Heap) /\ nextConn < NOTHING /\ WorkOK(Heap, nextConn)
      /\ \A k \in ConnIds : Heap.handles[k].open => k > nextConn
  BY HeapFields DEF IInv, OwnInv, WorkInv
<1>2. ~Heap.handles[nextConn].open
  BY NextConnIsNew
<1>3. HeapOK(s)
  BY <1>1, ServerNewConnection DEF Preserves
<1>4. WorkOK(s, nextConn - 1)
  BY <1>1, <1>2, ServerNewConnectionWork
<1> HIDE DEF s
<1>5. Heap' = s
  BY <1>3, HeapBecomesThat DEF s
<1> QED BY <1>4, <1>5 DEF WorkInv

(* One or two lines arrive. *)
LEMMA ReceiveLinesWork ==
  ASSUME IInv, OwnInv, WorkInv, NEW h \in ConnIds, NEW burst \in Bursts,
         ReceiveLines(h, burst)
  PROVE  WorkInv'
<1> DEFINE q == Heap.handles[h].queue
           s1 == new_input_task(Heap, q, burst[1])
           s2 == new_input_task(s1, q, burst[2])
           s == IF Len(burst) = 1 THEN s1 ELSE s2
<1>1. HeapBecomes(s) /\ nextConn' = nextConn /\ Heap.handles[h].open
  BY HeapFields DEF ReceiveLines
<1>2. burst[1] \in LineKinds /\ (Len(burst) # 1 => burst[2] \in LineKinds)
  BY ConstantsAssumption DEF Bursts
<1>3. q \in Live(Heap) /\ q \in QueueIds /\ HeapOK(Heap) /\ OwnersOK(Heap)
  BY <1>1, LiveType DEF IInv, OwnInv, OwnersOK, ConnectionsOK
<1>4. Linked(Heap, q, nextConn) /\ QueueOK(Heap, q, nextConn)
  BY <1>3, LiveQueueLinked DEF WorkInv, WorkOK
<1> HIDE DEF q
<1>5. HeapOK(s1) /\ Touches(Heap, s1, q) /\ QueueOK(s1, q, nextConn) /\ SameOwners(Heap, s1)
  BY <1>2, <1>3, <1>4, NewInputTask, NewInputWork, NewInputOwners, OwnersReachable
     DEF Preserves
<1> HIDE DEF s1
<1>6. Linked(s1, q, nextConn)
  BY <1>3, <1>4, <1>5, TouchesLinked DEF SameOwners, SameOwner
<1>7. Len(burst) # 1 => HeapOK(s2) /\ Touches(s1, s2, q) /\ QueueOK(s2, q, nextConn)
  BY <1>2, <1>3, <1>5, <1>6, NewInputTask, NewInputWork DEF Preserves
<1> HIDE DEF s2
<1>8. HeapOK(s) /\ Touches(Heap, s, q) /\ QueueOK(s, q, nextConn)
  BY <1>5, <1>7, TouchesChain
<1> HIDE DEF s
<1> QED BY <1>1, <1>3, <1>8, TouchesStep

(* A connection is marked. *)
LEMMA MarkWork ==
  ASSUME IInv, WorkInv, NEW h \in ConnIds,
         handles' = [handles EXCEPT ![h].disconnect_me = TRUE],
         UNCHANGED <<tq, active, idle, waiting, nextConn, panic>>
  PROVE  WorkInv'
<1> DEFINE s == [Heap EXCEPT !.handles[h].disconnect_me = TRUE]
<1>1. HeapOK(s) /\ WorkOK(s, nextConn)
  BY MarkHandle, MarkHandleWork DEF IInv, WorkInv, Preserves
<1>2. HeapBecomes(s)
  BY HeapFields DEF HeapBecomes, Heap
<1> HIDE DEF s
<1> QED BY <1>1, <1>2, BecomesWork

(* A waiting task becomes ready. *)
LEMMA WakeWork ==
  ASSUME IInv, OwnInv, WorkInv, Wake
  PROVE  WorkInv'
<1> DEFINE s == make_ready(Heap, 1, Heap.waiting[1])
<1>1. HeapBecomes(s) /\ 1 \in DOMAIN Heap.waiting /\ nextConn' = nextConn
  <2>1. waiting \in Seq(Task)
    BY HeapFields DEF IInv, HeapOK, HeapType
  <2> QED BY <2>1, HeapFields DEF Wake
<1>2. HeapOK(s) /\ WorkOK(s, nextConn)
  BY <1>1, MakeReadyOwners, MakeReadyWork DEF IInv, OwnInv, WorkInv
<1> HIDE DEF s
<1> QED BY <1>1, <1>2, BecomesWork

(* do_resume() *)
LEMMA DoResumeWork ==
  ASSUME IInv, OwnInv, WorkInv, NEW id \in TaskIds, do_resume(id)
  PROVE  WorkInv'
<1> PICK i \in DOMAIN waiting : HeapBecomes(make_ready(Heap, i, waiting[i]))
  BY DEF do_resume
<1> DEFINE s == make_ready(Heap, i, Heap.waiting[i])
<1>1. i \in DOMAIN Heap.waiting /\ HeapBecomes(s) /\ nextConn' = nextConn
  BY HeapFields DEF do_resume
<1>2. HeapOK(s) /\ WorkOK(s, nextConn)
  BY <1>1, MakeReadyOwners, MakeReadyWork DEF IInv, OwnInv, WorkInv
<1> HIDE DEF s
<1> QED BY <1>1, <1>2, BecomesWork

(* The reader of a queue goes, to run or to be killed: if its queue is idle,
   there was nothing for it to read, and nothing for any one else. *)
LEMMA DropReaderWork ==
  ASSUME NEW s, HeapOK(s), NEW q \in QueueIds, NEW n, QueueOK(s, q, n)
  PROVE  LET t == [s EXCEPT !.tq[q].reading = NoTask]
         IN HeapOK(t) /\ Touches(s, t, q) /\ QueueOK(t, q, n)
<1> DEFINE r == [s.tq[q] EXCEPT !.reading = NoTask]
           s1 == [s EXCEPT !.tq[q] = r]
           t == [s EXCEPT !.tq[q].reading = NoTask]
<1>1. t = s1
  BY DEF HeapOK, HeapType
<1>2. HeapOK(t)
  BY NoMoreReading DEF Preserves
<1>3. s.tq[q] \in TQueue
  BY DEF HeapOK, HeapType
<1>4. /\ r \in TQueue /\ SameWork(s.tq[q], r) /\ r.reading = NoTask
      /\ r.hold = s.tq[q].hold /\ r.no_oob = s.tq[q].no_oob
  BY <1>3 DEF TQueue, SameWork
<1> HIDE DEF r
<1>5. NoConnectionTasks /\ q \in s.idle => Quiet(r)
  <2>1. NoConnectionTasks /\ q \in s.idle => Quiet(s.tq[q])
    BY <1>3, NothingToDoIsQuiet DEF QueueOK
  <2>2. Elems(<<>>) = {}
    BY DEF Elems
  <2> QED BY <1>4, <2>1, <2>2 DEF Quiet, SameWork
<1>6. Touches(s, s1, q) /\ QueueOK(s1, q, n)
  <2>1. HeapOK(s1)
    BY <1>1, <1>2
  <2> HIDE DEF s1
  <2>2. LET u == IF FALSE THEN ensure_usage(s1, q) ELSE s1
        IN Touches(s, u, q) /\ QueueOK(u, q, n)
    BY <1>4, <1>5, <2>1, SetFieldsWork DEF s1
  <2> QED BY <2>2
<1> QED BY <1>1, <1>2, <1>6

(* A reader whose connection is gone is resumed. *)
LEMMA ResumeReaderWithErrorWork ==
  ASSUME IInv, WorkInv, ResumeReaderWithError
  PROVE  WorkInv'
<1> DEFINE q == active[1]
           s == [Heap EXCEPT !.tq[q].reading = NoTask]
<1>1. q \in QueueIds
  BY FirstQueue DEF ResumeReaderWithError, Picking
<1>2. HeapBecomes(s) /\ nextConn' = nextConn
  BY HeapFields DEF ResumeReaderWithError, HeapBecomes, Heap
<1> HIDE DEF q
<1>3. HeapOK(Heap) /\ QueueOK(Heap, q, nextConn)
  BY <1>1 DEF IInv, WorkInv, WorkOK
<1>4. HeapOK(s) /\ Touches(Heap, s, q) /\ QueueOK(s, q, nextConn)
  BY <1>1, <1>3, DropReaderWork
<1> HIDE DEF s
<1> QED BY <1>1, <1>2, <1>4, TouchesStep

(* The first queue runs its next line, perhaps for its reader. *)
LEMMA RunInputWork ==
  ASSUME IInv, OwnInv, WorkInv, RunInput
  PROVE  WorkInv'
<1> DEFINE q == active[1]
           how == How(Heap.tq[q])
           s == dequeue_input_task(Heap, q, how)
           t == [s EXCEPT !.tq[q].reading = NoTask]
<1>1. HeapOK(Heap) /\ q \in Live(Heap) /\ q \in QueueIds
  BY FirstQueue DEF IInv, RunInput, Picking
<1>2. /\ HeapBecomes(s) \/ HeapBecomes(t)
      /\ HasInput(Heap.tq[q], how) /\ nextConn' = nextConn
  BY HeapFields DEF RunInput
<1> HIDE DEF how, q
<1>3. Linked(Heap, q, nextConn) /\ QueueOK(Heap, q, nextConn)
  BY <1>1, LiveQueueLinked DEF WorkInv, WorkOK
<1>4. HeapOK(s) /\ Touches(Heap, s, q) /\ QueueOK(s, q, nextConn)
  BY <1>1, <1>2, <1>3, DequeueInputTask, DequeueInputWork DEF Preserves
<1> HIDE DEF s
<1>5. HeapOK(t) /\ Touches(Heap, t, q) /\ QueueOK(t, q, nextConn)
  BY <1>1, <1>4, DropReaderWork, TouchesChain
<1> HIDE DEF t
<1> QED BY <1>1, <1>2, <1>4, <1>5, TouchesStep

(* The first queue runs a background task. *)
LEMMA RunBackgroundWork ==
  ASSUME IInv, OwnInv, WorkInv, RunBackground
  PROVE  WorkInv'
<1> DEFINE q == active[1]
           s == dequeue_bg_task(Heap, q)
<1>1. HeapOK(Heap) /\ q \in Live(Heap) /\ q \notin Heap.idle
  <2>1. Heap.active # <<>> /\ Heap.active[1] = active[1] /\ q \in Live(Heap)
    BY FirstQueue DEF RunBackground, Picking
  <2>2. 1 \in DOMAIN Heap.active
    BY <2>1, TailElems DEF IInv, HeapOK, HeapType
  <2> QED BY <2>1, <2>2 DEF IInv, HeapOK
<1>2. HeapBecomes(s) /\ Heap.tq[q].bg # <<>> /\ nextConn' = nextConn
  BY HeapFields DEF RunBackground
<1> HIDE DEF q
<1>3. HeapOK(s) /\ WorkOK(s, nextConn)
  BY <1>1, <1>2, DequeueBgOwners, DequeueBgWork DEF OwnInv, WorkInv
<1> HIDE DEF s
<1> QED BY <1>2, <1>3, BecomesWork

(* The first queue has nothing to do. *)
LEMMA FirstQueueIdlesWork ==
  ASSUME IInv, OwnInv, WorkInv, Deactivate
  PROVE  WorkInv'
<1> DEFINE s == deactivate_tqueue([Heap EXCEPT !.active = Tail(@)], Heap.active[1])
<1>1. /\ HeapBecomes(s) /\ Heap.active # <<>> /\ NothingToDo(Heap.tq[Heap.active[1]])
      /\ nextConn' = nextConn
  BY HeapFields DEF Deactivate, Picking, NothingToDo
<1>2. HeapOK(s)
  <2>1. Heap.tq[Heap.active[1]].reading # NoTask => Heap.tq[Heap.active[1]].connected
    <3>1. Heap.tq[Heap.active[1]] \in TQueue
      BY <1>1, TailElems DEF IInv, HeapOK, HeapType
    <3> QED BY <1>1, <3>1, NothingToDoIsQuiet DEF Quiet
  <2> QED BY <1>1, <2>1, DeactivateFirst DEF IInv
<1>3. WorkOK(s, nextConn)
  BY <1>1, <1>2, DeactivateWork DEF IInv, WorkInv
<1> HIDE DEF s
<1> QED BY <1>1, <1>2, <1>3, BecomesWork

(* Nothing is ready: queues are freed. *)
LEMMA NothingReadyWork ==
  ASSUME IInv, OwnInv, WorkInv, NothingReady
  PROVE  WorkInv'
<1> DEFINE s == free_idle_tqueues(Heap)
<1>1. HeapBecomes(s) /\ nextConn' = nextConn
  BY DEF NothingReady
<1>2. HeapOK(s) /\ WorkOK(s, nextConn)
  BY FreeIdleTQueues, FreeIdleTQueuesWork DEF IInv, OwnInv, WorkInv, Preserves
<1> HIDE DEF s
<1> QED BY <1>1, <1>2, BecomesWork

(* The queue that ran is charged, and queues are freed. *)
LEMMA BumpWork ==
  ASSUME IInv, OwnInv, WorkInv, NEW e \in 0 .. 1, Bump(e)
  PROVE  WorkInv'
<1> DEFINE q == Heap.active[1]
           s == [Heap EXCEPT !.active = RestAfter(@, q), !.tq[q].usage = @ + e]
           u == activate_tqueue(s, q)
           t == free_idle_tqueues(u)
<1>1. active # <<>> /\ active[1] = cpu.q
  BY DEF Bump, IInv, CpuOK, DispatchedHere
<1>2. HeapBecomes(t) /\ nextConn' = nextConn
  BY <1>1, HeapFields DEF Bump
<1>3. HeapOK(Heap) /\ OwnersOK(Heap) /\ Heap.active # <<>> /\ e \in Nat
  BY <1>1, HeapFields DEF IInv, OwnInv
<1>4. SameOwners(Heap, u) /\ WorkOK(u, nextConn)
  BY <1>3, ChargeFirstOwners, ChargeFirstWork DEF WorkInv
<1>5. /\ HeapOK(s) /\ q \in QueueIds /\ q \notin s.idle /\ q \notin Elems(s.active)
      /\ s.tq[q].usage # NO_USAGE
  BY <1>3, ChargeFirst
<1> HIDE DEF q, s
<1>6. HeapOK(u)
  BY <1>5, ActivateTQueue
<1> HIDE DEF u
<1>7. OwnersOK(u)
  BY <1>3, <1>4, SameOwnersOK
<1>8. HeapOK(t) /\ WorkOK(t, nextConn)
  BY <1>4, <1>6, <1>7, FreeIdleTQueues, FreeIdleTQueuesWork DEF Preserves
<1> HIDE DEF t
<1> QED BY <1>2, <1>8, BecomesWork

(* A task forks. *)
LEMMA ForkWork ==
  ASSUME NoOrphans, IInv, OwnInv, WorkInv, NEW p \in Programmers, NEW i \in Places,
         fork(p, i)
  PROVE  WorkInv'
<1> DEFINE t == [id |-> NewId, progr |-> p, kind |-> "forked", forever |-> FALSE]
           s == enqueue_waiting(Heap, t, i)
<1>1. t \in Task /\ t.progr = p
  <2>1. NewId \in TaskIds
    BY DEF fork, NewId, FreshIds
  <2> QED BY <2>1, ConstantsAssumption DEF Task
<1>2. /\ HasRoomFor(Heap, t.progr) /\ i \in WaitingPlaces(Heap, t)
      /\ HeapBecomes(s) /\ nextConn' = nextConn
  BY <1>1 DEF fork
<1> HIDE DEF t
<1>3. HeapOK(s)
  BY <1>1, <1>2, EnqueueOwn
<1>4. NoConnectionTasks => t.progr >= 0
  BY <1>1 DEF NoConnectionTasks
<1>5. WorkOK(s, nextConn)
  BY <1>1, <1>2, <1>4, EnqueueWaitingWork DEF IInv, OwnInv, WorkInv
<1> HIDE DEF s
<1> QED BY <1>2, <1>3, <1>5, BecomesWork

(* kill_task() *)
LEMMA KillTaskWork ==
  ASSUME IInv, OwnInv, WorkInv, NEW id \in TaskIds, kill_task(id)
  PROVE  WorkInv'
<1>1. HeapOK(Heap) /\ OwnersOK(Heap) /\ WorkOK(Heap, nextConn) /\ nextConn' = nextConn
  BY DEF IInv, OwnInv, WorkInv, kill_task
<1>2. CASE \E i \in DOMAIN waiting :
             LET p == waiting[i].progr
                 s == [Heap EXCEPT !.waiting = RemoveAt(@, i)]
             IN HeapBecomes(IF HasTQueue(s, p)
                            THEN [s EXCEPT !.tq[TQueueOf(s, p)].num_bg = @ - 1]
                            ELSE s)
  <2> PICK i \in DOMAIN waiting :
             LET p == waiting[i].progr
                 s == [Heap EXCEPT !.waiting = RemoveAt(@, i)]
             IN HeapBecomes(IF HasTQueue(s, p)
                            THEN [s EXCEPT !.tq[TQueueOf(s, p)].num_bg = @ - 1]
                            ELSE s)
    BY <1>2
  <2> DEFINE p == Heap.waiting[i].progr
             s0 == [Heap EXCEPT !.waiting = RemoveAt(@, i)]
             s == IF HasTQueue(s0, p)
                  THEN [s0 EXCEPT !.tq[TQueueOf(s0, p)].num_bg = @ - 1] ELSE s0
  <2>1. HeapBecomes(s)
    BY HeapFields
  <2>2. HeapOK(s) /\ WorkOK(s, nextConn)
    BY <1>1, HeapFields, KillWaitingOwners, KillWaitingWork
  <2> HIDE DEF s
  <2> QED BY <1>1, <2>1, <2>2, BecomesWork
<1>3. CASE \E q \in Live(Heap) : HeapBecomes([Heap EXCEPT !.tq[q].reading = NoTask])
  <2> PICK q \in Live(Heap) : HeapBecomes([Heap EXCEPT !.tq[q].reading = NoTask])
    BY <1>3
  <2> DEFINE s == [Heap EXCEPT !.tq[q].reading = NoTask]
  <2>1. q \in QueueIds /\ HeapBecomes(s)
    BY <1>1, LiveType
  <2>2. HeapOK(s) /\ Touches(Heap, s, q) /\ QueueOK(s, q, nextConn)
    BY <1>1, <2>1, DropReaderWork DEF WorkOK
  <2> HIDE DEF s
  <2> QED BY <1>1, <2>1, <2>2, TouchesStep
<1>4. CASE \E q \in Elems(active) : \E i \in DOMAIN tq[q].bg :
             HeapBecomes([Heap EXCEPT !.tq[q].bg = RemoveAt(@, i), !.tq[q].num_bg = @ - 1])
  <2> PICK q \in Elems(active) : \E i \in DOMAIN tq[q].bg :
             HeapBecomes([Heap EXCEPT !.tq[q].bg = RemoveAt(@, i), !.tq[q].num_bg = @ - 1])
    BY <1>4
  <2> PICK i \in DOMAIN tq[q].bg :
             HeapBecomes([Heap EXCEPT !.tq[q].bg = RemoveAt(@, i), !.tq[q].num_bg = @ - 1])
    OBVIOUS
  <2> DEFINE s == WithoutBg(Heap, q, i)
  <2>1. HeapBecomes(s) /\ q \in Live(Heap) /\ i \in DOMAIN Heap.tq[q].bg
    BY HeapFields DEF WithoutBg, Live
  <2>2. q \notin Heap.idle
    BY <1>1, HeapFields DEF HeapOK, Elems
  <2>3. HeapOK(s) /\ WorkOK(s, nextConn)
    BY <1>1, <2>1, <2>2, RemoveBgOwners, RemoveBgWork
  <2> HIDE DEF s
  <2> QED BY <1>1, <2>1, <2>3, BecomesWork
<1> QED BY <1>2, <1>3, <1>4 DEF kill_task

(* force_input() may make a queue, and adds a line to it. *)
LEMMA ForceInputWork ==
  ASSUME IInv, OwnInv, WorkInv, NEW p \in Targets, NEW line \in Lines,
         NEW at_front \in BOOLEAN, force_input(p, line, at_front)
  PROVE  WorkInv'
<1> DEFINE s == find_tqueue(Heap, p)
           q == TQueueOf(s, p)
           t == enqueue_input_task(s, q, line, at_front)
<1>1. /\ HeapBecomes(t) /\ HasRoomFor(Heap, p) /\ p \in Int /\ line \in LineKinds
      /\ nextConn' = nextConn
  BY ConstantsAssumption DEF force_input
<1>2. HeapOK(s) /\ OwnersOK(s) /\ q \in Live(s) /\ s.handles = Heap.handles
  BY <1>1, FindTQueueOwners DEF IInv, OwnInv
<1>3. WorkOK(s, nextConn)
  BY <1>1, FindTQueueWork DEF IInv, OwnInv, WorkInv, OwnersOK, ConnectionsOK
<1> HIDE DEF s, q
<1>4. q \in QueueIds /\ QueueOK(s, q, nextConn)
  BY <1>2, <1>3, LiveType DEF WorkOK
<1>5. Linked(s, q, nextConn)
  BY <1>2, OwnersLinked, HeapFields DEF IInv, OwnInv
<1>6. HeapOK(t) /\ Touches(s, t, q) /\ QueueOK(t, q, nextConn)
  BY <1>1, <1>2, <1>4, <1>5, EnqueueInputWork
<1> HIDE DEF t
<1>7. WorkOK(t, nextConn)
  BY <1>3, <1>4, <1>6, TouchesWork
<1> QED BY <1>1, <1>6, <1>7, BecomesWork

(* flush_input() may make a queue, and empties one. *)
LEMMA FlushInputWork ==
  ASSUME IInv, OwnInv, WorkInv, NEW p \in Targets, flush_input(p)
  PROVE  WorkInv'
<1> DEFINE s == find_tqueue(Heap, p)
           q == TQueueOf(s, p)
           t == dequeue_all_input(s, q)
<1>1. /\ HeapBecomes(t) /\ HasRoomFor(Heap, p) /\ p \in Int /\ nextConn' = nextConn
  BY ConstantsAssumption DEF flush_input
<1>2. HeapOK(s) /\ OwnersOK(s) /\ q \in Live(s) /\ s.handles = Heap.handles
  BY <1>1, FindTQueueOwners DEF IInv, OwnInv
<1>3. WorkOK(s, nextConn)
  BY <1>1, FindTQueueWork DEF IInv, OwnInv, WorkInv, OwnersOK, ConnectionsOK
<1> HIDE DEF s, q
<1>4. q \in QueueIds /\ QueueOK(s, q, nextConn)
  BY <1>2, <1>3, LiveType DEF WorkOK
<1>5. Linked(s, q, nextConn)
  BY <1>2, OwnersLinked, HeapFields DEF IInv, OwnInv
<1>6. HeapOK(t) /\ Touches(s, t, q) /\ QueueOK(t, q, nextConn)
  BY <1>1, <1>2, <1>4, <1>5, DequeueAllInput, DequeueAllWork DEF Preserves
<1> HIDE DEF t
<1>7. WorkOK(t, nextConn)
  BY <1>3, <1>4, <1>6, TouchesWork
<1> QED BY <1>1, <1>6, <1>7, BecomesWork

(* read_input_now() takes a line. *)
LEMMA ReadInputNowWork ==
  ASSUME IInv, OwnInv, WorkInv, NEW p \in Targets, read_input_now(p)
  PROVE  WorkInv'
<1> DEFINE q == TQueueOf(Heap, p)
           s == dequeue_input_task(Heap, q, "DQ_INBAND")
<1>1. /\ HeapBecomes(s) /\ HasTQueue(Heap, p) /\ HasInput(Heap.tq[q], "DQ_INBAND")
      /\ nextConn' = nextConn
  BY HeapFields DEF read_input_now
<1>2. HeapOK(Heap) /\ q \in Live(Heap) /\ q \in QueueIds
  BY <1>1, TQueueOfLive DEF IInv
<1> HIDE DEF q
<1>3. Linked(Heap, q, nextConn) /\ QueueOK(Heap, q, nextConn)
  BY <1>2, LiveQueueLinked DEF WorkInv, WorkOK
<1>4. HeapOK(s) /\ Touches(Heap, s, q) /\ QueueOK(s, q, nextConn)
  BY <1>1, <1>2, <1>3, DequeueInputTask, DequeueInputWork DEF Preserves
<1> HIDE DEF s
<1> QED BY <1>1, <1>2, <1>4, TouchesStep

(* boot_player() *)
LEMMA BootPlayerWork ==
  ASSUME IInv, WorkInv, NEW p \in Targets, boot_player(p)
  PROVE  WorkInv'
<1> DEFINE h == find_shandle(Heap, p)
<1>1. h \in ConnIds
  BY FindShandleOpen DEF IInv, boot_player
<1>2. /\ handles' = [handles EXCEPT ![h].disconnect_me = TRUE]
      /\ UNCHANGED <<tq, active, idle, waiting, nextConn, panic>>
  BY DEF boot_player
<1> HIDE DEF h
<1> QED BY <1>1, <1>2, MarkWork

(* The options of a connection: letting its queue hold input, or take
   out-of-band lines for ordinary ones, gives it nothing to do; taking either
   back may, and then the queue becomes active. *)
LEMMA SetHoldInputWork ==
  ASSUME IInv, OwnInv, WorkInv, NEW p \in Targets, NEW b \in BOOLEAN, set_hold_input(p, b)
  PROVE  WorkInv'
<1> DEFINE q == OptionQueue(p)
           r == [Heap.tq[q] EXCEPT !.hold = b]
           s == [Heap EXCEPT !.tq[q] = r]
           c == ~b /\ Heap.tq[q].input # <<>>
           t == IF c THEN ensure_usage(s, q) ELSE s
<1>1. q \in QueueIds
  BY OptionQueueLive DEF set_hold_input
<1>2. HeapOK(Heap) /\ QueueOK(Heap, q, nextConn) /\ Heap.tq[q] \in TQueue
  BY <1>1 DEF IInv, WorkInv, WorkOK, HeapOK, HeapType
<1> HIDE DEF q
<1>3. s = [Heap EXCEPT !.tq[q].hold = b]
  BY <1>1, <1>2 DEF HeapOK, HeapType
<1>4. HeapBecomes(t) /\ nextConn' = nextConn
  BY <1>3, HeapFields DEF set_hold_input, q
<1>5. HeapOK(s)
  BY <1>1, <1>2, <1>3, SetOption DEF Preserves
<1>6. /\ r \in TQueue /\ SameWork(Heap.tq[q], r) /\ r.reading = Heap.tq[q].reading
      /\ r.hold = b /\ r.no_oob = Heap.tq[q].no_oob /\ r.connected = Heap.tq[q].connected
  BY <1>2 DEF TQueue, SameWork
<1> HIDE DEF r
<1>7. NoConnectionTasks /\ ~c /\ q \in Heap.idle => Quiet(r)
  <2>1. NoConnectionTasks /\ q \in Heap.idle => Quiet(Heap.tq[q])
    BY <1>2, NothingToDoIsQuiet DEF QueueOK
  <2>2. Elems(<<>>) = {}
    BY DEF Elems
  <2> QED BY <1>6, <2>1, <2>2 DEF Quiet, SameWork
<1>8. Touches(Heap, t, q) /\ QueueOK(t, q, nextConn)
  BY <1>1, <1>2, <1>5, <1>6, <1>7, SetFieldsWork
<1>9. HeapOK(t)
  BY <1>1, <1>5, EnsureUsage DEF Preserves
<1> HIDE DEF t
<1> QED BY <1>1, <1>4, <1>8, <1>9, TouchesStep

(* set_connection_option("disable-oob") *)
LEMMA SetDisableOobWork ==
  ASSUME IInv, OwnInv, WorkInv, NEW p \in Targets, NEW b \in BOOLEAN, set_disable_oob(p, b)
  PROVE  WorkInv'
<1> DEFINE q == OptionQueue(p)
           r == [Heap.tq[q] EXCEPT !.no_oob = b]
           s == [Heap EXCEPT !.tq[q] = r]
           c == ~b /\ "oob" \in Elems(Heap.tq[q].input)
           t == IF c THEN ensure_usage(s, q) ELSE s
<1>1. q \in QueueIds
  BY OptionQueueLive DEF set_disable_oob
<1>2. HeapOK(Heap) /\ QueueOK(Heap, q, nextConn) /\ Heap.tq[q] \in TQueue
  BY <1>1 DEF IInv, WorkInv, WorkOK, HeapOK, HeapType
<1> HIDE DEF q
<1>3. s = [Heap EXCEPT !.tq[q].no_oob = b]
  BY <1>1, <1>2 DEF HeapOK, HeapType
<1>4. HeapBecomes(t) /\ nextConn' = nextConn
  BY <1>3, HeapFields DEF set_disable_oob, q
<1>5. HeapOK(s)
  BY <1>1, <1>2, <1>3, SetOption DEF Preserves
<1>6. /\ r \in TQueue /\ SameWork(Heap.tq[q], r) /\ r.reading = Heap.tq[q].reading
      /\ r.hold = Heap.tq[q].hold /\ r.no_oob = b /\ r.connected = Heap.tq[q].connected
  BY <1>2 DEF TQueue, SameWork
<1> HIDE DEF r
<1>7. NoConnectionTasks /\ ~c /\ q \in Heap.idle => Quiet(r)
  <2>1. NoConnectionTasks /\ q \in Heap.idle => Quiet(Heap.tq[q])
    BY <1>2, NothingToDoIsQuiet DEF QueueOK
  <2> QED BY <1>6, <2>1 DEF Quiet, SameWork
<1>8. Touches(Heap, t, q) /\ QueueOK(t, q, nextConn)
  BY <1>1, <1>2, <1>5, <1>6, <1>7, SetFieldsWork
<1>9. HeapOK(t)
  BY <1>1, <1>5, EnsureUsage DEF Preserves
<1> HIDE DEF t
<1> QED BY <1>1, <1>4, <1>8, <1>9, TouchesStep

(* The running code stops, and with it perhaps a connection. *)
LEMMA ReturnWork ==
  ASSUME NEW STATE s, IInv, OwnInv, InMoo, HeapOK(s), StayOpen(Heap, s), OwnersOK(s),
         WorkOK(s, nextConn), Return(s), nextConn' = nextConn
  PROVE  WorkInv'
<1>1. CASE HeapBecomes(s)
  BY <1>1, BecomesWork
<1>2. CASE /\ cpu.at = "notify" /\ cpu.then \in {"close", "reap"}
           /\ HeapBecomes(free_shandle(s, cpu.h))
  <2> DEFINE t == free_shandle(s, cpu.h)
  <2>1. cpu.h \in ConnIds /\ s.handles[cpu.h].open
    BY <1>2, HeapFields DEF IInv, CpuOK, StayOpen
  <2>2. \A k \in ConnIds :
          s.handles[k].open /\ s.handles[k].queue = s.handles[cpu.h].queue => k = cpu.h
    BY <2>1 DEF OwnersOK, ConnectionsOK
  <2>3. HeapOK(t) /\ WorkOK(t, nextConn) /\ HeapBecomes(t)
    BY <1>2, <2>1, <2>2, FreeShandle, FreeShandleWork
  <2> HIDE DEF t
  <2> QED BY <2>3, BecomesWork
<1>3. CASE /\ cpu.at = "notify" /\ cpu.then = "relisten"
           /\ HeapBecomes([s EXCEPT !.handles[cpu.h].disconnect_me = FALSE])
  <2> DEFINE t == [s EXCEPT !.handles[cpu.h].disconnect_me = FALSE]
  <2>1. cpu.h \in ConnIds
    BY <1>3 DEF IInv, CpuOK
  <2>2. HeapOK(t) /\ WorkOK(t, nextConn) /\ HeapBecomes(t)
    BY <1>3, <2>1, MarkHandle, MarkHandleWork DEF Preserves
  <2> HIDE DEF t
  <2> QED BY <2>2, BecomesWork
<1> QED BY <1>1, <1>2, <1>3 DEF Return

(* The task finishes. *)
LEMMA FinishWork ==
  ASSUME IInv, OwnInv, WorkInv, Finish
  PROVE  WorkInv'
<1>1. StayOpen(Heap, Heap) /\ HeapOK(Heap) /\ OwnersOK(Heap) /\ WorkOK(Heap, nextConn)
  BY DEF StayOpen, IInv, OwnInv, WorkInv
<1> QED BY <1>1, ReturnWork DEF Finish

(* The task suspends. *)
LEMMA SuspendWork ==
  ASSUME NoOrphans, IInv, OwnInv, WorkInv, NEW p \in Programmers, NEW forever \in BOOLEAN,
         NEW i \in Places, suspend(p, forever, i)
  PROVE  WorkInv'
<1> DEFINE t == [id |-> MyId, progr |-> p, kind |-> "suspended", forever |-> forever]
           s == enqueue_waiting(Heap, t, i)
<1>1. t \in Task /\ t.progr = p
  <2>1. MyId \in TaskIds
    BY MyIdType DEF suspend
  <2> QED BY <2>1, ConstantsAssumption DEF Task
<1>2. /\ HasRoomFor(Heap, t.progr) /\ i \in WaitingPlaces(Heap, t)
      /\ Return(s) /\ InMoo /\ nextConn' = nextConn
  BY <1>1 DEF suspend, Calls
<1> HIDE DEF t
<1>3. HeapOK(s) /\ OwnersOK(s)
  BY <1>1, <1>2, EnqueueOwn
<1>4. StayOpen(Heap, s)
  BY <1>1, <1>2, EnqueueWaiting DEF IInv, Preserves
<1>5. NoConnectionTasks => t.progr >= 0
  BY <1>1 DEF NoConnectionTasks
<1>6. WorkOK(s, nextConn)
  BY <1>1, <1>2, <1>5, EnqueueWaitingWork DEF IInv, OwnInv, WorkInv
<1> HIDE DEF s
<1> QED BY <1>2, <1>3, <1>4, <1>6, ReturnWork

(* The task reads: a line that is there already makes the queue active, and
   without one the connection is still there to wait for. *)
LEMMA ReadWork ==
  ASSUME IInv, OwnInv, WorkInv, NEW p \in Targets, read(p)
  PROVE  WorkInv'
<1> DEFINE q == TQueueOf(Heap, p)
           r == [Heap.tq[q] EXCEPT !.reading = MyId]
           s == [Heap EXCEPT !.tq[q] = r]
           c == Heap.tq[q].input # <<>>
           t == IF c THEN ensure_usage(s, q) ELSE s
<1>1. HasTQueue(Heap, p) /\ MyId \in TaskIds /\ MyId # NoTask
  BY MyIdType, ConstantsAssumption DEF read
<1>2. HeapOK(Heap) /\ OwnersOK(Heap) /\ q \in Live(Heap) /\ q \in QueueIds
  BY <1>1, TQueueOfLive DEF IInv, OwnInv
<1>3. /\ QueueOK(Heap, q, nextConn) /\ Heap.tq[q] \in TQueue /\ WorkOK(Heap, nextConn)
  BY <1>2 DEF WorkInv, WorkOK, HeapOK, HeapType
<1>4. c \/ Heap.tq[q].connected
  BY HeapFields DEF read, is_out_of_input
<1>5. s = [Heap EXCEPT !.tq[q].reading = MyId]
  BY <1>2 DEF HeapOK, HeapType
<1>6. Return(t) /\ InMoo /\ nextConn' = nextConn
  BY <1>5, HeapFields DEF read, Calls
<1> HIDE DEF q
<1>7. HeapOK(s) /\ StayOpen(Heap, s) /\ SameOwners(Heap, s)
  BY <1>1, <1>2, <1>5, SetReading, SetFieldOwners
<1>8. /\ r \in TQueue /\ SameWork(Heap.tq[q], r) /\ r.reading = MyId
      /\ r.connected = Heap.tq[q].connected
  BY <1>1, <1>3 DEF TQueue, SameWork
<1> HIDE DEF r
<1>9. NoConnectionTasks /\ ~c /\ q \in Heap.idle => Quiet(r)
  <2>1. NoConnectionTasks /\ q \in Heap.idle => Quiet(Heap.tq[q])
    BY <1>3, NothingToDoIsQuiet DEF QueueOK
  <2> QED BY <1>1, <1>4, <1>8, <2>1 DEF Quiet, SameWork
<1>10. Touches(Heap, t, q) /\ QueueOK(t, q, nextConn)
  BY <1>2, <1>3, <1>7, <1>8, <1>9, SetFieldsWork
<1> HIDE DEF s
<1>11. HeapOK(t) /\ StayOpen(s, t) /\ SameOwners(s, t)
  <2>1. q \in Live(s)
    BY <1>2, <1>7 DEF SameOwners
  <2>2. HeapOK(ensure_usage(s, q)) /\ StayOpen(s, ensure_usage(s, q))
    BY <1>2, <1>7, EnsureUsage DEF Preserves
  <2>3. SameOwners(s, ensure_usage(s, q))
    BY <1>7, <2>1, EnsureUsageOwners
  <2> QED BY <1>7, <2>2, <2>3, SameOwnersItself DEF StayOpen
<1> HIDE DEF t
<1>12. SameOwners(Heap, t) /\ StayOpen(Heap, t)
  BY <1>7, <1>11, SameOwnersChain DEF StayOpen
<1>13. OwnersOK(t) /\ WorkOK(t, nextConn)
  BY <1>2, <1>3, <1>10, <1>12, SameOwnersOK, TouchesWork
<1> QED BY <1>6, <1>11, <1>12, <1>13, ReturnWork

(* A login. *)
LEMMA LoginWork ==
  ASSUME IInv, OwnInv, WorkInv, NEW p \in Players, Login(p)
  PROVE  WorkInv'
<1> DEFINE q == cpu.q
           old == Heap.tq[q].player
           s1 == leave_own_tasks([Heap EXCEPT !.tq[q].player = p], q, old)
           s2 == IF HasTQueue(Heap, p) THEN merge_dead_tqueue(s1, q, TQueueOf(Heap, p))
                 ELSE s1
           h == find_shandle(s2, old)
           s3 == player_connected(s2, h, p)
           s4 == [s3 EXCEPT !.handles[h].disconnect_me = TRUE]
<1>1. /\ HeapOK(Heap) /\ OwnersOK(Heap) /\ p \in Nat
      /\ q \in Live(Heap) /\ Heap.tq[q].player < 0
      /\ Heap.tq[q].connected /\ (Heap.tq[q].num_bg = 0 \/ Live(Heap) # QueueIds)
  BY ConstantsAssumption, LoginQueue, HeapFields DEF IInv, OwnInv, Login
<1>2. /\ HasHandle(s2, old) => HeapBecomes(s3) \/ HeapBecomes(s4)
      /\ nextConn' = nextConn
  BY ZenonT(40), HeapFields DEF Login
<1>3. HeapOK(s2) /\ TakesOver(Heap, s2, q, p)
  BY <1>1, TakesOverEffect
<1>4. q \notin Heap.idle
  <2>1. Heap.active # <<>> /\ Heap.active[1] = q
    BY HeapFields DEF Login, IInv, CpuOK, DispatchedHere
  <2>2. 1 \in DOMAIN Heap.active
    BY <1>1, <2>1, TailElems DEF HeapOK, HeapType
  <2> QED BY <1>1, <2>1, <2>2 DEF HeapOK
<1>5. WorkOK(s2, nextConn)
  <2>1. /\ nextConn \in Int /\ nextConn < NOTHING /\ WorkOK(Heap, nextConn)
        /\ \A k \in ConnIds : Heap.handles[k].open => k > nextConn
    BY HeapFields DEF IInv, OwnInv, WorkInv
  <2> QED BY <1>1, <1>4, <2>1, TakesOverWork
<1> HIDE DEF s2
<1>6. HasHandle(s2, old) /\ h \in ConnIds /\ SameConnections(Heap, s2)
  BY <1>1, <1>3, LoginConnection DEF TakesOver
<1> HIDE DEF h
<1>7. HeapOK(s3) /\ WorkOK(s3, nextConn)
  <2>1. p \in Int
    BY <1>1
  <2> QED BY <1>1, <1>3, <1>5, <1>6, <2>1, PlayerConnected, PlayerConnectedWork
<1> HIDE DEF s3
<1>8. HeapOK(s4) /\ WorkOK(s4, nextConn)
  BY <1>6, <1>7, MarkHandle, MarkHandleWork DEF Preserves
<1> HIDE DEF s4
<1> QED BY <1>2, <1>6, <1>7, <1>8, BecomesWork

(* The connection of a recycled player is closed. *)
LEMMA ReapRecycledWork ==
  ASSUME IInv, OwnInv, WorkInv, NEW h \in ConnIds, ReapRecycled(h)
  PROVE  WorkInv'
<1> DEFINE s == free_shandle(Heap, h)
<1>1. HeapBecomes(s) /\ Heap.handles[h].open /\ nextConn' = nextConn
  BY HeapFields DEF ReapRecycled, Reaping, IInv, CpuOK, CPU
<1>2. HeapOK(Heap) /\ OwnersOK(Heap) /\ WorkOK(Heap, nextConn)
  BY DEF IInv, OwnInv, WorkInv
<1>3. \A k \in ConnIds :
        Heap.handles[k].open /\ Heap.handles[k].queue = Heap.handles[h].queue => k = h
  BY <1>1, <1>2 DEF OwnersOK, ConnectionsOK
<1>4. HeapOK(s) /\ WorkOK(s, nextConn)
  BY <1>1, <1>2, <1>3, FreeShandle, FreeShandleWork
<1> HIDE DEF s
<1> QED BY <1>1, <1>4, BecomesWork

-----------------------------------------------------------------------------
(* Theorems *)

(* Every step leaves every queue in order. *)
LEMMA NextWorkInv == NoOrphans /\ IInv /\ OwnInv /\ WorkInv /\ [Next]_vars => WorkInv'
<1> SUFFICES ASSUME NoOrphans, IInv, OwnInv, WorkInv, [Next]_vars PROVE WorkInv'
  OBVIOUS
<1>1. CASE Network
  <2>1. CASE EndIO
    BY <2>1, SameHeapWork DEF EndIO
  <2>2. CASE \E l \in Listeners : Accept(l)
    BY <2>2, NewConnectionWork DEF Accept
  <2>3. CASE \E h \in ConnIds : \E burst \in Bursts : ReceiveLines(h, burst)
    BY <2>3, ReceiveLinesWork
  <2>4. CASE \E h \in ConnIds : ClientCloses(h)
    BY <2>4, MarkWork DEF ClientCloses
  <2> QED BY <1>1, <2>1, <2>2, <2>3, <2>4 DEF Network
<1>2. CASE Ready
  <2>1. CASE StartPicking
    BY <2>1, SameHeapWork DEF StartPicking
  <2> QED BY <1>2, <2>1, WakeWork, ResumeReaderWithErrorWork, RunInputWork,
             RunBackgroundWork, FirstQueueIdlesWork, NothingReadyWork, BumpWork DEF Ready
<1>3. CASE Moo
  <2>1. CASE \E p \in Programmers, i \in Places :
               \/ fork(p, i)
               \/ \E forever \in BOOLEAN : suspend(p, forever, i)
    BY <2>1, ForkWork, SuspendWork
  <2>2. CASE \E id \in TaskIds : kill_task(id) \/ do_resume(id)
    BY <2>2, KillTaskWork, DoResumeWork
  <2>3. CASE \E p \in Targets :
               \/ \E line \in Lines \ {"flush"}, at_front \in BOOLEAN :
                    force_input(p, line, at_front)
               \/ flush_input(p) \/ read_input_now(p) \/ read(p) \/ boot_player(p)
               \/ \E b \in BOOLEAN : set_hold_input(p, b) \/ set_disable_oob(p, b)
    BY <2>3, ForceInputWork, FlushInputWork, ReadInputNowWork, ReadWork, BootPlayerWork,
       SetHoldInputWork, SetDisableOobWork
  <2>4. CASE \E l \in Listeners, greet \in BOOLEAN : open_network_connection(l, greet)
    BY <2>4, NewConnectionWork DEF open_network_connection
  <2>5. CASE \E p \in Players : Login(p)
    BY <2>5, LoginWork
  <2>6. CASE \E p \in Players : recycle(p)
    BY <2>6, SameHeapWork DEF recycle
  <2>7. CASE Finish
    BY <2>7, FinishWork
  <2> QED BY <1>3, <2>1, <2>2, <2>3, <2>4, <2>5, <2>6, <2>7 DEF Moo
<1>4. CASE Reap
  <2>1. CASE LoopAgain
    BY <2>1, SameHeapWork DEF LoopAgain
  <2>2. CASE \E h \in ConnIds : ReapTimedOut(h) \/ ReapBooted(h)
    BY <2>2, SameHeapWork DEF ReapTimedOut, ReapBooted
  <2>3. CASE \E h \in ConnIds : ReapRecycled(h)
    BY <2>3, ReapRecycledWork
  <2>4. CASE \E h \in ConnIds : Spare(h)
    BY <2>4, SameHeapWork DEF Spare
  <2> QED BY <1>4, <2>1, <2>2, <2>3, <2>4 DEF Reap
<1>5. CASE UNCHANGED vars
  BY <1>5, SameHeapWork DEF vars
<1> QED BY <1>1, <1>2, <1>3, <1>4, <1>5 DEF Next

(* The queues stay in order: their lengths are those of their input, and the
   two sides of the flow control agree. *)
THEOREM AlwaysWorkInv == ASSUME NoOrphans PROVE Spec => [](IInv /\ OwnInv /\ WorkInv)
<1>1. IInv /\ OwnInv /\ WorkInv /\ [Next]_vars => (IInv /\ OwnInv /\ WorkInv)'
  BY NextIInv, NextOwnInv, NextWorkInv
<1> QED BY <1>1, InitIInv, InitOwnInv, InitWorkInv, PTL DEF Spec

(* No connection goes deaf: server_suspend_input() and server_resume_input()
   are called so that the network is paused exactly while the queue says so,
   and a paused one has a line whose dequeueing will resume it, through typing
   ahead, flushing, forced input, logins and redirections. *)
THEOREM NoConnectionGoesDeaf == ASSUME NoOrphans PROVE Spec => []FlowControl
<1>1. IInv /\ OwnInv /\ WorkInv => FlowControl
  <2> SUFFICES ASSUME IInv, OwnInv, WorkInv, NEW h \in ConnIds, handles[h].open
               PROVE  LET r == tq[handles[h].queue]
                      IN /\ handles[h].paused <=> r.suspended
                         /\ r.suspended => r.input # <<>>
    BY DEF FlowControl
  <2> DEFINE q == handles[h].queue
  <2>1. q \in QueueIds
    BY HeapFields DEF IInv, HeapOK
  <2>2. Heard(Heap, q)
    BY <2>1 DEF WorkInv, WorkOK, QueueOK
  <2> QED BY <2>2, HeapFields DEF Heard
<1> QED BY <1>1, AlwaysWorkInv, PTL

(* run_ready_tasks() never looks at an idle queue, and need not: whatever input,
   options, readers, disconnections and logins do, a queue with something to run
   is active.  (Unless a task runs as a connection, see NoConnectionTasks.) *)
THEOREM IdleQueuesAreDone == ASSUME NoConnectionTasks PROVE Spec => []IdleHasNothingToDo
<1>1. NoOrphans
  BY DEF NoConnectionTasks, NoOrphans, NOTHING
<1>2. IInv /\ WorkInv => IdleHasNothingToDo
  <2> SUFFICES ASSUME IInv, WorkInv, NEW q \in idle PROVE NothingToDo(tq[q])
    BY DEF IdleHasNothingToDo
  <2>1. q \in QueueIds
    BY HeapFields DEF IInv, HeapOK, HeapType
  <2> QED BY <2>1, HeapFields DEF WorkInv, WorkOK, QueueOK
<1> QED BY <1>1, <1>2, AlwaysWorkInv, PTL

=============================================================================
