-------------------------- MODULE TaskQueuesProofs --------------------------
(***************************************************************************)
(* Proofs about TaskQueues, for any number of queues, tasks, players and   *)
(* connections.                                                            *)
(*                                                                         *)
(* The inductive invariant IInv says that the heap is well typed and its   *)
(* two lists of queues are kept as the helpers need them (HeapOK), and     *)
(* that the thread's program counter agrees with them (CpuOK).  There is a *)
(* lemma for each helper: it takes a HeapOK heap to one, and keeps the     *)
(* first active queue first and open connections open (Preserves).  An     *)
(* action composes helpers, and its proof composes their lemmas.           *)
(***************************************************************************)
EXTENDS TaskQueues, TLAPS, WellFoundedInduction

HeapType ==
  [tq : [QueueIds -> TQueue], active : Seq(QueueIds), idle : SUBSET QueueIds,
   waiting : Seq(Task), handles : [ConnIds -> Handle], panic : BOOLEAN]

HeapOK(s) ==
  /\ s \in HeapType
  /\ \A i \in DOMAIN s.active :
       s.active[i] \notin s.idle /\ s.tq[s.active[i]].usage # NO_USAGE
  /\ \A i, j \in DOMAIN s.active :
       i < j => /\ s.active[i] # s.active[j]
                /\ s.tq[s.active[i]].usage <= s.tq[s.active[j]].usage
  /\ \A q \in s.idle : s.tq[q].usage = NO_USAGE
  /\ \A h \in ConnIds : s.handles[h].open => s.handles[h].queue \in QueueIds

(* A reading task will get input or be resumed. *)
SafeReader(s, q) ==
  s.tq[q].reading # NoTask => s.tq[q].connected \/ s.tq[q].usage # NO_USAGE

(* From s to t the first active queue stays first, no connection closes and no
   reader is stranded. *)
SameHead(s, t) ==
  s.active # <<>> => t.active # <<>> /\ t.active[1] = s.active[1]
StayOpen(s, t) == \A h \in ConnIds : s.handles[h].open => t.handles[h].open
ReadersStaySafe(s, t) == \A q \in QueueIds : SafeReader(s, q) => SafeReader(t, q)
Preserves(s, t) ==
  HeapOK(t) /\ SameHead(s, t) /\ StayOpen(s, t) /\ ReadersStaySafe(s, t)

(* The heaps s and t differ in nothing that HeapOK, but for types, speaks of. *)
QueuesAgree(s, t) ==
  \A q \in QueueIds : /\ t.tq[q].usage = s.tq[q].usage
                      /\ t.tq[q].reading = s.tq[q].reading
                      /\ t.tq[q].connected = s.tq[q].connected
HandlesAgree(s, t) ==
  \A h \in ConnIds : /\ t.handles[h].open = s.handles[h].open
                     /\ t.handles[h].queue = s.handles[h].queue

-----------------------------------------------------------------------------
(* Lists *)

(* InsertAt() makes the list longer by the element, at the place. *)
LEMMA InsertAtType ==
  ASSUME NEW S, NEW l \in Seq(S), NEW i \in 1 .. Len(l) + 1, NEW e \in S
  PROVE  /\ InsertAt(l, i, e) \in Seq(S)
         /\ DOMAIN InsertAt(l, i, e) = 1 .. Len(l) + 1
         /\ \A j \in 1 .. Len(l) + 1 :
              InsertAt(l, i, e)[j] = IF j < i THEN l[j]
                                     ELSE IF j = i THEN e ELSE l[j - 1]
  BY DEF InsertAt

(* RemoveAt() of a list is a list over the same set. *)
LEMMA RemoveAtType ==
  ASSUME NEW S, NEW l \in Seq(S), NEW i \in DOMAIN l
  PROVE  RemoveAt(l, i) \in Seq(S)
  BY DEF RemoveAt

(* A set of list positions has a first element. *)
LEMMA LeastElement ==
  ASSUME NEW T \in SUBSET Nat, T # {}
  PROVE  \E x \in T : \A y \in T : x <= y
<1> DEFINE R == {ss \in Nat \X Nat : ss[1] < ss[2]}
<1>1. IsWellFoundedOn(R, Nat)
  BY NatLessThanWellFounded DEF OpToRel
<1>2. \A x, y \in Nat : y < x => <<y, x>> \in R
  OBVIOUS
<1> HIDE DEF R
<1>3. PICK x \in T : \A y \in T : ~ (<<y, x>> \in R)
  BY <1>1, WFMin, Zenon
<1>4. \A y \in T : ~ (y < x)
  BY <1>2, <1>3
<1> QED BY <1>4

-----------------------------------------------------------------------------
(* Updates of a heap *)

(* A heap whose lists, usages, readers and open connections are those of a good
   heap is a good one. *)
LEMMA QuietHeap ==
  ASSUME NEW s, HeapOK(s), NEW t \in HeapType,
         t.active = s.active, t.idle = s.idle,
         QueuesAgree(s, t), HandlesAgree(s, t)
  PROVE  Preserves(s, t)
<1>1. /\ \A i \in DOMAIN s.active : s.active[i] \in QueueIds
      /\ \A q \in s.idle : q \in QueueIds
  BY DEF HeapOK, HeapType
<1>2. HeapOK(t)
  BY <1>1 DEF HeapOK, QueuesAgree, HandlesAgree
<1>3. ReadersStaySafe(s, t)
  BY DEF QueuesAgree, ReadersStaySafe, SafeReader
<1> QED BY <1>2, <1>3 DEF Preserves, SameHead, StayOpen, HandlesAgree

(* Replacing a queue by one with the same usage, reader and connection. *)
LEMMA QuietQueue ==
  ASSUME NEW s, HeapOK(s), NEW q \in QueueIds, NEW r \in TQueue,
         r.usage = s.tq[q].usage, r.reading = s.tq[q].reading,
         r.connected = s.tq[q].connected
  PROVE  Preserves(s, [s EXCEPT !.tq[q] = r])
<1> DEFINE t == [s EXCEPT !.tq[q] = r]
<1>1. t \in HeapType /\ t.active = s.active /\ t.idle = s.idle
  BY DEF HeapOK, HeapType
<1>2. QueuesAgree(s, t) /\ HandlesAgree(s, t)
  BY DEF HeapOK, HeapType, QueuesAgree, HandlesAgree
<1> HIDE DEF t
<1>3. Preserves(s, t) BY <1>1, <1>2, QuietHeap
<1> QED BY <1>3 DEF t

(* Replacing a connection's handle. *)
LEMMA SetHandle ==
  ASSUME NEW s, HeapOK(s), NEW h \in ConnIds, NEW g \in Handle,
         g.open => g.queue \in QueueIds
  PROVE  LET t == [s EXCEPT !.handles[h] = g]
         IN /\ HeapOK(t) /\ SameHead(s, t)
            /\ (s.handles[h].open => g.open) => StayOpen(s, t)
            /\ t.tq = s.tq /\ t.active = s.active /\ t.idle = s.idle
            /\ t.waiting = s.waiting
            /\ t.handles = [s.handles EXCEPT ![h] = g]
<1> DEFINE t == [s EXCEPT !.handles[h] = g]
<1>1. /\ t \in HeapType /\ t.active = s.active /\ t.idle = s.idle
      /\ t.tq = s.tq /\ t.waiting = s.waiting
      /\ t.handles = [s.handles EXCEPT ![h] = g]
  BY DEF HeapOK, HeapType
<1> HIDE DEF t
<1>2. \A k \in ConnIds : t.handles[k] = IF k = h THEN g ELSE s.handles[k]
  BY <1>1 DEF HeapOK, HeapType
<1>3. HeapOK(t)
  BY <1>1, <1>2 DEF HeapOK
<1>4. (s.handles[h].open => g.open) => StayOpen(s, t)
  BY <1>2 DEF StayOpen
<1> QED BY <1>1, <1>3, <1>4 DEF SameHead, t

(* Preserves is transitive. *)
LEMMA PreservesChain ==
  ASSUME NEW s, NEW t, NEW u, Preserves(s, t), Preserves(t, u)
  PROVE  Preserves(s, u)
  BY DEF Preserves, SameHead, StayOpen, ReadersStaySafe

(* A good heap preserves itself. *)
LEMMA PreservesItself ==
  ASSUME NEW s, HeapOK(s)
  PROVE  Preserves(s, s)
  BY DEF Preserves, SameHead, StayOpen, ReadersStaySafe

-----------------------------------------------------------------------------
(* Finding queues and connections *)

(* TQueueOf() is a live queue of the player. *)
LEMMA TQueueOfLive ==
  ASSUME NEW s, HeapOK(s), NEW p, HasTQueue(s, p)
  PROVE  /\ TQueueOf(s, p) \in Live(s)
         /\ TQueueOf(s, p) \in QueueIds
         /\ s.tq[TQueueOf(s, p)].player = p
<1>1. /\ \A i \in DOMAIN s.active : s.active[i] \in QueueIds
      /\ \A q \in s.idle : q \in QueueIds
  BY DEF HeapOK, HeapType
<1>2. CASE \E i \in DOMAIN s.active : s.tq[s.active[i]].player = p
  <2> DEFINE T == {i \in DOMAIN s.active : s.tq[s.active[i]].player = p}
  <2>1. T \in SUBSET Nat /\ T # {}
    BY <1>2 DEF HeapOK, HeapType
  <2>2. PICK i \in T : \A j \in T : i <= j
    BY <2>1, LeastElement
  <2>3. \A j \in 1 .. i - 1 : s.tq[s.active[j]].player # p
    BY <2>2 DEF HeapOK, HeapType
  <2>4. \E k \in DOMAIN s.active : /\ s.tq[s.active[k]].player = p
                                  /\ TQueueOf(s, p) = s.active[k]
    BY <1>2, <2>2, <2>3 DEF TQueueOf
  <2> QED BY <1>1, <2>4 DEF Live, Elems
<1>3. CASE ~ \E i \in DOMAIN s.active : s.tq[s.active[i]].player = p
  <2>1. \E q \in s.idle : s.tq[q].player = p
    BY <1>3 DEF HasTQueue, Live, Elems
  <2> QED BY <1>1, <1>3, <2>1 DEF TQueueOf, Live
<1> QED BY <1>2, <1>3

(* find_shandle() is an open connection with a queue. *)
LEMMA FindShandleOpen ==
  ASSUME NEW s, HeapOK(s), NEW p, HasHandle(s, p)
  PROVE  /\ find_shandle(s, p) \in ConnIds
         /\ s.handles[find_shandle(s, p)].open
         /\ s.handles[find_shandle(s, p)].queue \in QueueIds
  BY DEF HasHandle, find_shandle, HeapOK

(* A new queue is well typed. *)
LEMMA FreshQueueType ==
  ASSUME NEW p \in Int
  PROVE  FreshQueue(p) \in TQueue
  BY DEF FreshQueue, TQueue

(* find_tqueue() makes the queue, or finds it. *)
LEMMA FindTQueue ==
  ASSUME NEW s, HeapOK(s), NEW p \in Int, HasRoomFor(s, p)
  PROVE  /\ Preserves(s, find_tqueue(s, p))
         /\ HasTQueue(find_tqueue(s, p), p)
         /\ TQueueOf(find_tqueue(s, p), p) \in QueueIds
         /\ find_tqueue(s, p).waiting = s.waiting
<1> DEFINE t == find_tqueue(s, p)
<1>1. CASE HasTQueue(s, p)
  BY <1>1, PreservesItself, TQueueOfLive DEF find_tqueue
<1>2. CASE ~HasTQueue(s, p)
  <2> DEFINE u == Unused(s)
  <2>1. u \in QueueIds /\ u \notin s.idle /\ u \notin Elems(s.active)
    <3>1. Live(s) \subseteq QueueIds
      BY DEF Live, Elems, HeapOK, HeapType
    <3> QED BY <1>2, <3>1 DEF HasRoomFor, Unused, Live
  <2> HIDE DEF u
  <2>2. t = [s EXCEPT !.tq[u] = FreshQueue(p), !.idle = s.idle \cup {u}]
    BY <1>2 DEF find_tqueue, u
  <2>3. /\ t \in HeapType /\ t.active = s.active /\ t.handles = s.handles
        /\ t.idle = s.idle \cup {u} /\ t.waiting = s.waiting
        /\ t.tq = [s.tq EXCEPT ![u] = FreshQueue(p)]
    <3>1. FreshQueue(p) \in TQueue
      BY FreshQueueType
    <3> DEFINE f == FreshQueue(p)
    <3> HIDE DEF f
    <3>2. t = [s EXCEPT !.tq[u] = f, !.idle = s.idle \cup {u}]
      BY <2>2 DEF f
    <3>3. f \in TQueue
      BY <3>1 DEF f
    <3> HIDE DEF t
    <3>4. t.tq = [s.tq EXCEPT ![u] = f]
      BY <3>2 DEF HeapOK, HeapType
    <3>5. t \in HeapType
      BY <2>1, <3>2, <3>3 DEF HeapOK, HeapType
    <3> QED BY <3>2, <3>4, <3>5 DEF HeapOK, HeapType, f
  <2> HIDE DEF t
  <2>4. /\ t.tq[u].usage = NO_USAGE /\ t.tq[u].reading = NoTask
        /\ t.tq[u].player = p
        /\ \A q \in QueueIds : q # u => t.tq[q] = s.tq[q]
    BY <2>1, <2>3 DEF FreshQueue, HeapOK, HeapType
  <2>5. \A i \in DOMAIN s.active : s.active[i] \in QueueIds /\ s.active[i] # u
    BY <2>1 DEF Elems, HeapOK, HeapType
  <2>6. HeapOK(t)
    <3>1. \A q \in s.idle : q \in QueueIds
      BY DEF HeapOK, HeapType
    <3> QED BY <2>3, <2>4, <2>5, <3>1 DEF HeapOK
  <2>7. Preserves(s, t)
    <3>1. ReadersStaySafe(s, t)
      BY <2>3, <2>4 DEF ReadersStaySafe, SafeReader
    <3> QED BY <2>3, <2>6, <3>1 DEF Preserves, SameHead, StayOpen
  <2>8. HasTQueue(t, p)
    BY <2>3, <2>4 DEF HasTQueue, Live
  <2> QED BY <2>3, <2>6, <2>7, <2>8, TQueueOfLive DEF t
<1> QED BY <1>1, <1>2

-----------------------------------------------------------------------------
(* Idle and active queues *)

(* activate_tqueue() puts a queue of the given usage, which is on neither list,
   into the sorted list, behind the first one if that has no larger usage. *)
LEMMA ActivateTQueue ==
  ASSUME NEW s, HeapOK(s), NEW q \in QueueIds,
         q \notin s.idle, q \notin Elems(s.active), s.tq[q].usage # NO_USAGE
  PROVE  /\ HeapOK(activate_tqueue(s, q))
         /\ StayOpen(s, activate_tqueue(s, q))
         /\ (s.active # <<>> /\ s.tq[s.active[1]].usage <= s.tq[q].usage)
              => SameHead(s, activate_tqueue(s, q))
         /\ activate_tqueue(s, q) = [s EXCEPT !.active = activate_tqueue(s, q).active]
         /\ \E i \in 1 .. Len(s.active) + 1 :
              activate_tqueue(s, q).active = InsertAt(s.active, i, q)
<1> DEFINE t == activate_tqueue(s, q)
           Later(j) == s.tq[s.active[j]].usage > s.tq[q].usage
<1>1. /\ s.active \in Seq(QueueIds)
      /\ \A r \in QueueIds : s.tq[r].usage \in Int
      /\ \A j \in DOMAIN s.active : s.active[j] \in QueueIds
  <2>1. \A r \in QueueIds : s.tq[r] \in TQueue
    BY DEF HeapOK, HeapType
  <2>2. \A r \in QueueIds : s.tq[r].usage \in Int
    BY <2>1 DEF TQueue, NO_USAGE
  <2> QED BY <2>2 DEF HeapOK, HeapType
<1>2. PICK i \in 1 .. Len(s.active) + 1 :
        /\ t = [s EXCEPT !.active = InsertAt(s.active, i, q)]
        /\ \A j \in DOMAIN s.active : j < i => ~Later(j)
        /\ i \in DOMAIN s.active => Later(i)
  <2>1. CASE \E j \in DOMAIN s.active : Later(j)
    <3> DEFINE T == {j \in DOMAIN s.active : Later(j)}
    <3>1. T \in SUBSET Nat /\ T # {}
      BY <1>1, <2>1
    <3>2. PICK j \in T : \A k \in T : j <= k
      BY <3>1, LeastElement
    <3>3. \A k \in 1 .. j - 1 : s.tq[s.active[k]].usage <= s.tq[q].usage
      BY <1>1, <3>2
    <3>4. PICK m \in DOMAIN s.active :
            /\ t = [s EXCEPT !.active = InsertAt(s.active, m, q)]
            /\ Later(m)
            /\ \A k \in 1 .. m - 1 : s.tq[s.active[k]].usage <= s.tq[q].usage
      BY <2>1, <3>2, <3>3 DEF activate_tqueue
    <3>5. \A k \in DOMAIN s.active : k < m => k \in 1 .. m - 1
      BY <1>1
    <3>6. \A k \in DOMAIN s.active : k < m => ~Later(k)
      BY <1>1, <3>4, <3>5
    <3>7. m \in 1 .. Len(s.active) + 1
      BY <1>1
    <3> HIDE DEF t, Later
    <3> QED BY <3>4, <3>6, <3>7
  <2>2. CASE ~ \E j \in DOMAIN s.active : Later(j)
    <3>1. t = [s EXCEPT !.active = InsertAt(s.active, Len(s.active) + 1, q)]
      BY <2>2 DEF activate_tqueue
    <3>2. /\ Len(s.active) + 1 \in 1 .. Len(s.active) + 1
          /\ Len(s.active) + 1 \notin DOMAIN s.active
      BY <1>1
    <3> HIDE DEF t, Later
    <3> QED BY <2>2, <3>1, <3>2
  <2> QED BY <2>1, <2>2
<1>3. /\ t \in HeapType
      /\ t.tq = s.tq /\ t.idle = s.idle /\ t.handles = s.handles
      /\ t.active = InsertAt(s.active, i, q)
  <2>1. InsertAt(s.active, i, q) \in Seq(QueueIds)
    BY <1>1, InsertAtType
  <2> QED BY <1>2, <2>1 DEF HeapOK, HeapType
<1> HIDE DEF t
<1>4. /\ DOMAIN t.active = 1 .. Len(s.active) + 1
      /\ \A j \in 1 .. Len(s.active) + 1 :
           t.active[j] = IF j < i THEN s.active[j]
                         ELSE IF j = i THEN q ELSE s.active[j - 1]
  <2>1. s.active \in Seq(QueueIds) BY <1>1
  <2>2. i \in 1 .. Len(s.active) + 1 BY <1>2
  <2>3. /\ DOMAIN InsertAt(s.active, i, q) = 1 .. Len(s.active) + 1
        /\ \A j \in 1 .. Len(s.active) + 1 :
             InsertAt(s.active, i, q)[j] = IF j < i THEN s.active[j]
                                           ELSE IF j = i THEN q ELSE s.active[j - 1]
    BY <2>1, <2>2 DEF InsertAt
  <2> QED BY <1>3, <2>3
<1>5. \A j \in DOMAIN t.active :
        t.active[j] \notin t.idle /\ t.tq[t.active[j]].usage # NO_USAGE
  BY <1>1, <1>3, <1>4 DEF HeapOK
<1>6. \A j, k \in DOMAIN t.active :
        j < k => /\ t.active[j] # t.active[k]
                 /\ t.tq[t.active[j]].usage <= t.tq[t.active[k]].usage
  <2> SUFFICES ASSUME NEW j \in DOMAIN t.active, NEW k \in DOMAIN t.active, j < k
               PROVE  /\ t.active[j] # t.active[k]
                      /\ s.tq[t.active[j]].usage <= s.tq[t.active[k]].usage
    BY <1>3
  <2>1. \A m \in DOMAIN s.active : s.active[m] # q
    BY DEF Elems
  <2>2. CASE j # i /\ k # i
    <3> DEFINE old(m) == IF m < i THEN m ELSE m - 1
    <3>1. /\ old(j) \in DOMAIN s.active /\ old(k) \in DOMAIN s.active
          /\ old(j) < old(k)
          /\ t.active[j] = s.active[old(j)] /\ t.active[k] = s.active[old(k)]
      BY <1>1, <1>4, <2>2, SMTT(60)
    <3> HIDE DEF old
    <3> QED BY <3>1 DEF HeapOK
  <2>3. CASE k = i
    <3>1. t.active[j] = s.active[j] /\ t.active[k] = q /\ j \in DOMAIN s.active
      BY <1>1, <1>4, <2>3
    <3> QED BY <1>1, <1>2, <2>1, <2>3, <3>1
  <2>4. CASE j = i
    <3>1. /\ t.active[j] = q /\ t.active[k] = s.active[k - 1]
          /\ k - 1 \in DOMAIN s.active /\ i \in DOMAIN s.active
      BY <1>1, <1>4, <2>4
    <3>2. s.tq[s.active[i]].usage <= s.tq[s.active[k - 1]].usage
      <4>1. CASE i = k - 1 BY <1>1, <3>1, <4>1
      <4>2. CASE i < k - 1 BY <1>1, <3>1, <4>2 DEF HeapOK
      <4> QED BY <1>1, <2>4, <1>4, <4>1, <4>2
    <3> QED BY <1>1, <1>2, <2>1, <3>1, <3>2
  <2> QED BY <2>2, <2>3, <2>4
<1>7. HeapOK(t)
  BY <1>3, <1>5, <1>6 DEF HeapOK
<1>8. ASSUME s.active # <<>>, s.tq[s.active[1]].usage <= s.tq[q].usage
      PROVE  t.active # <<>> /\ t.active[1] = s.active[1]
  <2>1. 1 \in DOMAIN s.active /\ i > 1
    BY <1>1, <1>2, <1>8
  <2> QED BY <1>1, <1>3, <1>4, <2>1
<1>9. t = [s EXCEPT !.active = t.active]
  BY <1>2, <1>3
<1>10. \E m \in 1 .. Len(s.active) + 1 : t.active = InsertAt(s.active, m, q)
  BY <1>3
<1> QED BY <1>3, <1>7, <1>8, <1>9, <1>10 DEF t, SameHead, StayOpen

(* ensure_usage() puts an idle queue behind the first active one. *)
LEMMA EnsureUsage ==
  ASSUME NEW s, HeapOK(s), NEW q \in QueueIds
  PROVE  LET t == ensure_usage(s, q)
         IN /\ Preserves(s, t)
            /\ t.tq[q].usage # NO_USAGE
            /\ t.tq[q] = [s.tq[q] EXCEPT !.usage = t.tq[q].usage]
            /\ t.waiting = s.waiting
            /\ t.handles = s.handles
<1> DEFINE t == ensure_usage(s, q)
<1>0. /\ s.tq[q] \in TQueue
      /\ s.active \in Seq(QueueIds)
      /\ \A j \in DOMAIN s.active : s.active[j] \in QueueIds
      /\ \A r \in QueueIds : s.tq[r].usage \in Nat \cup {NO_USAGE}
  <2>1. \A r \in QueueIds : s.tq[r] \in TQueue
    BY DEF HeapOK, HeapType
  <2> QED BY <2>1 DEF HeapOK, HeapType, TQueue
<1>1. CASE s.tq[q].usage # NO_USAGE
  BY <1>0, <1>1, PreservesItself DEF ensure_usage, TQueue
<1>2. CASE s.tq[q].usage = NO_USAGE
  <2> DEFINE n == IF s.active = <<>> THEN 0 ELSE s.tq[s.active[1]].usage
             r == [s.tq[q] EXCEPT !.usage = n]
             u == [s EXCEPT !.tq[q] = r, !.idle = s.idle \ {q}]
  <2>1. n \in Nat /\ n # NO_USAGE
    <3>1. CASE s.active = <<>> BY <3>1 DEF NO_USAGE
    <3>2. CASE s.active # <<>>
      <4>1. 1 \in DOMAIN s.active BY <1>0, <3>2
      <4>2. s.tq[s.active[1]].usage # NO_USAGE BY <4>1 DEF HeapOK
      <4> QED BY <1>0, <3>2, <4>1, <4>2
    <3> QED BY <3>1, <3>2
  <2>2. r \in TQueue /\ r.usage = n
        /\ r.reading = s.tq[q].reading /\ r.connected = s.tq[q].connected
        /\ r.player = s.tq[q].player
    BY <1>0, <2>1 DEF TQueue
  <2>3. t = activate_tqueue(u, q)
    BY <1>2 DEF ensure_usage
  <2>3a. s.active # <<>> => n = s.tq[s.active[1]].usage
    OBVIOUS
  <2>3b. r = [s.tq[q] EXCEPT !.usage = r.usage]
    BY <1>0, <2>2 DEF TQueue
  <2> HIDE DEF n, r
  <2>4. /\ u \in HeapType /\ u.active = s.active /\ u.idle = s.idle \ {q}
        /\ u.tq = [s.tq EXCEPT ![q] = r]
        /\ u.waiting = s.waiting /\ u.handles = s.handles
    BY <2>2 DEF HeapOK, HeapType
  <2> HIDE DEF u
  <2>5. u.tq[q] = r /\ \A k \in QueueIds : k # q => u.tq[k] = s.tq[k]
    BY <2>4 DEF HeapOK, HeapType
  <2>6. \A i \in DOMAIN s.active : s.active[i] \in QueueIds /\ s.active[i] # q
    BY <1>0, <1>2 DEF HeapOK
  <2>7. \A k \in s.idle : k \in QueueIds
    BY DEF HeapOK, HeapType
  <2>8. HeapOK(u)
    BY <2>1, <2>2, <2>4, <2>5, <2>6, <2>7 DEF HeapOK
  <2>9. q \notin u.idle /\ q \notin Elems(u.active) /\ u.tq[q].usage # NO_USAGE
    BY <2>1, <2>2, <2>4, <2>5, <2>6 DEF Elems
  <2>10. /\ HeapOK(t) /\ StayOpen(u, t)
         /\ (u.active # <<>> /\ u.tq[u.active[1]].usage <= u.tq[q].usage)
               => SameHead(u, t)
         /\ t = [u EXCEPT !.active = t.active]
    <3> HIDE DEF t
    <3> QED BY <2>3, <2>8, <2>9, ActivateTQueue
  <2> HIDE DEF t
  <2>11. /\ t.tq = u.tq /\ t.idle = u.idle
         /\ t.waiting = u.waiting /\ t.handles = u.handles
    BY <2>4, <2>10 DEF HeapType
  <2>12. SameHead(s, t)
    <3> SUFFICES ASSUME s.active # <<>>
                 PROVE  SameHead(u, t)
      BY <2>4 DEF SameHead
    <3>1. 1 \in DOMAIN s.active BY <1>0
    <3>2. u.tq[u.active[1]].usage = n /\ u.tq[q].usage = n
      BY <2>3a, <2>2, <2>4, <2>5, <2>6, <3>1
    <3> QED BY <2>1, <2>4, <2>10, <3>2
  <2>13. Preserves(s, t)
    <3>1. ReadersStaySafe(s, t)
      BY <2>1, <2>2, <2>4, <2>5, <2>11 DEF ReadersStaySafe, SafeReader
    <3> QED BY <2>4, <2>10, <2>12, <3>1 DEF Preserves, StayOpen
  <2> QED BY <1>0, <2>1, <2>2, <2>3b, <2>4, <2>5, <2>11, <2>13 DEF t
<1> QED BY <1>1, <1>2

-----------------------------------------------------------------------------
(* Input lines and flow control *)

(* Pausing or resuming the network of a player's connection. *)
LEMMA SetPaused ==
  ASSUME NEW s, HeapOK(s), NEW p, NEW b \in BOOLEAN
  PROVE  /\ Preserves(s, server_set_paused(s, p, b))
         /\ server_set_paused(s, p, b).tq = s.tq
         /\ server_set_paused(s, p, b).waiting = s.waiting
<1> DEFINE t == server_set_paused(s, p, b)
<1>1. CASE HasHandle(s, p)
  <2> DEFINE h == find_shandle(s, p)
  <2>1. h \in ConnIds
    BY <1>1, FindShandleOpen
  <2> HIDE DEF h
  <2> DEFINE g == [s.handles[h] EXCEPT !.paused = b]
  <2>2. s.handles[h] \in Handle
    BY <2>1 DEF HeapOK, HeapType
  <2>3. g \in Handle /\ g.open = s.handles[h].open /\ g.queue = s.handles[h].queue
    BY <2>2 DEF Handle
  <2>4. t = [s EXCEPT !.handles[h] = g]
    BY <1>1 DEF server_set_paused, h
  <2> HIDE DEF g, t
  <2>5. g.open => g.queue \in QueueIds
    BY <2>1, <2>3 DEF HeapOK
  <2>6. /\ HeapOK(t) /\ SameHead(s, t) /\ StayOpen(s, t)
        /\ t.tq = s.tq /\ t.waiting = s.waiting
    BY <2>1, <2>3, <2>4, <2>5, SetHandle
  <2> QED BY <2>6 DEF Preserves, ReadersStaySafe, SafeReader, t
<1>2. CASE ~HasHandle(s, p)
  <2>1. t = [s EXCEPT !.panic = TRUE]
    BY <1>2 DEF server_set_paused
  <2>2. /\ t \in HeapType /\ t.active = s.active /\ t.idle = s.idle
        /\ t.tq = s.tq /\ t.waiting = s.waiting /\ t.handles = s.handles
    BY <2>1 DEF HeapOK, HeapType
  <2> HIDE DEF t
  <2>3. QueuesAgree(s, t) /\ HandlesAgree(s, t)
    BY <2>2 DEF QueuesAgree, HandlesAgree
  <2> QED BY <2>2, <2>3, QuietHeap DEF t
<1> QED BY <1>1, <1>2

(* Setting the flow-control mark of a queue. *)
LEMMA SetSuspended ==
  ASSUME NEW s, HeapOK(s), NEW q \in QueueIds, NEW b \in BOOLEAN
  PROVE  /\ Preserves(s, [s EXCEPT !.tq[q].suspended = b])
         /\ QueuesAgree(s, [s EXCEPT !.tq[q].suspended = b])
<1> DEFINE r == [s.tq[q] EXCEPT !.suspended = b]
<1>1. s.tq[q] \in TQueue
  BY DEF HeapOK, HeapType
<1>2. /\ r \in TQueue /\ r.usage = s.tq[q].usage
      /\ r.reading = s.tq[q].reading /\ r.connected = s.tq[q].connected
  BY <1>1 DEF TQueue
<1>3. [s EXCEPT !.tq[q].suspended = b] = [s EXCEPT !.tq[q] = r]
  OBVIOUS
<1> HIDE DEF r
<1>4. QueuesAgree(s, [s EXCEPT !.tq[q] = r])
  BY <1>2 DEF QueuesAgree, HeapOK, HeapType
<1> QED BY <1>2, <1>3, <1>4, QuietQueue

(* task_suspend_input() *)
LEMMA SuspendInput ==
  ASSUME NEW s, HeapOK(s), NEW q \in QueueIds
  PROVE  /\ Preserves(s, task_suspend_input(s, q))
         /\ QueuesAgree(s, task_suspend_input(s, q))
<1>1. CASE ~s.tq[q].suspended /\ s.tq[q].connected
  <2> DEFINE t == server_set_paused(s, s.tq[q].player, TRUE)
  <2>1. Preserves(s, t) /\ t.tq = s.tq
    BY SetPaused
  <2>2. task_suspend_input(s, q) = [t EXCEPT !.tq[q].suspended = TRUE]
    BY <1>1 DEF task_suspend_input
  <2> HIDE DEF t
  <2>3. HeapOK(t) BY <2>1 DEF Preserves
  <2> DEFINE u == [t EXCEPT !.tq[q].suspended = TRUE]
  <2>4. Preserves(t, u) /\ QueuesAgree(t, u)
    BY <2>3, SetSuspended
  <2> HIDE DEF u
  <2>5. Preserves(s, u) /\ QueuesAgree(s, u)
    BY <2>1, <2>4, PreservesChain DEF QueuesAgree
  <2> QED BY <2>2, <2>5 DEF u
<1>2. CASE ~(~s.tq[q].suspended /\ s.tq[q].connected)
  BY <1>2, PreservesItself DEF task_suspend_input, QueuesAgree
<1> QED BY <1>1, <1>2

(* The resumption of input when a dequeueing leaves little of it. *)
LEMMA ResumeIfLow ==
  ASSUME NEW s, HeapOK(s), NEW q \in QueueIds
  PROVE  /\ Preserves(s, resume_if_low(s, q))
         /\ QueuesAgree(s, resume_if_low(s, q))
<1> DEFINE C == s.tq[q].suspended /\ s.tq[q].connected /\ s.tq[q].len < INPUT_LOWAT
<1>1. CASE C
  <2> DEFINE t == server_set_paused(s, s.tq[q].player, FALSE)
  <2>1. Preserves(s, t) /\ t.tq = s.tq
    BY SetPaused
  <2>2. resume_if_low(s, q) = [t EXCEPT !.tq[q].suspended = FALSE]
    BY <1>1 DEF resume_if_low
  <2> HIDE DEF t
  <2>3. HeapOK(t) BY <2>1 DEF Preserves
  <2> DEFINE u == [t EXCEPT !.tq[q].suspended = FALSE]
  <2>4. Preserves(t, u) /\ QueuesAgree(t, u)
    BY <2>3, SetSuspended
  <2> HIDE DEF u
  <2>5. Preserves(s, u) /\ QueuesAgree(s, u)
    BY <2>1, <2>4, PreservesChain DEF QueuesAgree
  <2> QED BY <2>2, <2>5 DEF u
<1>2. CASE ~C
  BY <1>2, PreservesItself DEF resume_if_low, QueuesAgree
<1> QED BY <1>1, <1>2

(* A change of the input list and its length, and of nothing else. *)
LEMMA SetInput ==
  ASSUME NEW s, HeapOK(s), NEW q \in QueueIds,
         NEW l \in Seq(LineKinds), NEW n \in Int
  PROVE  LET t == [s EXCEPT !.tq[q].input = l, !.tq[q].len = n]
         IN /\ Preserves(s, t) /\ QueuesAgree(s, t)
            /\ t.tq[q] = [s.tq[q] EXCEPT !.input = l, !.len = n]
<1> DEFINE r == [s.tq[q] EXCEPT !.input = l, !.len = n]
           t == [s EXCEPT !.tq[q].input = l, !.tq[q].len = n]
<1>1. s.tq[q] \in TQueue
  BY DEF HeapOK, HeapType
<1>2. /\ r \in TQueue /\ r.usage = s.tq[q].usage
      /\ r.reading = s.tq[q].reading /\ r.connected = s.tq[q].connected
  BY <1>1 DEF TQueue
<1>3. t = [s EXCEPT !.tq[q] = r]
  BY DEF HeapOK, HeapType
<1> HIDE DEF r, t
<1>4. QueuesAgree(s, [s EXCEPT !.tq[q] = r]) /\ t.tq[q] = r
  BY <1>2, <1>3 DEF QueuesAgree, HeapOK, HeapType
<1>5. Preserves(s, [s EXCEPT !.tq[q] = r])
  BY <1>2, QuietQueue
<1> QED BY <1>3, <1>4, <1>5 DEF t, r

(* A kind of line has a length. *)
LEMMA LengthType ==
  ASSUME NEW line \in LineKinds
  PROVE  Length(line) \in Int
  BY ConstantsAssumption DEF Length

(* enqueue_input_task(): the reader and the connection stay, and the queue may
   become active. *)
LEMMA EnqueueInputTask ==
  ASSUME NEW s, HeapOK(s), NEW q \in QueueIds, NEW line \in LineKinds,
         NEW at_front \in BOOLEAN
  PROVE  Preserves(s, enqueue_input_task(s, q, line, at_front))
<1> DEFINE l == IF at_front THEN InsertAt(s.tq[q].input, 1, line)
                ELSE Append(s.tq[q].input, line)
           n == s.tq[q].len + Length(line)
           s1 == [s EXCEPT !.tq[q].input = l, !.tq[q].len = n]
           r == s1.tq[q]
           C == ~r.hold \/ r.reading # NoTask \/ (~r.no_oob /\ line = "oob")
           s2 == IF C THEN ensure_usage(s1, q) ELSE s1
<1>1. l \in Seq(LineKinds) /\ n \in Int
  <2>1. s.tq[q] \in TQueue BY DEF HeapOK, HeapType
  <2>2. s.tq[q].input \in Seq(LineKinds) /\ s.tq[q].len \in Int
    BY <2>1 DEF TQueue
  <2>3. InsertAt(s.tq[q].input, 1, line) \in Seq(LineKinds)
    <3>1. 1 \in 1 .. Len(s.tq[q].input) + 1 BY <2>2
    <3> QED BY <2>2, <3>1, InsertAtType
  <2> QED BY <2>2, <2>3, LengthType
<1>2. enqueue_input_task(s, q, line, at_front)
        = IF s2.tq[q].len > INPUT_HIWAT THEN task_suspend_input(s2, q) ELSE s2
  BY DEF enqueue_input_task
<1> HIDE DEF l, n
<1>3. Preserves(s, s1)
  BY <1>1, SetInput
<1> HIDE DEF s1
<1>4. Preserves(s1, s2)
  <2>1. HeapOK(s1) BY <1>3 DEF Preserves
  <2>2. Preserves(s1, s1) /\ Preserves(s1, ensure_usage(s1, q))
    BY <2>1, EnsureUsage, PreservesItself
  <2> HIDE DEF C
  <2> QED BY <2>2
<1> HIDE DEF s2
<1>5. Preserves(s2, enqueue_input_task(s, q, line, at_front))
  <2>1. HeapOK(s2) BY <1>4 DEF Preserves
  <2>2. Preserves(s2, s2) /\ Preserves(s2, task_suspend_input(s2, q))
    BY <2>1, SuspendInput, PreservesItself
  <2> QED BY <1>2, <2>2
<1> QED BY <1>3, <1>4, <1>5, PreservesChain

(* A wanted line is found. *)
LEMMA InputIndexIn ==
  ASSUME NEW s, HeapOK(s), NEW q \in QueueIds, NEW how, HasInput(s.tq[q], how)
  PROVE  InputIndex(s.tq[q], how) \in DOMAIN s.tq[q].input
<1> DEFINE T == {j \in DOMAIN s.tq[q].input : Wanted(s.tq[q], how, j)}
<1>1. s.tq[q].input \in Seq(LineKinds)
  <2>1. s.tq[q] \in TQueue BY DEF HeapOK, HeapType
  <2> QED BY <2>1 DEF TQueue
<1>2. T \in SUBSET Nat /\ T # {}
  BY <1>1 DEF HasInput
<1>3. PICK m \in T : \A j \in T : m <= j
  BY <1>2, LeastElement
<1>4. \A j \in 1 .. m - 1 : ~Wanted(s.tq[q], how, j)
  BY <1>1, <1>3
<1> QED BY <1>3, <1>4 DEF InputIndex

(* dequeue_input_task(), when there is a line of the wanted kind. *)
LEMMA DequeueInputTask ==
  ASSUME NEW s, HeapOK(s), NEW q \in QueueIds, NEW how, HasInput(s.tq[q], how)
  PROVE  /\ Preserves(s, dequeue_input_task(s, q, how))
         /\ QueuesAgree(s, dequeue_input_task(s, q, how))
<1> DEFINE i == InputIndex(s.tq[q], how)
           l == RemoveAt(s.tq[q].input, i)
           n == s.tq[q].len - Length(s.tq[q].input[i])
           t == [s EXCEPT !.tq[q].input = l, !.tq[q].len = n]
<1>1. s.tq[q] \in TQueue BY DEF HeapOK, HeapType
<1>2. s.tq[q].input \in Seq(LineKinds) /\ s.tq[q].len \in Int
  BY <1>1 DEF TQueue
<1>3. i \in DOMAIN s.tq[q].input
  BY InputIndexIn
<1>4. l \in Seq(LineKinds) /\ n \in Int
  <2>1. l \in Seq(LineKinds) BY <1>2, <1>3, RemoveAtType
  <2>2. s.tq[q].input[i] \in LineKinds BY <1>2, <1>3
  <2>3. Length(s.tq[q].input[i]) \in Int BY <2>2, LengthType
  <2> QED BY <1>2, <2>1, <2>3
<1>5. dequeue_input_task(s, q, how) = resume_if_low(t, q)
  BY DEF dequeue_input_task
<1> HIDE DEF l, n
<1>6. Preserves(s, t) /\ QueuesAgree(s, t)
  BY <1>4, SetInput
<1> HIDE DEF t
<1>7. Preserves(t, resume_if_low(t, q)) /\ QueuesAgree(t, resume_if_low(t, q))
  BY <1>6, ResumeIfLow DEF Preserves
<1>8. QueuesAgree(s, resume_if_low(t, q))
  BY <1>6, <1>7 DEF QueuesAgree
<1>9. Preserves(s, resume_if_low(t, q))
  BY <1>6, <1>7, PreservesChain
<1> QED BY <1>5, <1>8, <1>9

(* Dequeueing everything. *)
LEMMA DequeueAllInput ==
  ASSUME NEW s, HeapOK(s), NEW q \in QueueIds
  PROVE  Preserves(s, dequeue_all_input(s, q))
<1> DEFINE t == [s EXCEPT !.tq[q].input = <<>>, !.tq[q].len = 0]
<1>1. <<>> \in Seq(LineKinds) /\ 0 \in Int
  OBVIOUS
<1>2. dequeue_all_input(s, q)
        = IF s.tq[q].input = <<>> THEN s ELSE resume_if_low(t, q)
  BY DEF dequeue_all_input
<1>3. Preserves(s, t)
  BY <1>1, SetInput
<1> HIDE DEF t
<1>4. Preserves(t, resume_if_low(t, q))
  BY <1>3, ResumeIfLow DEF Preserves
<1>5. Preserves(s, resume_if_low(t, q)) /\ Preserves(s, s)
  BY <1>3, <1>4, PreservesChain, PreservesItself
<1> QED BY <1>2, <1>5

(* A line of input arrives. *)
LEMMA NewInputTask ==
  ASSUME NEW s, HeapOK(s), NEW q \in QueueIds, NEW line \in LineKinds
  PROVE  Preserves(s, new_input_task(s, q, line))
<1>1. Preserves(s, enqueue_input_task(s, q, line, FALSE))
  BY EnqueueInputTask
<1>2. Preserves(s, dequeue_all_input(s, q))
  BY DequeueAllInput
<1> QED BY <1>1, <1>2 DEF new_input_task

-----------------------------------------------------------------------------
(* Background tasks *)

(* Changing the tasks of a queue, or only their number. *)
LEMMA SetBg ==
  ASSUME NEW s, HeapOK(s), NEW q \in QueueIds, NEW b \in Seq(Task), NEW n \in Int
  PROVE  /\ Preserves(s, [s EXCEPT !.tq[q].bg = b])
         /\ Preserves(s, [s EXCEPT !.tq[q].num_bg = n])
<1> DEFINE r1 == [s.tq[q] EXCEPT !.bg = b]
           r2 == [s.tq[q] EXCEPT !.num_bg = n]
<1>1. s.tq[q] \in TQueue
  BY DEF HeapOK, HeapType
<1>2. /\ r1 \in TQueue /\ r1.usage = s.tq[q].usage
      /\ r1.reading = s.tq[q].reading /\ r1.connected = s.tq[q].connected
      /\ r2 \in TQueue /\ r2.usage = s.tq[q].usage
      /\ r2.reading = s.tq[q].reading /\ r2.connected = s.tq[q].connected
  BY <1>1 DEF TQueue
<1>3. /\ [s EXCEPT !.tq[q].bg = b] = [s EXCEPT !.tq[q] = r1]
      /\ [s EXCEPT !.tq[q].num_bg = n] = [s EXCEPT !.tq[q] = r2]
  OBVIOUS
<1> HIDE DEF r1, r2
<1>4. /\ Preserves(s, [s EXCEPT !.tq[q] = r1])
      /\ Preserves(s, [s EXCEPT !.tq[q] = r2])
  BY <1>2, QuietQueue
<1> QED BY <1>3, <1>4

(* Changing the number alone. *)
LEMMA SetNumBg ==
  ASSUME NEW s, HeapOK(s), NEW q \in QueueIds, NEW n \in Int
  PROVE  Preserves(s, [s EXCEPT !.tq[q].num_bg = n])
<1>1. <<>> \in Seq(Task)
  OBVIOUS
<1> QED BY <1>1, SetBg

(* What a queue's fields are. *)
LEMMA QueueFields ==
  ASSUME NEW s, HeapOK(s), NEW q \in QueueIds
  PROVE  /\ s.tq[q].bg \in Seq(Task) /\ s.tq[q].num_bg \in Int
         /\ s.tq[q].player \in Int /\ s.tq[q].input \in Seq(LineKinds)
         /\ s.tq[q].usage \in Nat \cup {NO_USAGE}
         /\ s.tq[q].reading \in TaskIds \cup {NoTask}
<1>1. s.tq[q] \in TQueue
  BY DEF HeapOK, HeapType
<1> QED BY <1>1 DEF TQueue

(* enqueue_bg_task() *)
LEMMA EnqueueBgTask ==
  ASSUME NEW s, HeapOK(s), NEW q \in QueueIds, NEW t \in Task
  PROVE  Preserves(s, enqueue_bg_task(s, q, t))
<1> DEFINE b == Append(s.tq[q].bg, t)
<1>1. b \in Seq(Task)
  BY QueueFields
<1>2. enqueue_bg_task(s, q, t) = [s EXCEPT !.tq[q].bg = b]
  BY DEF enqueue_bg_task
<1> HIDE DEF b
<1>3. \A n \in Int : Preserves(s, [s EXCEPT !.tq[q].bg = b])
  BY <1>1, SetBg
<1> QED BY <1>2, <1>3

(* dequeue_bg_task() *)
LEMMA DequeueBgTask ==
  ASSUME NEW s, HeapOK(s), NEW q \in QueueIds, s.tq[q].bg # <<>>
  PROVE  Preserves(s, dequeue_bg_task(s, q))
<1> DEFINE b == Tail(s.tq[q].bg)
           n == s.tq[q].num_bg - 1
           r == [s.tq[q] EXCEPT !.bg = b, !.num_bg = n]
<1>1. s.tq[q] \in TQueue /\ b \in Seq(Task) /\ n \in Int
  BY QueueFields DEF HeapOK, HeapType
<1>2. dequeue_bg_task(s, q) = [s EXCEPT !.tq[q] = r]
  BY DEF dequeue_bg_task
<1> HIDE DEF b, n
<1>3. /\ r \in TQueue /\ r.usage = s.tq[q].usage
      /\ r.reading = s.tq[q].reading /\ r.connected = s.tq[q].connected
  BY <1>1 DEF TQueue
<1> HIDE DEF r
<1>4. Preserves(s, [s EXCEPT !.tq[q] = r])
  BY <1>3, QuietQueue
<1> QED BY <1>2, <1>4

(* The waiting list changes. *)
LEMMA SetWaiting ==
  ASSUME NEW s, HeapOK(s), NEW w \in Seq(Task)
  PROVE  Preserves(s, [s EXCEPT !.waiting = w])
<1> DEFINE t == [s EXCEPT !.waiting = w]
<1>1. /\ t \in HeapType /\ t.active = s.active /\ t.idle = s.idle
      /\ t.tq = s.tq /\ t.handles = s.handles
  BY DEF HeapOK, HeapType
<1> HIDE DEF t
<1>2. QueuesAgree(s, t) /\ HandlesAgree(s, t)
  BY <1>1 DEF QueuesAgree, HandlesAgree
<1>3. Preserves(s, t)
  BY <1>1, <1>2, QuietHeap
<1> QED BY <1>3 DEF t

(* enqueue_waiting() *)
LEMMA EnqueueWaiting ==
  ASSUME NEW s, HeapOK(s), NEW t \in Task, HasRoomFor(s, t.progr),
         NEW i \in WaitingPlaces(s, t)
  PROVE  Preserves(s, enqueue_waiting(s, t, i))
<1> DEFINE s1 == find_tqueue(s, t.progr)
           q == TQueueOf(s1, t.progr)
           n == s1.tq[q].num_bg + 1
           s2 == [s1 EXCEPT !.tq[q].num_bg = n]
           w == InsertAt(s.waiting, i, t)
<1>1. t.progr \in Int
  BY DEF Task
<1>2. Preserves(s, s1) /\ q \in QueueIds /\ s1.waiting = s.waiting
  BY <1>1, FindTQueue
<1>3. HeapOK(s1)
  BY <1>2 DEF Preserves
<1>4. n \in Int
  <2> HIDE DEF s1, q
  <2> QED BY <1>2, <1>3, QueueFields
<1>5. w \in Seq(Task)
  <2>1. s.waiting \in Seq(Task) BY DEF HeapOK, HeapType
  <2>2. i \in 1 .. Len(s.waiting) + 1 BY <2>1 DEF WaitingPlaces
  <2> QED BY <2>1, <2>2, InsertAtType
<1>6. enqueue_waiting(s, t, i) = [s2 EXCEPT !.waiting = w]
  <2>1. enqueue_waiting(s, t, i)
          = [s1 EXCEPT !.tq[q].num_bg = @ + 1, !.waiting = InsertAt(@, i, t)]
    BY DEF enqueue_waiting
  <2> HIDE DEF s1, q
  <2> QED BY <1>2, <2>1
<1> HIDE DEF s1, q, n, w
<1>7. Preserves(s1, s2)
  BY <1>2, <1>3, <1>4, SetNumBg
<1> HIDE DEF s2
<1>8. Preserves(s2, [s2 EXCEPT !.waiting = w])
  BY <1>5, <1>7, SetWaiting DEF Preserves
<1> QED BY <1>2, <1>6, <1>7, <1>8, PreservesChain

(* make_ready() *)
LEMMA MakeReady ==
  ASSUME NEW s, HeapOK(s), NEW i \in DOMAIN s.waiting,
         HasRoomFor(s, s.waiting[i].progr)
  PROVE  Preserves(s, make_ready(s, i, s.waiting[i]))
<1> DEFINE t == s.waiting[i]
           w == RemoveAt(s.waiting, i)
           s0 == [s EXCEPT !.waiting = w]
           s1 == find_tqueue(s0, t.progr)
           q == TQueueOf(s1, t.progr)
           s2 == ensure_usage(s1, q)
<1>1. t \in Task /\ t.progr \in Int
  <2>1. s.waiting \in Seq(Task) BY DEF HeapOK, HeapType
  <2>2. t \in Task BY <2>1
  <2> QED BY <2>2 DEF Task
<1>2. w \in Seq(Task)
  <2>1. s.waiting \in Seq(Task) BY DEF HeapOK, HeapType
  <2> QED BY <2>1, RemoveAtType
<1>3. make_ready(s, i, t) = enqueue_bg_task(s2, q, t)
  BY DEF make_ready
<1> HIDE DEF w
<1>4. Preserves(s, s0)
  BY <1>2, SetWaiting
<1>5. HasRoomFor(s0, t.progr)
  <2>1. s0.tq = s.tq /\ s0.active = s.active /\ s0.idle = s.idle
    BY DEF HeapOK, HeapType
  <2> HIDE DEF s0
  <2>2. Live(s0) = Live(s)
    BY <2>1 DEF Live
  <2> QED BY <2>1, <2>2 DEF HasRoomFor, HasTQueue
<1> HIDE DEF s0, t
<1>6. Preserves(s0, s1) /\ q \in QueueIds
  BY <1>1, <1>4, <1>5, FindTQueue DEF Preserves
<1> HIDE DEF s1, q
<1>7. Preserves(s1, s2)
  BY <1>6, EnsureUsage DEF Preserves
<1> HIDE DEF s2
<1>8. Preserves(s2, enqueue_bg_task(s2, q, t))
  BY <1>1, <1>6, <1>7, EnqueueBgTask DEF Preserves
<1>9. Preserves(s, s2)
  BY <1>4, <1>6, <1>7, PreservesChain
<1> QED BY <1>3, <1>8, <1>9, PreservesChain DEF t

-----------------------------------------------------------------------------
(* Connections *)

(* Changing whether a queue is connected may strand its own reader only. *)
LEMMA SetConnected ==
  ASSUME NEW s, HeapOK(s), NEW q \in QueueIds, NEW b \in BOOLEAN
  PROVE  LET t == [s EXCEPT !.tq[q].connected = b]
         IN /\ HeapOK(t) /\ SameHead(s, t) /\ StayOpen(s, t)
            /\ \A k \in QueueIds \ {q} : SafeReader(s, k) => SafeReader(t, k)
            /\ b => SafeReader(t, q)
            /\ t.handles = s.handles /\ t.waiting = s.waiting
<1> DEFINE r == [s.tq[q] EXCEPT !.connected = b]
           t == [s EXCEPT !.tq[q].connected = b]
<1>1. s.tq[q] \in TQueue
  BY DEF HeapOK, HeapType
<1>2. /\ r \in TQueue /\ r.usage = s.tq[q].usage
      /\ r.reading = s.tq[q].reading /\ r.connected = b
  BY <1>1 DEF TQueue
<1>3. t = [s EXCEPT !.tq[q] = r]
  OBVIOUS
<1> HIDE DEF r, t
<1>4. /\ t \in HeapType /\ t.active = s.active /\ t.idle = s.idle
      /\ t.handles = s.handles /\ t.tq = [s.tq EXCEPT ![q] = r]
      /\ t.waiting = s.waiting
  BY <1>2, <1>3 DEF HeapOK, HeapType
<1>5. \A k \in QueueIds : t.tq[k] = IF k = q THEN r ELSE s.tq[k]
  BY <1>4 DEF HeapOK, HeapType
<1>6. /\ \A i \in DOMAIN s.active : s.active[i] \in QueueIds
      /\ \A k \in s.idle : k \in QueueIds
  BY DEF HeapOK, HeapType
<1>7. \A k \in QueueIds : t.tq[k].usage = s.tq[k].usage
  BY <1>2, <1>5
<1>8. HeapOK(t)
  BY <1>4, <1>6, <1>7 DEF HeapOK
<1>9. /\ \A k \in QueueIds \ {q} : SafeReader(s, k) => SafeReader(t, k)
      /\ b => SafeReader(t, q)
  BY <1>2, <1>5 DEF SafeReader
<1> QED BY <1>4, <1>8, <1>9 DEF SameHead, StayOpen, t

(* free_task_queue(): a reader keeps its queue active. *)
LEMMA FreeTaskQueue ==
  ASSUME NEW s, HeapOK(s), NEW q \in QueueIds
  PROVE  Preserves(s, free_task_queue(s, q))
<1> DEFINE s1 == [s EXCEPT !.tq[q].connected = FALSE]
           t == free_task_queue(s, q)
<1>1. t = IF s1.tq[q].reading # NoTask THEN ensure_usage(s1, q) ELSE s1
  BY DEF free_task_queue
<1>2. /\ HeapOK(s1) /\ SameHead(s, s1) /\ StayOpen(s, s1)
      /\ \A k \in QueueIds \ {q} : SafeReader(s, k) => SafeReader(s1, k)
  BY SetConnected
<1> HIDE DEF s1, t
<1>3. Preserves(s1, t) /\ SafeReader(t, q)
  <2>1. CASE s1.tq[q].reading # NoTask
    BY <1>1, <1>2, <2>1, EnsureUsage DEF SafeReader
  <2>2. CASE s1.tq[q].reading = NoTask
    BY <1>1, <1>2, <2>2, PreservesItself DEF SafeReader
  <2> QED BY <2>1, <2>2
<1>4. ReadersStaySafe(s, t)
  BY <1>2, <1>3 DEF Preserves, ReadersStaySafe
<1> QED BY <1>2, <1>3, <1>4 DEF Preserves, SameHead, StayOpen, t

(* The handle of a closed connection is well typed. *)
LEMMA ClosedHandleType ==
  ASSUME NEW h \in Int
  PROVE  ClosedHandle(h) \in Handle /\ ~ClosedHandle(h).open
  BY ConstantsAssumption DEF ClosedHandle, Handle

(* Connection numbers are integers. *)
LEMMA ConnIdsType == ConnIds \subseteq Int
  BY ConstantsAssumption DEF ConnIds

(* free_shandle() closes its own connection, and does the rest as it should. *)
LEMMA FreeShandle ==
  ASSUME NEW s, HeapOK(s), NEW h \in ConnIds, s.handles[h].open
  PROVE  LET t == free_shandle(s, h)
         IN /\ HeapOK(t) /\ SameHead(s, t) /\ ReadersStaySafe(s, t)
            /\ \A k \in ConnIds \ {h} : s.handles[k].open => t.handles[k].open
<1> DEFINE g == ClosedHandle(h)
           q == s.handles[h].queue
           s1 == [s EXCEPT !.handles[h] = g]
           t == free_task_queue(s1, q)
<1>1. free_shandle(s, h) = t
  BY DEF free_shandle
<1>2. q \in QueueIds
  BY DEF HeapOK
<1>3. g \in Handle /\ ~g.open
  BY ConnIdsType, ClosedHandleType
<1> HIDE DEF g, q
<1>4. /\ HeapOK(s1) /\ SameHead(s, s1) /\ s1.tq = s.tq
      /\ s1.handles = [s.handles EXCEPT ![h] = g]
  BY <1>3, SetHandle
<1> HIDE DEF s1
<1>5. Preserves(s1, t)
  BY <1>2, <1>4, FreeTaskQueue
<1>6. \A k \in ConnIds \ {h} : s1.handles[k] = s.handles[k]
  BY <1>4 DEF HeapOK, HeapType
<1>7. ReadersStaySafe(s, s1)
  BY <1>4 DEF ReadersStaySafe, SafeReader
<1> HIDE DEF t
<1> QED BY <1>1, <1>4, <1>5, <1>6, <1>7
        DEF Preserves, SameHead, StayOpen, ReadersStaySafe

(* server_new_connection() *)
LEMMA ServerNewConnection ==
  ASSUME NEW s, HeapOK(s), NEW h \in ConnIds, HasRoomFor(s, h),
         NEW l \in Listeners, NEW outbound \in BOOLEAN, NEW greet \in BOOLEAN
  PROVE  Preserves(s, server_new_connection(s, h, l, outbound, greet))
<1> DEFINE s1 == find_tqueue(s, h)
           q == TQueueOf(s1, h)
           sc == [s1 EXCEPT !.tq[q].connected = TRUE]
           g == [open |-> TRUE, player |-> h, queue |-> q, listener |-> l,
                 logged |-> FALSE, disconnect_me |-> FALSE,
                 outbound |-> outbound, paused |-> FALSE]
           s2 == [sc EXCEPT !.handles[h] = g]
           s3 == enqueue_input_task(s2, q, "blank", FALSE)
           t == server_new_connection(s, h, l, outbound, greet)
<1>1. t = IF greet THEN task_suspend_input(s3, q) ELSE s2
  BY DEF server_new_connection
<1>2. h \in Int
  BY ConnIdsType
<1>3. Preserves(s, s1) /\ q \in QueueIds
  BY <1>2, FindTQueue
<1>4. g \in Handle /\ g.open /\ g.queue = q
  BY <1>2, <1>3 DEF Handle
<1> HIDE DEF s1, q, g
<1>5. /\ HeapOK(sc) /\ SameHead(s1, sc) /\ StayOpen(s1, sc)
      /\ \A k \in QueueIds \ {q} : SafeReader(s1, k) => SafeReader(sc, k)
      /\ SafeReader(sc, q)
  BY <1>3, SetConnected DEF Preserves
<1>6. Preserves(s1, sc)
  BY <1>5 DEF Preserves, ReadersStaySafe
<1> HIDE DEF sc
<1>7. HeapOK(s2) /\ SameHead(sc, s2) /\ StayOpen(sc, s2) /\ s2.tq = sc.tq
  BY <1>3, <1>4, <1>5, SetHandle
<1>8. Preserves(sc, s2)
  BY <1>7 DEF Preserves, ReadersStaySafe, SafeReader
<1> HIDE DEF s2, t
<1>9. Preserves(s2, s3)
  BY <1>3, <1>7, EnqueueInputTask DEF LineKinds
<1> HIDE DEF s3
<1>10. Preserves(s3, task_suspend_input(s3, q))
  BY <1>3, <1>9, SuspendInput DEF Preserves
<1>11. Preserves(s, s2)
  BY <1>3, <1>6, <1>8, PreservesChain
<1>12. Preserves(s, task_suspend_input(s3, q))
  BY <1>9, <1>10, <1>11, PreservesChain
<1> QED BY <1>1, <1>11, <1>12 DEF t

(* deactivate_tqueue() of the first queue, once it is off the active list and
   its reader, if any, is on a connection. *)
LEMMA DeactivateFirst ==
  ASSUME NEW s, HeapOK(s), s.active # <<>>,
         s.tq[s.active[1]].reading # NoTask => s.tq[s.active[1]].connected
  PROVE  LET t == deactivate_tqueue([s EXCEPT !.active = Tail(@)], s.active[1])
         IN HeapOK(t) /\ StayOpen(s, t) /\ ReadersStaySafe(s, t)
<1> DEFINE q == s.active[1]
           r == [s.tq[q] EXCEPT !.usage = NO_USAGE]
           t == deactivate_tqueue([s EXCEPT !.active = Tail(@)], q)
<1>1. /\ s.active \in Seq(QueueIds)
      /\ q \in QueueIds /\ 1 \in DOMAIN s.active
      /\ Tail(s.active) \in Seq(QueueIds)
      /\ DOMAIN Tail(s.active) = 1 .. Len(s.active) - 1
      /\ \A i \in DOMAIN Tail(s.active) :
           i + 1 \in DOMAIN s.active /\ Tail(s.active)[i] = s.active[i + 1]
  BY DEF HeapOK, HeapType
<1>2. s.tq[q] \in TQueue
  BY <1>1 DEF HeapOK, HeapType
<1>3. /\ r \in TQueue /\ r.usage = NO_USAGE /\ r.reading = s.tq[q].reading
      /\ r.connected = s.tq[q].connected
  BY <1>2 DEF TQueue
<1>4. t = [s EXCEPT !.tq[q] = r, !.active = Tail(s.active), !.idle = s.idle \cup {q}]
  BY DEF deactivate_tqueue
<1>5. s.tq[q].reading # NoTask => s.tq[q].connected
  OBVIOUS
<1> HIDE DEF r, t, q
<1>6. /\ t \in HeapType /\ t.tq = [s.tq EXCEPT ![q] = r]
      /\ t.active = Tail(s.active) /\ t.idle = s.idle \cup {q}
      /\ t.handles = s.handles
  BY <1>1, <1>3, <1>4 DEF HeapOK, HeapType
<1>7. \A k \in QueueIds : t.tq[k] = IF k = q THEN r ELSE s.tq[k]
  BY <1>6 DEF HeapOK, HeapType
<1>8. \A i \in DOMAIN t.active :
        /\ t.active[i] \in QueueIds /\ t.active[i] # q
        /\ i + 1 \in DOMAIN s.active /\ t.active[i] = s.active[i + 1]
  <2>1. \A i \in DOMAIN s.active : s.active[i] \in QueueIds
    BY <1>1
  <2>2. \A i \in DOMAIN s.active : 1 < i => s.active[1] # s.active[i]
    BY <1>1 DEF HeapOK
  <2>3. \A i \in DOMAIN t.active : 1 < i + 1
    BY <1>1, <1>6
  <2> QED BY <1>1, <1>6, <2>1, <2>2, <2>3 DEF q
<1>9. HeapOK(t)
  <2>1. \A i \in DOMAIN t.active :
          t.active[i] \notin t.idle /\ t.tq[t.active[i]].usage # NO_USAGE
    BY <1>6, <1>7, <1>8 DEF HeapOK
  <2>2. \A i, j \in DOMAIN t.active :
          i < j => /\ t.active[i] # t.active[j]
                   /\ t.tq[t.active[i]].usage <= t.tq[t.active[j]].usage
    <3>1. \A i, j \in DOMAIN t.active : i < j => i + 1 < j + 1
      BY <1>1, <1>6
    <3> QED BY <1>7, <1>8, <3>1 DEF HeapOK
  <2>3. \A k \in t.idle : t.tq[k].usage = NO_USAGE
    <3>1. \A k \in s.idle : k \in QueueIds
      BY DEF HeapOK, HeapType
    <3> QED BY <1>1, <1>3, <1>6, <1>7, <3>1 DEF HeapOK
  <2> QED BY <1>6, <2>1, <2>2, <2>3 DEF HeapOK
<1>10. StayOpen(s, t)
  BY <1>6 DEF StayOpen
<1>11. ReadersStaySafe(s, t)
  BY <1>3, <1>5, <1>7 DEF ReadersStaySafe, SafeReader
<1> QED BY <1>9, <1>10, <1>11 DEF t, q

(* The tail of run_ready_tasks() frees no queue with a safe reader. *)
LEMMA FreeIdleTQueues ==
  ASSUME NEW s, HeapOK(s)
  PROVE  Preserves(s, free_idle_tqueues(s))
<1> DEFINE dead == {q \in s.idle : ~s.tq[q].connected /\ s.tq[q].input = <<>>
                                   /\ s.tq[q].num_bg = 0}
           f == [q \in QueueIds |-> IF q \in dead THEN FreshQueue(NOTHING) ELSE s.tq[q]]
           t == free_idle_tqueues(s)
<1>1. t = [s EXCEPT !.idle = s.idle \ dead, !.tq = f]
  BY DEF free_idle_tqueues
<1>2. f \in [QueueIds -> TQueue]
  <2>1. FreshQueue(NOTHING) \in TQueue
    BY FreshQueueType DEF NOTHING
  <2> QED BY <2>1 DEF HeapOK, HeapType
<1>3. \A q \in QueueIds : \/ f[q] = s.tq[q]
                         \/ /\ q \in dead /\ f[q].usage = NO_USAGE
                            /\ f[q].reading = NoTask
  BY DEF FreshQueue
<1>4. dead \subseteq s.idle
  OBVIOUS
<1> HIDE DEF dead, f, t
<1>5. /\ t \in HeapType /\ t.tq = f /\ t.active = s.active
      /\ t.idle = s.idle \ dead /\ t.handles = s.handles
  BY <1>1, <1>2 DEF HeapOK, HeapType
<1>6. \A i \in DOMAIN s.active :
        s.active[i] \in QueueIds /\ f[s.active[i]] = s.tq[s.active[i]]
  <2>1. \A i \in DOMAIN s.active : s.active[i] \in QueueIds
    BY DEF HeapOK, HeapType
  <2> QED BY <1>3, <1>4, <2>1 DEF HeapOK
<1>7. \A k \in t.idle : k \in QueueIds /\ k \in s.idle
  BY <1>5 DEF HeapType
<1>8. HeapOK(t)
  BY <1>3, <1>5, <1>6, <1>7 DEF HeapOK
<1>9. ReadersStaySafe(s, t)
  BY <1>3, <1>5 DEF ReadersStaySafe, SafeReader
<1> QED BY <1>5, <1>8, <1>9 DEF Preserves, SameHead, StayOpen, t

(* Replacing a handle by one that is as open, on the same queue. *)
LEMMA QuietHandle ==
  ASSUME NEW s, HeapOK(s), NEW h \in ConnIds, NEW g \in Handle,
         g.open = s.handles[h].open, g.queue = s.handles[h].queue
  PROVE  Preserves(s, [s EXCEPT !.handles[h] = g])
<1> DEFINE t == [s EXCEPT !.handles[h] = g]
<1>1. g.open => g.queue \in QueueIds
  BY DEF HeapOK
<1>2. HeapOK(t) /\ SameHead(s, t) /\ StayOpen(s, t) /\ t.tq = s.tq
  BY <1>1, SetHandle
<1> HIDE DEF t
<1> QED BY <1>2 DEF Preserves, ReadersStaySafe, SafeReader, t

(* Marking a connection, or taking the mark back. *)
LEMMA MarkHandle ==
  ASSUME NEW s, HeapOK(s), NEW h \in ConnIds, NEW b \in BOOLEAN
  PROVE  Preserves(s, [s EXCEPT !.handles[h].disconnect_me = b])
<1> DEFINE g == [s.handles[h] EXCEPT !.disconnect_me = b]
<1>1. s.handles[h] \in Handle
  BY DEF HeapOK, HeapType
<1>2. g \in Handle /\ g.open = s.handles[h].open /\ g.queue = s.handles[h].queue
  BY <1>1 DEF Handle
<1>3. [s EXCEPT !.handles[h].disconnect_me = b] = [s EXCEPT !.handles[h] = g]
  OBVIOUS
<1> HIDE DEF g
<1> QED BY <1>2, <1>3, QuietHandle

(* Giving a queue a reader may strand that one only. *)
LEMMA SetReading ==
  ASSUME NEW s, HeapOK(s), NEW q \in QueueIds, NEW id \in TaskIds \cup {NoTask}
  PROVE  LET t == [s EXCEPT !.tq[q].reading = id]
         IN /\ HeapOK(t) /\ SameHead(s, t) /\ StayOpen(s, t)
            /\ \A k \in QueueIds \ {q} : SafeReader(s, k) => SafeReader(t, k)
            /\ (id = NoTask \/ s.tq[q].connected) => SafeReader(t, q)
<1> DEFINE r == [s.tq[q] EXCEPT !.reading = id]
           t == [s EXCEPT !.tq[q].reading = id]
<1>1. s.tq[q] \in TQueue
  BY DEF HeapOK, HeapType
<1>2. /\ r \in TQueue /\ r.usage = s.tq[q].usage
      /\ r.reading = id /\ r.connected = s.tq[q].connected
  BY <1>1 DEF TQueue
<1>3. t = [s EXCEPT !.tq[q] = r]
  OBVIOUS
<1> HIDE DEF r, t
<1>4. /\ t \in HeapType /\ t.active = s.active /\ t.idle = s.idle
      /\ t.handles = s.handles /\ t.tq = [s.tq EXCEPT ![q] = r]
  BY <1>2, <1>3 DEF HeapOK, HeapType
<1>5. \A k \in QueueIds : t.tq[k] = IF k = q THEN r ELSE s.tq[k]
  BY <1>4 DEF HeapOK, HeapType
<1>6. /\ \A i \in DOMAIN s.active : s.active[i] \in QueueIds
      /\ \A k \in s.idle : k \in QueueIds
  BY DEF HeapOK, HeapType
<1>7. \A k \in QueueIds : t.tq[k].usage = s.tq[k].usage
  BY <1>2, <1>5
<1>8. HeapOK(t)
  BY <1>4, <1>6, <1>7 DEF HeapOK
<1>9. /\ \A k \in QueueIds \ {q} : SafeReader(s, k) => SafeReader(t, k)
      /\ (id = NoTask \/ s.tq[q].connected) => SafeReader(t, q)
  BY <1>2, <1>5 DEF SafeReader
<1> QED BY <1>4, <1>8, <1>9 DEF SameHead, StayOpen, t

(* The reader is resumed or killed. *)
LEMMA NoMoreReading ==
  ASSUME NEW s, HeapOK(s), NEW q \in QueueIds
  PROVE  Preserves(s, [s EXCEPT !.tq[q].reading = NoTask])
<1> DEFINE t == [s EXCEPT !.tq[q].reading = NoTask]
<1>1. /\ HeapOK(t) /\ SameHead(s, t) /\ StayOpen(s, t)
      /\ \A k \in QueueIds \ {q} : SafeReader(s, k) => SafeReader(t, k)
      /\ SafeReader(t, q)
  BY SetReading
<1> HIDE DEF t
<1> QED BY <1>1 DEF Preserves, ReadersStaySafe, t

(* The connection options hold-input and disable-oob. *)
LEMMA SetOption ==
  ASSUME NEW s, HeapOK(s), NEW q \in QueueIds, NEW b \in BOOLEAN
  PROVE  /\ Preserves(s, [s EXCEPT !.tq[q].hold = b])
         /\ Preserves(s, [s EXCEPT !.tq[q].no_oob = b])
<1> DEFINE r1 == [s.tq[q] EXCEPT !.hold = b]
           r2 == [s.tq[q] EXCEPT !.no_oob = b]
<1>1. s.tq[q] \in TQueue
  BY DEF HeapOK, HeapType
<1>2. /\ r1 \in TQueue /\ r1.usage = s.tq[q].usage
      /\ r1.reading = s.tq[q].reading /\ r1.connected = s.tq[q].connected
      /\ r2 \in TQueue /\ r2.usage = s.tq[q].usage
      /\ r2.reading = s.tq[q].reading /\ r2.connected = s.tq[q].connected
  BY <1>1 DEF TQueue
<1>3. /\ [s EXCEPT !.tq[q].hold = b] = [s EXCEPT !.tq[q] = r1]
      /\ [s EXCEPT !.tq[q].no_oob = b] = [s EXCEPT !.tq[q] = r2]
  OBVIOUS
<1> HIDE DEF r1, r2
<1>4. /\ Preserves(s, [s EXCEPT !.tq[q] = r1])
      /\ Preserves(s, [s EXCEPT !.tq[q] = r2])
  BY <1>2, QuietQueue
<1> QED BY <1>3, <1>4

-----------------------------------------------------------------------------
(* Logging in *)

(* A queue is given to another player. *)
LEMMA SetPlayer ==
  ASSUME NEW s, HeapOK(s), NEW q \in QueueIds, NEW p \in Int
  PROVE  /\ Preserves(s, [s EXCEPT !.tq[q].player = p])
         /\ Live([s EXCEPT !.tq[q].player = p]) = Live(s)
<1> DEFINE r == [s.tq[q] EXCEPT !.player = p]
<1>1. s.tq[q] \in TQueue
  BY DEF HeapOK, HeapType
<1>2. /\ r \in TQueue /\ r.usage = s.tq[q].usage
      /\ r.reading = s.tq[q].reading /\ r.connected = s.tq[q].connected
  BY <1>1 DEF TQueue
<1>3. [s EXCEPT !.tq[q].player = p] = [s EXCEPT !.tq[q] = r]
  OBVIOUS
<1> HIDE DEF r
<1>4. Preserves(s, [s EXCEPT !.tq[q] = r])
  BY <1>2, QuietQueue
<1>5. Live([s EXCEPT !.tq[q] = r]) = Live(s)
  BY DEF Live, HeapOK, HeapType
<1> QED BY <1>3, <1>4, <1>5

(* The connection's own tasks move to another queue. *)
LEMMA LeaveOwnTasks ==
  ASSUME NEW s, HeapOK(s), NEW q \in QueueIds, NEW old \in Int,
         s.tq[q].num_bg = 0 \/ HasRoomFor(s, old)
  PROVE  Preserves(s, leave_own_tasks(s, q, old))
<1>1. CASE s.tq[q].num_bg = 0
  BY <1>1, PreservesItself DEF leave_own_tasks
<1>2. CASE s.tq[q].num_bg # 0
  <2> DEFINE s1 == find_tqueue(s, old)
             o == TQueueOf(s1, old)
             n == s.tq[q].num_bg
             c == s.tq[q].bg
             s2 == [s1 EXCEPT !.tq[o].num_bg = n]
             s3 == [s2 EXCEPT !.tq[o].bg = s2.tq[o].bg \o c]
             s4 == [s3 EXCEPT !.tq[q].bg = <<>>]
             s5 == [s4 EXCEPT !.tq[q].num_bg = 0]
  <2>1. Preserves(s, s1) /\ o \in QueueIds
    BY <1>2, FindTQueue
  <2>2. leave_own_tasks(s, q, old)
          = [s1 EXCEPT !.tq[o].num_bg = s.tq[q].num_bg,
                       !.tq[o].bg = @ \o s.tq[q].bg,
                       !.tq[q].bg = <<>>, !.tq[q].num_bg = 0]
    BY <1>2 DEF leave_own_tasks
  <2>3. n \in Int /\ c \in Seq(Task)
    BY QueueFields
  <2> HIDE DEF s1, o, n, c
  <2>4. leave_own_tasks(s, q, old) = s5
    <3>1. s1.tq \in [QueueIds -> TQueue] /\ s1.tq[o] \in TQueue /\ s1 \in HeapType
      BY <2>1 DEF Preserves, HeapOK, HeapType
    <3>2. s2.tq[o].bg = s1.tq[o].bg
      BY <2>1, <3>1 DEF TQueue, HeapType
    <3>3. leave_own_tasks(s, q, old)
            = [s1 EXCEPT !.tq[o].num_bg = n, !.tq[o].bg = s1.tq[o].bg \o c,
                         !.tq[q].bg = <<>>, !.tq[q].num_bg = 0]
      BY <2>1, <2>2, <3>1 DEF n, c, TQueue, HeapType
    <3>4. s3 = [s1 EXCEPT !.tq[o].num_bg = n, !.tq[o].bg = s1.tq[o].bg \o c]
      BY <3>2
    <3>5. s5 = [s3 EXCEPT !.tq[q].bg = <<>>, !.tq[q].num_bg = 0]
      OBVIOUS
    <3> QED BY <3>3, <3>4, <3>5
  <2>5. Preserves(s1, s2)
    BY <2>1, <2>3, SetBg DEF Preserves
  <2> HIDE DEF s2
  <2>6. s2.tq[o].bg \o c \in Seq(Task)
    BY <2>1, <2>3, <2>5, QueueFields DEF Preserves
  <2>7. Preserves(s2, s3)
    BY <2>1, <2>5, <2>6, SetBg DEF Preserves
  <2> HIDE DEF s3
  <2>8. <<>> \in Seq(Task) /\ 0 \in Int
    OBVIOUS
  <2>9. Preserves(s3, s4)
    BY <2>7, <2>8, SetBg DEF Preserves
  <2> HIDE DEF s4
  <2>10. Preserves(s4, s5)
    BY <2>8, <2>9, SetBg DEF Preserves
  <2> HIDE DEF s5
  <2>11. Preserves(s, s3)
    BY <2>1, <2>5, <2>7, PreservesChain
  <2>12. Preserves(s, s5)
    BY <2>9, <2>10, <2>11, PreservesChain
  <2> QED BY <2>4, <2>12
<1> QED BY <1>1, <1>2

(* The player's old queue is emptied into the connection's. *)
LEMMA MergeDeadTQueue ==
  ASSUME NEW s, HeapOK(s), NEW q \in QueueIds, NEW dead \in QueueIds
  PROVE  Preserves(s, merge_dead_tqueue(s, q, dead))
<1> DEFINE n == s.tq[dead].num_bg
           s0 == [s EXCEPT !.tq[q].num_bg = n]
           s1 == dequeue_all_input(s0, dead)
           s2 == [s1 EXCEPT !.tq[q].bg = s1.tq[q].bg \o s1.tq[dead].bg]
           s3 == [s2 EXCEPT !.tq[dead].bg = <<>>]
           s4 == [s3 EXCEPT !.tq[dead].player = NOTHING]
           s5 == [s4 EXCEPT !.tq[dead].num_bg = 0]
<1>1. n \in Int /\ <<>> \in Seq(Task) /\ 0 \in Int /\ NOTHING \in Int
  BY QueueFields DEF NOTHING
<1>2. merge_dead_tqueue(s, q, dead)
        = [s1 EXCEPT !.tq[q].bg = @ \o s1.tq[dead].bg, !.tq[dead].bg = <<>>,
                     !.tq[dead].player = NOTHING, !.tq[dead].num_bg = 0]
  BY DEF merge_dead_tqueue
<1> HIDE DEF n
<1>3. Preserves(s, s0)
  BY <1>1, SetBg
<1> HIDE DEF s0
<1>4. Preserves(s0, s1)
  BY <1>3, DequeueAllInput DEF Preserves
<1> HIDE DEF s1
<1>5. merge_dead_tqueue(s, q, dead) = s5
  BY <1>2
<1>6. s1.tq[q].bg \o s1.tq[dead].bg \in Seq(Task)
  BY <1>4, QueueFields DEF Preserves
<1>7. Preserves(s1, s2)
  BY <1>1, <1>4, <1>6, SetBg DEF Preserves
<1> HIDE DEF s2
<1>8. Preserves(s2, s3)
  BY <1>1, <1>7, SetBg DEF Preserves
<1> HIDE DEF s3
<1>9. Preserves(s3, s4)
  BY <1>1, <1>8, SetPlayer DEF Preserves
<1> HIDE DEF s4
<1>10. Preserves(s4, s5)
  BY <1>1, <1>9, SetBg DEF Preserves
<1> HIDE DEF s5
<1>11. Preserves(s, s1)
  BY <1>3, <1>4, PreservesChain
<1>12. Preserves(s1, s4)
  BY <1>7, <1>8, <1>9, PreservesChain
<1>13. Preserves(s1, s5)
  BY <1>10, <1>12, PreservesChain
<1> QED BY <1>5, <1>11, <1>13, PreservesChain

(* player_connected() may close the connection that the player has. *)
LEMMA PlayerConnected ==
  ASSUME NEW s, HeapOK(s), NEW h \in ConnIds, NEW p \in Int
  PROVE  LET t == player_connected(s, h, p)
         IN HeapOK(t) /\ SameHead(s, t) /\ ReadersStaySafe(s, t)
<1> DEFINE g == [s.handles[h] EXCEPT !.player = p, !.logged = TRUE]
           s1 == [s EXCEPT !.handles[h].player = p, !.handles[h].logged = TRUE]
           k == find_shandle(s, p)
           t == player_connected(s, h, p)
<1>1. t = IF HasHandle(s, p) THEN free_shandle(s1, k) ELSE s1
  BY DEF player_connected
<1>2. s.handles[h] \in Handle
  BY DEF HeapOK, HeapType
<1>3. g \in Handle /\ g.open = s.handles[h].open /\ g.queue = s.handles[h].queue
  BY <1>2 DEF Handle
<1>4. s1 = [s EXCEPT !.handles[h] = g]
  BY <1>2 DEF HeapOK, HeapType
<1> HIDE DEF g, s1, t
<1>5. Preserves(s, s1)
  BY <1>3, <1>4, QuietHandle
<1>6. CASE HasHandle(s, p)
  <2>1. k \in ConnIds /\ s.handles[k].open
    BY <1>6, FindShandleOpen
  <2> HIDE DEF k
  <2>2. s1.handles[k].open
    BY <1>5, <2>1 DEF Preserves, StayOpen
  <2> DEFINE u == free_shandle(s1, k)
  <2>3. HeapOK(u) /\ SameHead(s1, u) /\ ReadersStaySafe(s1, u)
    BY <1>5, <2>1, <2>2, FreeShandle DEF Preserves
  <2> HIDE DEF u
  <2>4. HeapOK(u) /\ SameHead(s, u) /\ ReadersStaySafe(s, u)
    BY <1>5, <2>3 DEF Preserves, SameHead, ReadersStaySafe
  <2> QED BY <1>1, <1>6, <2>4 DEF t, u
<1>7. CASE ~HasHandle(s, p)
  BY <1>1, <1>5, <1>7 DEF Preserves, t
<1> QED BY <1>6, <1>7

-----------------------------------------------------------------------------
(* The inductive invariant *)

CpuOK ==
  /\ cpu \in CPU
  /\ DispatchedHere => active # <<>> /\ active[1] = cpu.q
  /\ cpu.at = "notify" => /\ cpu.then # "none"
                          /\ cpu.then # "io" => cpu.h \in ConnIds
                          /\ cpu.then \in {"close", "reap"} => handles[cpu.h].open
                          /\ cpu.h \notin cpu.todo
  /\ \A h \in cpu.todo : handles[h].open
  /\ cpu.todo # {} => cpu.at = "reap" \/ (cpu.at = "notify" /\ cpu.then = "reap")

IInv ==
  /\ HeapOK(Heap)
  /\ \A q \in QueueIds : SafeReader(Heap, q)
  /\ CpuOK
  /\ nextConn \in Int /\ nextConn < NOTHING
  /\ valid \subseteq Players

(* A heap of the type is the record of its fields. *)
LEMMA HeapRecord ==
  ASSUME NEW s \in HeapType
  PROVE  s = [tq |-> s.tq, active |-> s.active, idle |-> s.idle,
              waiting |-> s.waiting, handles |-> s.handles, panic |-> s.panic]
  BY DEF HeapType

(* The fields of the heap are the variables. *)
LEMMA HeapFields ==
  /\ Heap.tq = tq /\ Heap.active = active /\ Heap.idle = idle
  /\ Heap.waiting = waiting /\ Heap.handles = handles /\ Heap.panic = panic
  BY DEF Heap

(* The initial state. *)
LEMMA InitIInv == Init => IInv
<1> SUFFICES ASSUME Init PROVE IInv
  OBVIOUS
<1>1. HeapOK(Heap)
  <2>1. FreshQueue(NOTHING) \in TQueue
    BY FreshQueueType DEF NOTHING
  <2>2. tq \in [QueueIds -> TQueue]
    BY <2>1 DEF Init
  <2>3. /\ handles \in [ConnIds -> Handle]
        /\ \A h \in ConnIds : ~handles[h].open
    BY ConnIdsType, ClosedHandleType DEF Init
  <2>4. active = <<>> /\ idle = {} /\ waiting = <<>> /\ panic = FALSE
    BY DEF Init
  <2>5. Heap \in HeapType
    <3>1. <<>> \in Seq(QueueIds) /\ <<>> \in Seq(Task)
      OBVIOUS
    <3> QED BY <2>2, <2>3, <2>4, <3>1 DEF Heap, HeapType
  <2> QED BY <2>3, <2>4, <2>5, HeapFields DEF HeapOK
<1>2. \A q \in QueueIds : SafeReader(Heap, q)
  BY DEF Init, SafeReader, FreshQueue, Heap
<1>3. CpuOK
  <2>1. 0 \notin ConnIds
    BY ConstantsAssumption DEF ConnIds
  <2> QED BY <2>1 DEF Init, CpuOK, Idle, ServerVerb, CPU, DispatchedHere, Phases,
                      Continuations
<1> QED BY <1>1, <1>2, <1>3 DEF Init, IInv, NOTHING

(* What an action makes of the heap. *)
LEMMA HeapBecomesThat ==
  ASSUME NEW STATE s, HeapOK(s), HeapBecomes(s)
  PROVE  Heap' = s
  BY HeapRecord DEF HeapOK, HeapBecomes, Heap

(* A step that preserves the heap, while the thread stays where it is. *)
LEMMA SameCpu ==
  ASSUME IInv, Preserves(Heap, Heap'), cpu' = cpu,
         nextConn' \in Int, nextConn' < NOTHING, valid' \subseteq valid
  PROVE  IInv'
<1>1. \A q \in QueueIds : SafeReader(Heap', q)
  BY DEF IInv, Preserves, ReadersStaySafe
<1>2. /\ active # <<>> => active' # <<>> /\ active'[1] = active[1]
      /\ \A h \in ConnIds : handles[h].open => handles'[h].open
  BY HeapFields DEF Preserves, SameHead, StayOpen, Heap
<1>3. CpuOK'
  <2>1. cpu.todo \subseteq ConnIds
    BY DEF IInv, CpuOK, CPU
  <2> QED BY <1>2, <2>1 DEF IInv, CpuOK, DispatchedHere
<1>4. HeapOK(Heap')
  BY DEF Preserves
<1> QED BY <1>1, <1>3, <1>4 DEF IInv

(* The running code forks a task. *)
LEMMA ForkIInv ==
  ASSUME IInv, NEW p \in Programmers, NEW i \in Places, fork(p, i)
  PROVE  IInv'
<1> DEFINE t == [id |-> NewId, progr |-> p, kind |-> "forked", forever |-> FALSE]
           s == enqueue_waiting(Heap, t, i)
<1>1. t \in Task /\ t.progr = p
  <2>1. NewId \in TaskIds
    BY DEF fork, NewId, FreshIds
  <2> QED BY <2>1, ConstantsAssumption DEF Task
<1>2. HasRoomFor(Heap, t.progr) /\ i \in WaitingPlaces(Heap, t)
  BY <1>1 DEF fork
<1>3. HeapBecomes(s)
  BY DEF fork
<1> HIDE DEF t
<1>4. Preserves(Heap, s)
  BY <1>1, <1>2, EnqueueWaiting DEF IInv
<1> HIDE DEF s
<1>5. Heap' = s
  BY <1>3, <1>4, HeapBecomesThat DEF Preserves
<1> QED BY <1>4, <1>5, SameCpu DEF fork, IInv

(* The heap becomes one that the code's helpers made. *)
LEMMA HeapStep ==
  ASSUME NEW STATE s, IInv, Preserves(Heap, s), HeapBecomes(s), cpu' = cpu,
         nextConn' \in Int, nextConn' < NOTHING, valid' \subseteq valid
  PROVE  IInv'
<1>1. Heap' = s
  BY HeapBecomesThat DEF Preserves
<1> QED BY <1>1, SameCpu

(* kill_task() *)
LEMMA KillTaskIInv ==
  ASSUME IInv, NEW id \in TaskIds, kill_task(id)
  PROVE  IInv'
<1>0. HeapOK(Heap) /\ nextConn' \in Int /\ nextConn' < NOTHING
      /\ valid' \subseteq valid /\ cpu' = cpu
  BY DEF IInv, kill_task
<1>1. CASE \E i \in DOMAIN waiting :
             LET p == waiting[i].progr
                 s == [Heap EXCEPT !.waiting = RemoveAt(@, i)]
             IN HeapBecomes(IF HasTQueue(s, p)
                            THEN [s EXCEPT !.tq[TQueueOf(s, p)].num_bg = @ - 1]
                            ELSE s)
  <2> PICK i \in DOMAIN waiting :
             LET p == waiting[i].progr
                 s == [Heap EXCEPT !.waiting = RemoveAt(@, i)]
             IN HeapBecomes(IF HasTQueue(s, p)
                            THEN [s EXCEPT !.tq[TQueueOf(s, p)].num_bg = @ - 1]
                            ELSE s)
    BY <1>1
  <2> DEFINE w == RemoveAt(Heap.waiting, i)
             p == waiting[i].progr
             s == [Heap EXCEPT !.waiting = w]
             q == TQueueOf(s, p)
             n == s.tq[q].num_bg - 1
             t == IF HasTQueue(s, p) THEN [s EXCEPT !.tq[q].num_bg = n] ELSE s
  <2>1. w \in Seq(Task)
    BY <1>0, HeapFields, RemoveAtType DEF HeapOK, HeapType
  <2>2. HeapBecomes(t)
    OBVIOUS
  <2> HIDE DEF w, p
  <2>3. Preserves(Heap, s)
    BY <1>0, <2>1, SetWaiting
  <2> HIDE DEF s
  <2>4. CASE HasTQueue(s, p)
    <3>1. q \in QueueIds
      BY <2>3, <2>4, TQueueOfLive DEF Preserves
    <3> HIDE DEF q
    <3>2. n \in Int
      BY <2>3, <3>1, QueueFields DEF Preserves
    <3> HIDE DEF n
    <3>3. Preserves(s, t)
      BY <2>3, <2>4, <3>1, <3>2, SetNumBg DEF Preserves
    <3> HIDE DEF t
    <3>4. Preserves(Heap, t)
      BY <2>3, <3>3, PreservesChain
    <3> QED BY <1>0, <2>2, <3>4, HeapStep
  <2>5. CASE ~HasTQueue(s, p)
    BY <1>0, <2>2, <2>3, <2>5, HeapStep
  <2> QED BY <2>4, <2>5
<1>2. CASE \E q \in Live(Heap) : HeapBecomes([Heap EXCEPT !.tq[q].reading = NoTask])
  <2> PICK q \in Live(Heap) : HeapBecomes([Heap EXCEPT !.tq[q].reading = NoTask])
    BY <1>2
  <2>1. q \in QueueIds
    BY <1>0 DEF Live, Elems, HeapOK, HeapType
  <2> DEFINE t == [Heap EXCEPT !.tq[q].reading = NoTask]
  <2>2. Preserves(Heap, t) /\ HeapBecomes(t)
    BY <1>0, <2>1, NoMoreReading
  <2> HIDE DEF t
  <2> QED BY <1>0, <2>2, HeapStep
<1>3. CASE \E q \in Elems(active) : \E i \in DOMAIN tq[q].bg :
             HeapBecomes([Heap EXCEPT !.tq[q].bg = RemoveAt(@, i),
                                      !.tq[q].num_bg = @ - 1])
  <2> PICK q \in Elems(active) : \E i \in DOMAIN tq[q].bg :
             HeapBecomes([Heap EXCEPT !.tq[q].bg = RemoveAt(@, i),
                                      !.tq[q].num_bg = @ - 1])
    BY <1>3
  <2> PICK i \in DOMAIN tq[q].bg :
             HeapBecomes([Heap EXCEPT !.tq[q].bg = RemoveAt(@, i),
                                      !.tq[q].num_bg = @ - 1])
    OBVIOUS
  <2> DEFINE b == RemoveAt(Heap.tq[q].bg, i)
             s == [Heap EXCEPT !.tq[q].bg = b]
             n == s.tq[q].num_bg - 1
             t == [s EXCEPT !.tq[q].num_bg = n]
  <2>1. q \in QueueIds
    BY <1>0, HeapFields DEF Elems, HeapOK, HeapType
  <2>2. b \in Seq(Task)
    <3>1. Heap.tq[q].bg \in Seq(Task)
      BY <1>0, <2>1, QueueFields
    <3> QED BY <3>1, HeapFields, RemoveAtType
  <2>3. HeapBecomes(t)
    OBVIOUS
  <2> HIDE DEF b
  <2>4. Preserves(Heap, s)
    BY <1>0, <2>1, <2>2, SetBg
  <2> HIDE DEF s
  <2>5. n \in Int
    BY <2>1, <2>4, QueueFields DEF Preserves
  <2> HIDE DEF n
  <2>6. Preserves(s, t)
    BY <2>1, <2>4, <2>5, SetNumBg DEF Preserves
  <2> HIDE DEF t
  <2>7. Preserves(Heap, t)
    BY <2>4, <2>6, PreservesChain
  <2> QED BY <1>0, <2>3, <2>7, HeapStep
<1> QED BY <1>1, <1>2, <1>3 DEF kill_task

(* do_resume() *)
LEMMA DoResumeIInv ==
  ASSUME IInv, NEW id \in TaskIds, do_resume(id)
  PROVE  IInv'
<1>0. HeapOK(Heap) /\ nextConn' \in Int /\ nextConn' < NOTHING
      /\ valid' \subseteq valid /\ cpu' = cpu
  BY DEF IInv, do_resume
<1> PICK i \in DOMAIN waiting : HasRoomFor(Heap, waiting[i].progr)
                              /\ HeapBecomes(make_ready(Heap, i, waiting[i]))
  BY DEF do_resume
<1> DEFINE t == make_ready(Heap, i, Heap.waiting[i])
<1>1. i \in DOMAIN Heap.waiting /\ HasRoomFor(Heap, Heap.waiting[i].progr)
      /\ HeapBecomes(t)
  BY HeapFields
<1>2. Preserves(Heap, t)
  BY <1>0, <1>1, MakeReady
<1> HIDE DEF t
<1> QED BY <1>0, <1>1, <1>2, HeapStep

(* A waiting task comes due. *)
LEMMA WakeIInv ==
  ASSUME IInv, Wake
  PROVE  IInv'
<1>0. HeapOK(Heap) /\ nextConn' \in Int /\ nextConn' < NOTHING
      /\ valid' \subseteq valid /\ cpu' = cpu
  BY DEF IInv, Wake
<1> DEFINE t == make_ready(Heap, 1, Heap.waiting[1])
<1>1. 1 \in DOMAIN Heap.waiting /\ HasRoomFor(Heap, Heap.waiting[1].progr)
      /\ HeapBecomes(t)
  <2>1. waiting \in Seq(Task) BY <1>0, HeapFields DEF HeapOK, HeapType
  <2> QED BY <2>1, HeapFields DEF Wake
<1>2. Preserves(Heap, t)
  BY <1>0, <1>1, MakeReady
<1> HIDE DEF t
<1> QED BY <1>0, <1>1, <1>2, HeapStep

(* force_input(), flush_input() and read_input_now() *)
LEMMA ForceInputIInv ==
  ASSUME IInv, NEW p \in Targets, NEW line \in Lines, NEW at_front \in BOOLEAN,
         force_input(p, line, at_front)
  PROVE  IInv'
<1>0. HeapOK(Heap) /\ nextConn' \in Int /\ nextConn' < NOTHING
      /\ valid' \subseteq valid /\ cpu' = cpu
  BY DEF IInv, force_input
<1> DEFINE s == find_tqueue(Heap, p)
           q == TQueueOf(s, p)
           t == enqueue_input_task(s, q, line, at_front)
<1>1. p \in Int /\ line \in LineKinds
  BY ConstantsAssumption
<1>2. HasRoomFor(Heap, p) /\ HeapBecomes(t)
  BY DEF force_input
<1>3. Preserves(Heap, s) /\ q \in QueueIds
  BY <1>0, <1>1, <1>2, FindTQueue
<1> HIDE DEF s, q
<1>4. Preserves(s, t)
  BY <1>1, <1>3, EnqueueInputTask DEF Preserves
<1> HIDE DEF t
<1>5. Preserves(Heap, t)
  BY <1>3, <1>4, PreservesChain
<1> QED BY <1>0, <1>2, <1>5, HeapStep

(* flush_input() may make a queue and empties one: no list changes but idle. *)
LEMMA FlushInputIInv ==
  ASSUME IInv, NEW p \in Targets, flush_input(p)
  PROVE  IInv'
<1>0. HeapOK(Heap) /\ nextConn' \in Int /\ nextConn' < NOTHING
      /\ valid' \subseteq valid /\ cpu' = cpu
  BY DEF IInv, flush_input
<1> DEFINE s == find_tqueue(Heap, p)
           q == TQueueOf(s, p)
           t == dequeue_all_input(s, q)
<1>1. p \in Int /\ HasRoomFor(Heap, p) /\ HeapBecomes(t)
  BY ConstantsAssumption DEF flush_input
<1>2. Preserves(Heap, s) /\ q \in QueueIds
  BY <1>0, <1>1, FindTQueue
<1> HIDE DEF s, q
<1>3. Preserves(s, t)
  BY <1>2, DequeueAllInput DEF Preserves
<1> HIDE DEF t
<1>4. Preserves(Heap, t)
  BY <1>2, <1>3, PreservesChain
<1> QED BY <1>0, <1>1, <1>4, HeapStep

(* read_input_now() takes a line from a queue and may resume its connection. *)
LEMMA ReadInputNowIInv ==
  ASSUME IInv, NEW p \in Targets, read_input_now(p)
  PROVE  IInv'
<1>0. HeapOK(Heap) /\ nextConn' \in Int /\ nextConn' < NOTHING
      /\ valid' \subseteq valid /\ cpu' = cpu
  BY DEF IInv, read_input_now
<1> DEFINE q == TQueueOf(Heap, p)
           t == dequeue_input_task(Heap, q, "DQ_INBAND")
<1>1. /\ HasTQueue(Heap, p) /\ HasInput(Heap.tq[q], "DQ_INBAND")
      /\ HeapBecomes(t)
  BY HeapFields DEF read_input_now
<1>2. q \in QueueIds
  BY <1>0, <1>1, TQueueOfLive
<1>3. Preserves(Heap, t)
  <2> HIDE DEF q
  <2> QED BY <1>0, <1>1, <1>2, DequeueInputTask
<1> HIDE DEF t
<1> QED BY <1>0, <1>1, <1>3, HeapStep

(* boot_player() only marks the connection. *)
LEMMA BootPlayerIInv ==
  ASSUME IInv, NEW p \in Targets, boot_player(p)
  PROVE  IInv'
<1>0. HeapOK(Heap) /\ nextConn' \in Int /\ nextConn' < NOTHING
      /\ valid' \subseteq valid /\ cpu' = cpu
  BY DEF IInv, boot_player
<1> DEFINE h == find_shandle(Heap, p)
           t == [Heap EXCEPT !.handles[h].disconnect_me = TRUE]
<1>1. HeapBecomes(t)
  BY DEF boot_player, HeapBecomes, Heap
<1>2. h \in ConnIds
  BY <1>0, FindShandleOpen DEF boot_player
<1> HIDE DEF h
<1>3. Preserves(Heap, t)
  BY <1>0, <1>2, MarkHandle
<1> HIDE DEF t
<1> QED BY <1>0, <1>1, <1>3, HeapStep

(* The connection options. *)
LEMMA SetHoldInputIInv ==
  ASSUME IInv, NEW p \in Targets, NEW b \in BOOLEAN, set_hold_input(p, b)
  PROVE  IInv'
<1>0. HeapOK(Heap) /\ nextConn' \in Int /\ nextConn' < NOTHING
      /\ valid' \subseteq valid /\ cpu' = cpu
  BY DEF IInv, set_hold_input
<1> DEFINE q == OptionQueue(p)
           s == [Heap EXCEPT !.tq[q].hold = b]
           t == ensure_usage(s, q)
<1>1. HeapBecomes(t) \/ HeapBecomes(s)
  BY DEF set_hold_input
<1>2. q \in QueueIds
  BY <1>0, FindShandleOpen, HeapFields DEF set_hold_input, MaySetOption, OptionQueue
<1> HIDE DEF q
<1>3. Preserves(Heap, s)
  BY <1>0, <1>2, SetOption
<1> HIDE DEF s
<1>4. Preserves(s, t)
  BY <1>2, <1>3, EnsureUsage DEF Preserves
<1> HIDE DEF t
<1>5. Preserves(Heap, t)
  BY <1>3, <1>4, PreservesChain
<1>6. CASE HeapBecomes(t) BY <1>0, <1>5, <1>6, HeapStep
<1>7. CASE HeapBecomes(s) BY <1>0, <1>3, <1>7, HeapStep
<1> QED BY <1>1, <1>6, <1>7

(* Recognising out-of-band lines again may make a queue active, at its end. *)
LEMMA SetDisableOobIInv ==
  ASSUME IInv, NEW p \in Targets, NEW b \in BOOLEAN, set_disable_oob(p, b)
  PROVE  IInv'
<1>0. HeapOK(Heap) /\ nextConn' \in Int /\ nextConn' < NOTHING
      /\ valid' \subseteq valid /\ cpu' = cpu
  BY DEF IInv, set_disable_oob
<1> DEFINE q == OptionQueue(p)
           s == [Heap EXCEPT !.tq[q].no_oob = b]
           t == ensure_usage(s, q)
<1>1. HeapBecomes(t) \/ HeapBecomes(s)
  BY DEF set_disable_oob
<1>2. q \in QueueIds
  BY <1>0, FindShandleOpen, HeapFields DEF set_disable_oob, MaySetOption, OptionQueue
<1> HIDE DEF q
<1>3. Preserves(Heap, s)
  BY <1>0, <1>2, SetOption
<1> HIDE DEF s
<1>4. Preserves(s, t)
  BY <1>2, <1>3, EnsureUsage DEF Preserves
<1> HIDE DEF t
<1>5. Preserves(Heap, t)
  BY <1>3, <1>4, PreservesChain
<1>6. CASE HeapBecomes(t) BY <1>0, <1>5, <1>6, HeapStep
<1>7. CASE HeapBecomes(s) BY <1>0, <1>3, <1>7, HeapStep
<1> QED BY <1>1, <1>6, <1>7

(* Connections are made by clients and by open_network_connection(). *)
LEMMA AcceptIInv ==
  ASSUME IInv, NEW l \in Listeners, Accept(l)
  PROVE  IInv'
<1>0. HeapOK(Heap) /\ nextConn' \in Int /\ nextConn' < NOTHING
      /\ valid' \subseteq valid /\ cpu' = cpu
  BY DEF IInv, Accept, NOTHING
<1> DEFINE t == server_new_connection(Heap, nextConn, l, FALSE, TRUE)
<1>1. HeapBecomes(t) /\ nextConn \in ConnIds /\ HasRoomFor(Heap, nextConn)
  BY DEF Accept
<1>2. Preserves(Heap, t)
  BY <1>0, <1>1, ServerNewConnection
<1> HIDE DEF t
<1> QED BY <1>0, <1>1, <1>2, HeapStep

(* open_network_connection() makes a connection as Accept does, for a task. *)
LEMMA OpenNetworkConnectionIInv ==
  ASSUME IInv, NEW l \in Listeners, NEW greet \in BOOLEAN,
         open_network_connection(l, greet)
  PROVE  IInv'
<1>0. HeapOK(Heap) /\ nextConn' \in Int /\ nextConn' < NOTHING
      /\ valid' \subseteq valid /\ cpu' = cpu
  BY DEF IInv, open_network_connection, NOTHING
<1> DEFINE t == server_new_connection(Heap, nextConn, l, TRUE, greet)
<1>1. HeapBecomes(t) /\ nextConn \in ConnIds /\ HasRoomFor(Heap, nextConn)
  BY DEF open_network_connection
<1>2. Preserves(Heap, t)
  BY <1>0, <1>1, ServerNewConnection
<1> HIDE DEF t
<1> QED BY <1>0, <1>1, <1>2, HeapStep

(* Lines arrive on a connection. *)
LEMMA ReceiveLinesIInv ==
  ASSUME IInv, NEW h \in ConnIds, NEW burst \in Bursts, ReceiveLines(h, burst)
  PROVE  IInv'
<1>0. HeapOK(Heap) /\ nextConn' \in Int /\ nextConn' < NOTHING
      /\ valid' \subseteq valid /\ cpu' = cpu
  BY DEF IInv, ReceiveLines
<1> DEFINE q == handles[h].queue
           s1 == new_input_task(Heap, q, burst[1])
           s2 == IF Len(burst) = 1 THEN s1 ELSE new_input_task(s1, q, burst[2])
<1>1. HeapBecomes(s2) /\ handles[h].open
  BY DEF ReceiveLines
<1>2. q \in QueueIds
  BY <1>0, <1>1, HeapFields DEF HeapOK
<1>3. burst[1] \in LineKinds /\ (Len(burst) # 1 => burst[2] \in LineKinds)
  <2>1. CASE \E l \in Lines : burst = <<l>>
    BY <2>1, ConstantsAssumption
  <2>2. CASE \E l, m \in Lines : burst = <<l, m>>
    BY <2>2, ConstantsAssumption
  <2> QED BY <2>1, <2>2 DEF Bursts
<1> HIDE DEF q
<1>4. Preserves(Heap, s1)
  BY <1>0, <1>2, <1>3, NewInputTask
<1> HIDE DEF s1
<1>5. Preserves(Heap, s2)
  <2>1. CASE Len(burst) = 1
    BY <1>4, <2>1
  <2>2. CASE Len(burst) # 1
    <3>1. Preserves(s1, new_input_task(s1, q, burst[2]))
      BY <1>2, <1>3, <1>4, <2>2, NewInputTask DEF Preserves
    <3> QED BY <1>4, <2>2, <3>1, PreservesChain
  <2> QED BY <2>1, <2>2
<1> HIDE DEF s2
<1> QED BY <1>0, <1>1, <1>5, HeapStep

(* A player is recycled. *)
LEMMA RecycleIInv ==
  ASSUME IInv, NEW p \in Players, recycle(p)
  PROVE  IInv'
<1>1. HeapOK(Heap) /\ Heap' = Heap
  BY DEF recycle, Heap, IInv
<1>2. Preserves(Heap, Heap')
  BY <1>1, PreservesItself
<1> QED BY <1>2, SameCpu DEF recycle, IInv

-----------------------------------------------------------------------------
(* Steps that move the thread on *)

(* Wherever the thread goes, the heap's part of the invariant is kept. *)
LEMMA MovingStep ==
  ASSUME IInv, HeapOK(Heap'), ReadersStaySafe(Heap, Heap'), CpuOK',
         UNCHANGED <<nextConn, valid>>
  PROVE  IInv'
  BY DEF IInv, ReadersStaySafe

(* It leaves the dispatching of tasks. *)
LEMMA IdleStep ==
  ASSUME IInv, NEW at \in {"io", "wake", "pick", "bump", "reap"},
         HeapOK(Heap'), ReadersStaySafe(Heap, Heap'),
         at # "bump", cpu' = Idle(at), UNCHANGED <<nextConn, valid>>
  PROVE  IInv'
<1>1. CpuOK'
  BY DEF CpuOK, CPU, Idle, Phases, Continuations, DispatchedHere
<1> QED BY <1>1, MovingStep

(* The first active queue's task runs. *)
LEMMA DispatchStep ==
  ASSUME NEW STATE s, IInv, Preserves(Heap, s), HeapBecomes(s),
         active # <<>>, NEW at \in {"task", "login"},
         NEW id \in TaskIds \cup {NoTask},
         Dispatch(at, active[1], id), UNCHANGED <<nextConn, valid>>
  PROVE  IInv'
<1>1. Heap' = s /\ HeapOK(Heap') /\ ReadersStaySafe(Heap, Heap')
  BY HeapBecomesThat DEF Preserves
<1>2. active' # <<>> /\ active'[1] = active[1]
  BY <1>1, HeapFields DEF Preserves, SameHead, Heap
<1>3. active[1] \in QueueIds
  BY HeapFields DEF IInv, HeapOK, HeapType
<1>4. cpu' = [Idle(at) EXCEPT !.q = active[1], !.id = id]
  BY DEF Dispatch
<1>5. cpu' = [at |-> at, then |-> "none", q |-> active[1], h |-> 0, id |-> id,
              todo |-> {}]
  BY <1>4 DEF Idle
<1>6. cpu' \in CPU
  BY <1>3, <1>5 DEF CPU, Phases, Continuations
<1>7. CpuOK'
  BY <1>2, <1>5, <1>6 DEF CpuOK, DispatchedHere
<1> QED BY <1>1, <1>7, MovingStep

(* Every live connection is to be looked at. *)
LEMMA ReapingStep ==
  ASSUME IInv, HeapOK(Heap'), ReadersStaySafe(Heap, Heap'),
         StayOpen(Heap, Heap'), StartReaping, UNCHANGED <<nextConn, valid>>
  PROVE  IInv'
<1>1. \A h \in ConnIds : handles[h].open => handles'[h].open
  BY DEF StayOpen, Heap
<1>2. CpuOK'
  BY <1>1 DEF StartReaping, CpuOK, CPU, Idle, Phases, Continuations, DispatchedHere
<1> QED BY <1>2, MovingStep

(* A heap that does not change. *)
LEMMA SameHeap ==
  ASSUME IInv, UNCHANGED <<tq, active, idle, waiting, handles, panic>>
  PROVE  Heap' = Heap /\ HeapOK(Heap') /\ ReadersStaySafe(Heap, Heap')
  BY DEF Heap, IInv, ReadersStaySafe

(* A client goes away. *)
LEMMA ClientClosesIInv ==
  ASSUME IInv, NEW h \in ConnIds, ClientCloses(h)
  PROVE  IInv'
<1> DEFINE t == [Heap EXCEPT !.handles[h].disconnect_me = TRUE]
<1>1. HeapBecomes(t)
  BY DEF ClientCloses, HeapBecomes, Heap
<1>2. Preserves(Heap, t)
  BY MarkHandle DEF IInv
<1> HIDE DEF t
<1>3. HeapOK(Heap') /\ ReadersStaySafe(Heap, Heap') /\ StayOpen(Heap, Heap')
  BY <1>1, <1>2, HeapBecomesThat DEF Preserves
<1>4. handles'[h].open
  BY <1>3 DEF ClientCloses, StayOpen, Heap
<1>5. cpu.todo = {}
  BY DEF IInv, CpuOK, ClientCloses
<1>6. CpuOK'
  BY <1>4, <1>5, ConnIdsType
     DEF ClientCloses, IInv, CpuOK, CPU, Phases, Continuations, DispatchedHere
<1> QED BY <1>3, <1>6, MovingStep DEF ClientCloses

(* The reader of the first queue gets an error. *)
LEMMA ResumeReaderWithErrorIInv ==
  ASSUME IInv, ResumeReaderWithError
  PROVE  IInv'
<1> DEFINE q == active[1]
           t == [Heap EXCEPT !.tq[q].reading = NoTask]
           id == tq[q].reading
<1>1. HeapBecomes(t)
  BY DEF ResumeReaderWithError, HeapBecomes, Heap
<1>2. q \in QueueIds /\ active # <<>>
  BY HeapFields DEF IInv, HeapOK, HeapType, ResumeReaderWithError, Picking
<1>3. id \in TaskIds \cup {NoTask}
  <2> HIDE DEF q
  <2> QED BY <1>2, QueueFields, HeapFields DEF IInv
<1>4. Dispatch("task", active[1], id)
  BY DEF ResumeReaderWithError
<1>5. Preserves(Heap, t)
  BY <1>2, NoMoreReading DEF IInv
<1> HIDE DEF t, id
<1> QED BY <1>1, <1>2, <1>3, <1>4, <1>5, DispatchStep DEF ResumeReaderWithError

(* An input task runs. *)
LEMMA RunInputIInv ==
  ASSUME IInv, RunInput
  PROVE  IInv'
<1> DEFINE q == active[1]
           r == tq[q]
           s == dequeue_input_task(Heap, q, How(r))
           t == [s EXCEPT !.tq[q].reading = NoTask]
           id == r.reading
<1>1. q \in QueueIds /\ active # <<>> /\ Heap.tq[q] = r /\ HeapOK(Heap)
  BY HeapFields DEF IInv, HeapOK, HeapType, RunInput, Picking
<1>2. id \in TaskIds \cup {NoTask} /\ NoTask \in TaskIds \cup {NoTask}
  <2> HIDE DEF q
  <2> QED BY <1>1, QueueFields, HeapFields DEF IInv
<1>3. UNCHANGED <<nextConn, valid>> /\ HasInput(r, How(r))
  BY DEF RunInput
<1>4. \/ HeapBecomes(s) /\ Dispatch("task", active[1], NoTask)
      \/ HeapBecomes(t) /\ Dispatch("task", active[1], id)
      \/ HeapBecomes(s) /\ Dispatch("login", active[1], NoTask)
      \/ HeapBecomes(s) /\ cpu' = cpu
  BY DEF RunInput
<1> HIDE DEF r
<1>5. Preserves(Heap, s)
  <2> HIDE DEF q
  <2> QED BY <1>1, <1>3, DequeueInputTask DEF IInv
<1> HIDE DEF s
<1>6. Preserves(s, t)
  BY <1>1, <1>5, NoMoreReading DEF Preserves
<1> HIDE DEF t, q, id
<1>7. Preserves(Heap, t)
  BY <1>5, <1>6, PreservesChain
<1>8. CASE HeapBecomes(s) /\ Dispatch("task", active[1], NoTask)
  BY <1>1, <1>2, <1>3, <1>5, <1>8, DispatchStep
<1>9. CASE HeapBecomes(t) /\ Dispatch("task", active[1], id)
  BY <1>1, <1>2, <1>3, <1>7, <1>9, DispatchStep
<1>10. CASE HeapBecomes(s) /\ Dispatch("login", active[1], NoTask)
  BY <1>1, <1>2, <1>3, <1>5, <1>10, DispatchStep
<1>11. CASE HeapBecomes(s) /\ cpu' = cpu
  BY <1>3, <1>5, <1>11, HeapStep DEF IInv
<1> QED BY <1>4, <1>8, <1>9, <1>10, <1>11

(* A background task runs. *)
LEMMA RunBackgroundIInv ==
  ASSUME IInv, RunBackground
  PROVE  IInv'
<1> DEFINE q == active[1]
           t == dequeue_bg_task(Heap, q)
           id == tq[q].bg[1].id
<1>1. q \in QueueIds /\ active # <<>> /\ HeapOK(Heap)
  BY HeapFields DEF IInv, HeapOK, HeapType, RunBackground, Picking
<1>2. id \in TaskIds
  <2> HIDE DEF q
  <2>1. tq[q].bg \in Seq(Task)
    BY <1>1, QueueFields, HeapFields
  <2>2. tq[q].bg # <<>>
    BY DEF RunBackground, q
  <2>3. tq[q].bg[1] \in Task
    BY <2>1, <2>2
  <2> QED BY <2>3 DEF Task
<1>3. Heap.tq[q].bg # <<>> /\ HeapBecomes(t) /\ Dispatch("task", active[1], id)
  BY HeapFields DEF RunBackground
<1>4. Preserves(Heap, t)
  BY <1>1, <1>3, DequeueBgTask
<1> HIDE DEF t, id
<1> QED BY <1>1, <1>2, <1>3, <1>4, DispatchStep DEF RunBackground

(* The first queue has nothing to do. *)
LEMMA DeactivateIInv ==
  ASSUME IInv, Deactivate
  PROVE  IInv'
<1> DEFINE q == active[1]
           t == deactivate_tqueue([Heap EXCEPT !.active = Tail(@)], Heap.active[1])
<1>1. HeapBecomes(t)
  BY HeapFields DEF Deactivate
<1>2. Heap.active # <<>> /\ HeapOK(Heap)
  BY HeapFields DEF Deactivate, Picking, IInv
<1>3. tq[q].reading # NoTask => tq[q].connected
  <2>1. q \in QueueIds
    BY <1>2, HeapFields DEF HeapOK, HeapType
  <2>2. ~ReaderStranded(tq[q]) /\ ~HasInput(tq[q], How(tq[q]))
    BY DEF Deactivate
  <2> HIDE DEF q
  <2> SUFFICES ASSUME tq[q].reading # NoTask
               PROVE  tq[q].connected
    OBVIOUS
  <2>3. tq[q].input \in Seq(LineKinds)
    BY <1>2, <2>1, QueueFields, HeapFields
  <2>4. How(tq[q]) = "DQ_FIRST"
    BY DEF How
  <2>5. ~ \E i \in DOMAIN tq[q].input : TRUE
    BY <2>2, <2>4 DEF HasInput, Wanted
  <2>6. tq[q].input = <<>>
    BY <2>3, <2>5
  <2> QED BY <2>2, <2>6 DEF ReaderStranded, is_out_of_input
<1>4. Heap.tq[Heap.active[1]].reading # NoTask => Heap.tq[Heap.active[1]].connected
  BY <1>3, HeapFields
<1>5. HeapOK(t) /\ StayOpen(Heap, t) /\ ReadersStaySafe(Heap, t)
  BY <1>2, <1>4, DeactivateFirst
<1> HIDE DEF t
<1>6. Heap' = t
  BY <1>1, <1>5, HeapBecomesThat
<1>7. cpu' = cpu /\ cpu.at = "pick"
  BY DEF Deactivate, Picking
<1>8. \A h \in ConnIds : handles[h].open => handles'[h].open
  BY <1>5, <1>6 DEF StayOpen, Heap
<1>9. CpuOK'
  <2>1. cpu.todo = {} /\ cpu \in CPU
    BY <1>7 DEF IInv, CpuOK
  <2> QED BY <1>7, <2>1 DEF CpuOK, DispatchedHere
<1> QED BY <1>5, <1>6, <1>9, MovingStep DEF Deactivate

(* Nothing is ready: dead queues are freed and connections looked at. *)
LEMMA NothingReadyIInv ==
  ASSUME IInv, NothingReady
  PROVE  IInv'
<1> DEFINE t == free_idle_tqueues(Heap)
<1>1. HeapBecomes(t) /\ StartReaping /\ UNCHANGED <<nextConn, valid>>
  BY DEF NothingReady
<1>2. Preserves(Heap, t)
  BY FreeIdleTQueues DEF IInv
<1> HIDE DEF t
<1>3. Heap' = t
  BY <1>1, <1>2, HeapBecomesThat DEF Preserves
<1> QED BY <1>1, <1>2, <1>3, ReapingStep DEF Preserves

(* The queue that ran is charged and takes its place behind the others. *)
LEMMA ChargeFirst ==
  ASSUME NEW s, HeapOK(s), s.active # <<>>, NEW e \in Nat
  PROVE  LET q == s.active[1]
             t == [s EXCEPT !.active = RestAfter(@, q), !.tq[q].usage = @ + e]
         IN /\ HeapOK(t) /\ StayOpen(s, t) /\ ReadersStaySafe(s, t)
            /\ q \in QueueIds /\ q \notin t.idle /\ q \notin Elems(t.active)
            /\ t.tq[q].usage # NO_USAGE
<1> DEFINE q == s.active[1]
           n == s.tq[q].usage + e
           r == [s.tq[q] EXCEPT !.usage = n]
           t == [s EXCEPT !.active = RestAfter(@, q), !.tq[q].usage = @ + e]
           l == Tail(s.active)
<1>1. /\ s.active \in Seq(QueueIds)
      /\ q \in QueueIds /\ 1 \in DOMAIN s.active
      /\ DOMAIN s.active = 1 .. Len(s.active) /\ Len(s.active) \in Nat
      /\ l \in Seq(QueueIds) /\ DOMAIN l = 1 .. Len(s.active) - 1
      /\ \A i \in DOMAIN l : i + 1 \in DOMAIN s.active /\ l[i] = s.active[i + 1]
  BY DEF HeapOK, HeapType
<1>2. \A i \in DOMAIN s.active : s.active[i] = q => i = 1
  BY <1>1 DEF HeapOK
<1>3. RestAfter(s.active, q) = l
  <2>1. (CHOOSE j \in DOMAIN s.active : s.active[j] = q) = 1
    BY <1>1, <1>2
  <2>2. RestAfter(s.active, q) = SubSeq(s.active, 1 + 1, Len(s.active))
    <3> HIDE DEF q
    <3> QED BY <2>1, Zenon DEF RestAfter
  <2> QED BY <1>1, <2>2
<1>4. s.tq[q] \in TQueue /\ s.tq[q].usage \in Nat
  <2>1. s.tq[q] \in TQueue BY <1>1 DEF HeapOK, HeapType
  <2>2. s.tq[q].usage # NO_USAGE BY <1>1 DEF HeapOK
  <2> QED BY <2>1, <2>2 DEF TQueue
<1>5. n \in Nat /\ n # NO_USAGE
  BY <1>4 DEF NO_USAGE
<1>6. /\ r \in TQueue /\ r.usage = n /\ r.reading = s.tq[q].reading
      /\ r.connected = s.tq[q].connected
  BY <1>4, <1>5 DEF TQueue
<1>7. t = [s EXCEPT !.active = l, !.tq[q] = r]
  BY <1>3
<1> HIDE DEF l, n, r, t, q
<1>8. /\ t \in HeapType /\ t.tq = [s.tq EXCEPT ![q] = r]
      /\ t.active = l /\ t.idle = s.idle /\ t.handles = s.handles
  BY <1>1, <1>6, <1>7 DEF HeapOK, HeapType
<1>9. \A k \in QueueIds : t.tq[k] = IF k = q THEN r ELSE s.tq[k]
  BY <1>8 DEF HeapOK, HeapType
<1>10. \A i \in DOMAIN l :
         l[i] \in QueueIds /\ l[i] # q /\ i + 1 \in DOMAIN s.active
         /\ l[i] = s.active[i + 1]
  <2>1. \A i \in DOMAIN l : i + 1 # 1
    BY <1>1
  <2> QED BY <1>1, <1>2, <2>1
<1>11. HeapOK(t)
  <2>1. \A i \in DOMAIN t.active :
          t.active[i] \notin t.idle /\ t.tq[t.active[i]].usage # NO_USAGE
    BY <1>8, <1>9, <1>10 DEF HeapOK
  <2>2. \A i, j \in DOMAIN t.active :
          i < j => /\ t.active[i] # t.active[j]
                   /\ t.tq[t.active[i]].usage <= t.tq[t.active[j]].usage
    <3>1. \A i, j \in DOMAIN l : i < j => i + 1 < j + 1
      BY <1>1
    <3> QED BY <1>8, <1>9, <1>10, <3>1 DEF HeapOK
  <2>3. q \notin s.idle
    BY <1>1 DEF HeapOK, q
  <2>4. \A k \in t.idle : t.tq[k].usage = NO_USAGE
    <3>1. \A k \in s.idle : k \in QueueIds
      BY DEF HeapOK, HeapType
    <3> QED BY <1>8, <1>9, <2>3, <3>1 DEF HeapOK
  <2> QED BY <1>8, <2>1, <2>2, <2>4 DEF HeapOK
<1>12. StayOpen(s, t)
  BY <1>8 DEF StayOpen
<1>13. ReadersStaySafe(s, t)
  BY <1>5, <1>6, <1>9 DEF ReadersStaySafe, SafeReader
<1>14. q \notin t.idle /\ q \notin Elems(t.active) /\ t.tq[q].usage # NO_USAGE
  <2>1. q \notin s.idle
    BY <1>1 DEF HeapOK, q
  <2> QED BY <1>1, <1>5, <1>6, <1>8, <1>9, <1>10, <2>1 DEF Elems
<1> QED BY <1>1, <1>11, <1>12, <1>13, <1>14 DEF t, q

(* Bump() drops the queues up to the one that ran, charges it and puts it back
   where its usage belongs: the list stays sorted. *)
LEMMA BumpIInv ==
  ASSUME IInv, NEW e \in 0 .. 1, Bump(e)
  PROVE  IInv'
<1> DEFINE q == Heap.active[1]
           s == [Heap EXCEPT !.active = RestAfter(@, q), !.tq[q].usage = @ + e]
           u == activate_tqueue(s, q)
           t == free_idle_tqueues(u)
<1>1. active # <<>> /\ active[1] = cpu.q
  BY DEF Bump, IInv, CpuOK, DispatchedHere
<1>2. HeapBecomes(t) /\ StartReaping /\ UNCHANGED <<nextConn, valid>>
  BY <1>1, HeapFields DEF Bump
<1>3. /\ HeapOK(s) /\ StayOpen(Heap, s) /\ ReadersStaySafe(Heap, s)
      /\ q \in QueueIds /\ q \notin s.idle /\ q \notin Elems(s.active)
      /\ s.tq[q].usage # NO_USAGE
  <2>1. HeapOK(Heap) /\ Heap.active # <<>> /\ e \in Nat
    BY <1>1, HeapFields DEF IInv
  <2> QED BY <2>1, ChargeFirst
<1> HIDE DEF q, s
<1>4. HeapOK(u) /\ StayOpen(s, u) /\ u.tq = s.tq
  <2>1. HeapOK(u) /\ StayOpen(s, u) /\ u = [s EXCEPT !.active = u.active]
    BY <1>3, ActivateTQueue
  <2> HIDE DEF u
  <2> QED BY <1>3, <2>1 DEF HeapOK, HeapType
<1> HIDE DEF u
<1>5. Preserves(u, t)
  BY <1>4, FreeIdleTQueues
<1> HIDE DEF t
<1>6. HeapOK(t) /\ StayOpen(Heap, t) /\ ReadersStaySafe(Heap, t)
  <2>1. ReadersStaySafe(s, u)
    BY <1>4 DEF ReadersStaySafe, SafeReader
  <2> QED BY <1>3, <1>4, <1>5, <2>1 DEF Preserves, StayOpen, ReadersStaySafe
<1>7. Heap' = t
  BY <1>2, <1>6, HeapBecomesThat
<1> QED BY <1>2, <1>6, <1>7, ReapingStep

(* The running code stops: the task is over, or a notifier's caller goes on. *)
LEMMA ReturnIInv ==
  ASSUME NEW STATE s, IInv, InMoo, Preserves(Heap, s), Return(s),
         UNCHANGED <<nextConn, valid>>
  PROVE  IInv'
<1>1. HeapOK(s) /\ ReadersStaySafe(Heap, s)
  BY DEF Preserves
<1>2. \A h \in ConnIds : handles[h].open => s.handles[h].open
  BY HeapFields DEF Preserves, StayOpen
<1>3. active # <<>> => s.active # <<>> /\ s.active[1] = active[1]
  BY HeapFields DEF Preserves, SameHead
<1>4. cpu \in CPU /\ cpu.todo \subseteq ConnIds
  BY DEF IInv, CpuOK, CPU
<1>5. CASE /\ cpu.at # "notify" \/ cpu.then = "login"
           /\ HeapBecomes(s) /\ cpu' = [Idle("bump") EXCEPT !.q = cpu.q]
  <2>1. Heap' = s
    BY <1>1, <1>5, HeapBecomesThat
  <2>2. active # <<>> /\ active[1] = cpu.q
    BY <1>5 DEF IInv, CpuOK, DispatchedHere, InMoo
  <2>3. active' # <<>> /\ active'[1] = cpu.q
    BY <1>3, <2>1, <2>2, HeapFields DEF Heap
  <2>4. cpu' = [at |-> "bump", then |-> "none", q |-> cpu.q, h |-> 0,
                id |-> NoTask, todo |-> {}]
    BY <1>5 DEF Idle
  <2>5. cpu' \in CPU
    BY <1>4, <2>4 DEF CPU, Phases, Continuations
  <2>6. CpuOK'
    BY <2>3, <2>4, <2>5 DEF CpuOK
  <2> QED BY <1>1, <2>1, <2>6, MovingStep
<1>6. CASE /\ cpu.at = "notify" /\ cpu.then = "close"
           /\ HeapBecomes(free_shandle(s, cpu.h)) /\ cpu' = Idle("io")
  <2> DEFINE t == free_shandle(s, cpu.h)
  <2>1. cpu.h \in ConnIds /\ s.handles[cpu.h].open
    BY <1>2, <1>6 DEF IInv, CpuOK
  <2>2. HeapOK(t) /\ ReadersStaySafe(s, t)
    BY <1>1, <2>1, FreeShandle
  <2> HIDE DEF t
  <2>3. Heap' = t
    BY <1>6, <2>2, HeapBecomesThat DEF t
  <2>4. HeapOK(Heap') /\ ReadersStaySafe(Heap, Heap')
    BY <1>1, <2>2, <2>3 DEF ReadersStaySafe
  <2> QED BY <1>6, <2>4, IdleStep
<1>7. CASE /\ cpu.at = "notify" /\ cpu.then = "relisten"
           /\ HeapBecomes([s EXCEPT !.handles[cpu.h].disconnect_me = FALSE])
           /\ cpu' = [cpu EXCEPT !.then = "login", !.id = NoTask]
  <2> DEFINE t == [s EXCEPT !.handles[cpu.h].disconnect_me = FALSE]
  <2>1. cpu.h \in ConnIds
    BY <1>7 DEF IInv, CpuOK
  <2>2. Preserves(s, t)
    BY <1>1, <2>1, MarkHandle
  <2> HIDE DEF t
  <2>3. Preserves(Heap, t)
    BY <2>2, PreservesChain
  <2>4. Heap' = t
    BY <1>7, <2>3, HeapBecomesThat DEF t, Preserves
  <2>5. active # <<>> /\ active[1] = cpu.q
    BY <1>7 DEF IInv, CpuOK, DispatchedHere
  <2>6. active' # <<>> /\ active'[1] = cpu.q
    BY <2>3, <2>4, <2>5, HeapFields DEF Heap, Preserves, SameHead
  <2>7. /\ cpu'.at = "notify" /\ cpu'.then = "login" /\ cpu'.q = cpu.q
        /\ cpu'.h = cpu.h /\ cpu'.todo = cpu.todo /\ cpu' \in CPU
    BY <1>4, <1>7 DEF CPU, Phases, Continuations
  <2>8. cpu.todo = {}
    BY <1>7 DEF IInv, CpuOK
  <2>9. CpuOK'
    BY <2>1, <2>6, <2>7, <2>8 DEF CpuOK, DispatchedHere
  <2> QED BY <2>3, <2>4, <2>9, MovingStep DEF Preserves
<1>8. CASE /\ cpu.at = "notify" /\ cpu.then = "reap"
           /\ HeapBecomes(free_shandle(s, cpu.h))
           /\ cpu' = [Idle("reap") EXCEPT !.todo = cpu.todo]
  <2> DEFINE t == free_shandle(s, cpu.h)
  <2>1. cpu.h \in ConnIds /\ s.handles[cpu.h].open /\ cpu.h \notin cpu.todo
    BY <1>2, <1>8 DEF IInv, CpuOK
  <2>2. /\ HeapOK(t) /\ ReadersStaySafe(s, t)
        /\ \A k \in ConnIds \ {cpu.h} : s.handles[k].open => t.handles[k].open
    BY <1>1, <2>1, FreeShandle
  <2> HIDE DEF t
  <2>3. Heap' = t
    BY <1>8, <2>2, HeapBecomesThat DEF t
  <2>4. HeapOK(Heap') /\ ReadersStaySafe(Heap, Heap')
    BY <1>1, <2>2, <2>3 DEF ReadersStaySafe
  <2>5. \A k \in cpu.todo : handles'[k].open
    BY <1>2, <1>4, <2>1, <2>2, <2>3 DEF IInv, CpuOK, Heap
  <2>6. cpu' = [at |-> "reap", then |-> "none", q |-> NoQueue, h |-> 0,
                id |-> NoTask, todo |-> cpu.todo]
    BY <1>8 DEF Idle
  <2>7. cpu' \in CPU
    BY <1>4, <2>6 DEF CPU, Phases, Continuations
  <2>8. CpuOK'
    BY <2>5, <2>6, <2>7 DEF CpuOK, DispatchedHere
  <2> QED BY <2>4, <2>8, MovingStep
<1>9. CASE /\ cpu.at = "notify" /\ cpu.then = "io"
           /\ HeapBecomes(s) /\ cpu' = Idle("io")
  <2>1. Heap' = s
    BY <1>1, <1>9, HeapBecomesThat
  <2> QED BY <1>1, <1>9, <2>1, IdleStep
<1> QED BY <1>5, <1>6, <1>7, <1>8, <1>9 DEF Return

(* The task finishes. *)
LEMMA FinishIInv ==
  ASSUME IInv, Finish
  PROVE  IInv'
<1>1. Preserves(Heap, Heap)
  BY PreservesItself DEF IInv
<1> QED BY <1>1, ReturnIInv DEF Finish

(* The id of a task that blocks. *)
LEMMA MyIdType ==
  ASSUME IInv, HasId
  PROVE  MyId \in TaskIds
<1>1. CASE cpu.id # NoTask
  BY <1>1 DEF MyId, IInv, CpuOK, CPU
<1>2. CASE cpu.id = NoTask
  BY <1>2 DEF MyId, HasId, NewId, FreshIds
<1> QED BY <1>1, <1>2

(* The task suspends. *)
LEMMA SuspendIInv ==
  ASSUME IInv, NEW p \in Programmers, NEW forever \in BOOLEAN, NEW i \in Places,
         suspend(p, forever, i)
  PROVE  IInv'
<1> DEFINE t == [id |-> MyId, progr |-> p, kind |-> "suspended", forever |-> forever]
           s == enqueue_waiting(Heap, t, i)
<1>1. t \in Task /\ t.progr = p
  <2>1. MyId \in TaskIds
    BY MyIdType DEF suspend
  <2> QED BY <2>1, ConstantsAssumption DEF Task
<1>2. HasRoomFor(Heap, t.progr) /\ i \in WaitingPlaces(Heap, t)
  BY <1>1 DEF suspend
<1>3. Return(s)
  BY DEF suspend
<1> HIDE DEF t
<1>4. Preserves(Heap, s)
  BY <1>1, <1>2, EnqueueWaiting DEF IInv
<1> HIDE DEF s
<1> QED BY <1>3, <1>4, ReturnIInv DEF suspend, Calls

(* The task reads: its queue is connected, or has input and becomes active. *)
LEMMA ReadIInv ==
  ASSUME IInv, NEW p \in Targets, read(p)
  PROVE  IInv'
<1> DEFINE q == TQueueOf(Heap, p)
           s == [Heap EXCEPT !.tq[q].reading = MyId]
           t == IF tq[q].input # <<>> THEN ensure_usage(s, q) ELSE s
<1>1. HasTQueue(Heap, p) /\ MyId \in TaskIds /\ ~is_out_of_input(tq[q])
  BY MyIdType DEF read
<1>2. q \in QueueIds
  BY <1>1, TQueueOfLive DEF IInv
<1>3. Return(t) /\ Heap.tq[q] = tq[q]
  BY HeapFields DEF read
<1> HIDE DEF q
<1>4. /\ HeapOK(s) /\ SameHead(Heap, s) /\ StayOpen(Heap, s)
      /\ \A k \in QueueIds \ {q} : SafeReader(Heap, k) => SafeReader(s, k)
      /\ tq[q].connected => SafeReader(s, q)
  BY <1>1, <1>2, <1>3, SetReading DEF IInv
<1> HIDE DEF s
<1>5. Preserves(Heap, t)
  <2>1. CASE tq[q].input # <<>>
    <3>1. Preserves(s, t) /\ SafeReader(t, q)
      BY <1>2, <1>4, <2>1, EnsureUsage DEF SafeReader
    <3> QED BY <1>4, <3>1 DEF Preserves, SameHead, StayOpen, ReadersStaySafe
  <2>2. CASE tq[q].input = <<>>
    <3>1. SafeReader(t, q)
      BY <1>1, <1>4, <2>2 DEF is_out_of_input
    <3> QED BY <1>4, <2>2, <3>1 DEF Preserves, ReadersStaySafe
  <2> QED BY <2>1, <2>2
<1> HIDE DEF t
<1> QED BY <1>3, <1>5, ReturnIInv DEF read, Calls

(* A login: tasks move between queues, and a connection may be closed, but the
   queue whose input it was stays the first. *)
LEMMA LoginIInv ==
  ASSUME IInv, NEW p \in Players, Login(p)
  PROVE  IInv'
<1> DEFINE q == cpu.q
           old == tq[q].player
           s0 == [Heap EXCEPT !.tq[q].player = p]
           s1 == leave_own_tasks(s0, q, old)
           d == TQueueOf(Heap, p)
           s2 == IF HasTQueue(Heap, p) THEN merge_dead_tqueue(s1, q, d) ELSE s1
           h == find_shandle(s2, old)
           s3 == player_connected(s2, h, p)
           s4 == [s3 EXCEPT !.handles[h].disconnect_me = TRUE]
           s5 == [s2 EXCEPT !.panic = TRUE]
<1>1. HeapOK(Heap) /\ p \in Int
  BY ConstantsAssumption DEF IInv
<1>2. cpu.at = "login" /\ cpu \in CPU /\ cpu.todo = {}
      /\ active # <<>> /\ active[1] = q /\ UNCHANGED <<nextConn, valid>>
  BY DEF Login, IInv, CpuOK, DispatchedHere
<1>3. q \in QueueIds
  BY <1>1, <1>2, HeapFields DEF HeapOK, HeapType
<1>4. tq[q].num_bg = 0 \/ Live(Heap) # QueueIds
  BY DEF Login
<1>5. \/ HeapBecomes(s5) /\ cpu' = Idle("io")
      \/ /\ HasHandle(s2, old)
         /\ HeapBecomes(s4) \/ HeapBecomes(s3)
         /\ \E then \in {"relisten", "login"} :
              cpu' = [cpu EXCEPT !.at = "notify", !.h = h, !.id = NoTask,
                                 !.then = then]
  BY DEF Login
<1>6. old \in Int
  <2> HIDE DEF q
  <2> QED BY <1>1, <1>3, QueueFields, HeapFields
<1> HIDE DEF q, old
<1>7. Preserves(Heap, s0) /\ Live(s0) = Live(Heap)
  BY <1>1, <1>3, SetPlayer
<1>8. s0.tq[q].num_bg = tq[q].num_bg
  BY <1>1, <1>3, HeapFields DEF HeapOK, HeapType, TQueue
<1> HIDE DEF s0
<1>9. Preserves(s0, s1)
  <2>1. s0.tq[q].num_bg = 0 \/ HasRoomFor(s0, old)
    BY <1>4, <1>7, <1>8 DEF HasRoomFor
  <2> QED BY <1>3, <1>6, <1>7, <2>1, LeaveOwnTasks DEF Preserves
<1> HIDE DEF s1
<1>10. Preserves(s1, s2)
  <2>1. CASE HasTQueue(Heap, p)
    <3>1. d \in QueueIds
      BY <1>1, <2>1, TQueueOfLive
    <3> HIDE DEF d
    <3> QED BY <1>3, <1>9, <2>1, <3>1, MergeDeadTQueue DEF Preserves
  <2>2. CASE ~HasTQueue(Heap, p)
    BY <1>9, <2>2, PreservesItself DEF Preserves
  <2> QED BY <2>1, <2>2
<1> HIDE DEF s2
<1>11. Preserves(Heap, s2)
  BY <1>7, <1>9, <1>10, PreservesChain
<1>12. CASE HeapBecomes(s5) /\ cpu' = Idle("io")
  <2>1. s2 \in HeapType
    BY <1>11 DEF Preserves, HeapOK
  <2>2. /\ s5 \in HeapType /\ s5.active = s2.active /\ s5.idle = s2.idle
        /\ s5.tq = s2.tq /\ s5.handles = s2.handles
    BY <2>1 DEF HeapType
  <2> HIDE DEF s5
  <2>3. QueuesAgree(s2, s5) /\ HandlesAgree(s2, s5)
    BY <2>2 DEF QueuesAgree, HandlesAgree
  <2>4. Preserves(s2, s5)
    BY <1>11, <2>2, <2>3, QuietHeap DEF Preserves
  <2>5. Preserves(Heap, s5)
    BY <1>11, <2>4, PreservesChain
  <2>6. Heap' = s5
    BY <1>12, <2>5, HeapBecomesThat DEF Preserves
  <2> QED BY <1>2, <1>12, <2>5, <2>6, IdleStep DEF Preserves
<1>13. CASE /\ HasHandle(s2, old)
            /\ HeapBecomes(s4) \/ HeapBecomes(s3)
            /\ \E then \in {"relisten", "login"} :
                 cpu' = [cpu EXCEPT !.at = "notify", !.h = h, !.id = NoTask,
                                    !.then = then]
  <2>1. h \in ConnIds
    BY <1>11, <1>13, FindShandleOpen DEF Preserves
  <2> HIDE DEF h
  <2>2. HeapOK(s3) /\ SameHead(s2, s3) /\ ReadersStaySafe(s2, s3)
    BY <1>1, <1>11, <2>1, PlayerConnected DEF Preserves
  <2> HIDE DEF s3
  <2>3. Preserves(s3, s4)
    BY <2>1, <2>2, MarkHandle
  <2> HIDE DEF s4
  <2>4. /\ HeapOK(Heap') /\ SameHead(Heap, Heap') /\ ReadersStaySafe(Heap, Heap')
    <3>1. CASE HeapBecomes(s4)
      <4>1. Heap' = s4
        BY <2>3, <3>1, HeapBecomesThat DEF Preserves
      <4> QED BY <1>11, <2>2, <2>3, <4>1 DEF Preserves, SameHead, ReadersStaySafe
    <3>2. CASE HeapBecomes(s3)
      <4>1. Heap' = s3
        BY <2>2, <3>2, HeapBecomesThat
      <4> QED BY <1>11, <2>2, <4>1 DEF Preserves, SameHead, ReadersStaySafe
    <3> QED BY <1>13, <3>1, <3>2
  <2>5. active' # <<>> /\ active'[1] = cpu.q
    BY <1>2, <2>4 DEF SameHead, Heap, q
  <2>6. PICK then \in {"relisten", "login"} :
          cpu' = [cpu EXCEPT !.at = "notify", !.h = h, !.id = NoTask, !.then = then]
    BY <1>13
  <2>7. /\ cpu'.at = "notify" /\ cpu'.then = then /\ cpu'.q = cpu.q
        /\ cpu'.h = h /\ cpu'.todo = {} /\ cpu' \in CPU
    <3>1. h \in Int BY <2>1, ConnIdsType
    <3> QED BY <1>2, <2>6, <3>1 DEF CPU, Phases, Continuations
  <2>8. CpuOK'
    BY <2>1, <2>5, <2>7 DEF CpuOK, DispatchedHere
  <2> QED BY <1>2, <2>4, <2>8, MovingStep
<1> QED BY <1>5, <1>12, <1>13

-----------------------------------------------------------------------------
(* The end of the main loop *)

(* A connection that has timed out, or is booted, is to be closed. *)
LEMMA NotifyIInv ==
  ASSUME IInv, NEW h \in ConnIds, Reaping(h), Notify(h),
         UNCHANGED <<tq, active, idle, waiting, handles, nextConn, valid, panic>>
  PROVE  IInv'
<1>1. /\ cpu'.at = "notify" /\ cpu'.then = "reap" /\ cpu'.h = h
      /\ cpu'.todo = cpu.todo \ {h} /\ cpu' \in CPU
  BY ConnIdsType DEF IInv, CpuOK, CPU, Notify, Phases, Continuations
<1>2. handles[h].open /\ \A k \in cpu.todo : handles[k].open
  BY DEF Reaping, IInv, CpuOK
<1>3. CpuOK'
  BY <1>1, <1>2 DEF CpuOK, DispatchedHere
<1> QED BY <1>3, SameHeap, MovingStep

(* The connection of a recycled player is closed. *)
LEMMA ReapRecycledIInv ==
  ASSUME IInv, NEW h \in ConnIds, ReapRecycled(h)
  PROVE  IInv'
<1> DEFINE t == free_shandle(Heap, h)
<1>1. HeapBecomes(t) /\ h \in cpu.todo /\ Heap.handles[h].open
  BY HeapFields DEF ReapRecycled, Reaping, IInv, CpuOK
<1>2. /\ HeapOK(t) /\ ReadersStaySafe(Heap, t)
      /\ \A k \in ConnIds \ {h} : Heap.handles[k].open => t.handles[k].open
  BY <1>1, FreeShandle DEF IInv
<1> HIDE DEF t
<1>3. Heap' = t
  BY <1>1, <1>2, HeapBecomesThat
<1>4. /\ cpu'.at = "reap" /\ cpu'.todo = cpu.todo \ {h} /\ cpu' \in CPU
  BY DEF ReapRecycled, Reaping, IInv, CpuOK, CPU
<1>5. cpu.todo \subseteq ConnIds
  BY DEF IInv, CpuOK, CPU
<1>6. \A k \in cpu'.todo : handles'[k].open
  BY <1>2, <1>3, <1>4, <1>5 DEF Heap, IInv, CpuOK
<1>7. CpuOK'
  BY <1>4, <1>6 DEF CpuOK, DispatchedHere
<1> QED BY <1>2, <1>3, <1>7, MovingStep DEF ReapRecycled

(* A connection is left alone. *)
LEMMA SpareIInv ==
  ASSUME IInv, NEW h \in ConnIds, Spare(h)
  PROVE  IInv'
<1>1. /\ cpu'.at = "reap" /\ cpu'.todo = cpu.todo \ {h} /\ cpu' \in CPU
  BY DEF Spare, Reaping, IInv, CpuOK, CPU
<1>2. CpuOK'
  BY <1>1 DEF CpuOK, DispatchedHere, Spare, IInv
<1> QED BY <1>2, SameHeap, MovingStep DEF Spare

-----------------------------------------------------------------------------
(* Theorems *)

(* Every step keeps the inductive invariant. *)
LEMMA NextIInv == IInv /\ [Next]_vars => IInv'
<1> SUFFICES ASSUME IInv, [Next]_vars PROVE IInv'
  OBVIOUS
<1>1. CASE Network
  <2>1. CASE EndIO
    BY <2>1, SameHeap, IdleStep DEF EndIO
  <2>2. CASE \E l \in Listeners : Accept(l)
    BY <2>2, AcceptIInv
  <2>3. CASE \E h \in ConnIds : \E burst \in Bursts : ReceiveLines(h, burst)
    BY <2>3, ReceiveLinesIInv
  <2>4. CASE \E h \in ConnIds : ClientCloses(h)
    BY <2>4, ClientClosesIInv
  <2> QED BY <1>1, <2>1, <2>2, <2>3, <2>4 DEF Network
<1>2. CASE Ready
  <2>1. CASE StartPicking
    BY <2>1, SameHeap, IdleStep DEF StartPicking
  <2> QED BY <1>2, <2>1, WakeIInv, ResumeReaderWithErrorIInv, RunInputIInv,
             RunBackgroundIInv, DeactivateIInv, NothingReadyIInv, BumpIInv DEF Ready
<1>3. CASE Moo
  <2>1. CASE \E p \in Programmers, i \in Places :
               \/ fork(p, i)
               \/ \E forever \in BOOLEAN : suspend(p, forever, i)
    BY <2>1, ForkIInv, SuspendIInv
  <2>2. CASE \E id \in TaskIds : kill_task(id) \/ do_resume(id)
    BY <2>2, KillTaskIInv, DoResumeIInv
  <2>3. CASE \E p \in Targets :
               \/ \E line \in Lines \ {"flush"}, at_front \in BOOLEAN :
                    force_input(p, line, at_front)
               \/ flush_input(p) \/ read_input_now(p) \/ read(p) \/ boot_player(p)
               \/ \E b \in BOOLEAN : set_hold_input(p, b) \/ set_disable_oob(p, b)
    BY <2>3, ForceInputIInv, FlushInputIInv, ReadInputNowIInv, ReadIInv,
       BootPlayerIInv, SetHoldInputIInv, SetDisableOobIInv
  <2>4. CASE \E l \in Listeners, greet \in BOOLEAN : open_network_connection(l, greet)
    BY <2>4, OpenNetworkConnectionIInv
  <2>5. CASE \E p \in Players : recycle(p) \/ Login(p)
    BY <2>5, RecycleIInv, LoginIInv
  <2>6. CASE Finish
    BY <2>6, FinishIInv
  <2> QED BY <1>3, <2>1, <2>2, <2>3, <2>4, <2>5, <2>6 DEF Moo
<1>4. CASE Reap
  <2>1. CASE LoopAgain
    <3>1. CASE cpu' = Idle("io")
      BY <2>1, <3>1, SameHeap, IdleStep DEF LoopAgain
    <3>2. CASE cpu' = ServerVerb
      <4>1. CpuOK'
        BY <3>2 DEF CpuOK, CPU, Idle, ServerVerb, Phases, Continuations, DispatchedHere
      <4> QED BY <2>1, <4>1, SameHeap, MovingStep DEF LoopAgain
    <3> QED BY <2>1, <3>1, <3>2 DEF LoopAgain
  <2>2. CASE \E h \in ConnIds : ReapTimedOut(h) \/ ReapBooted(h)
    BY <2>2, NotifyIInv DEF ReapTimedOut, ReapBooted
  <2>3. CASE \E h \in ConnIds : ReapRecycled(h) \/ Spare(h)
    BY <2>3, ReapRecycledIInv, SpareIInv
  <2> QED BY <1>4, <2>1, <2>2, <2>3 DEF Reap
<1>5. CASE UNCHANGED vars
  <2>1. Heap' = Heap /\ HeapOK(Heap')
    BY <1>5 DEF vars, Heap, IInv
  <2> QED BY <1>5, <2>1, PreservesItself, SameCpu DEF vars, IInv
<1> QED BY <1>1, <1>2, <1>3, <1>4, <1>5 DEF Next

(* The inductive invariant holds of every reachable state. *)
THEOREM AlwaysIInv == Spec => []IInv
  BY InitIInv, NextIInv, PTL DEF Spec

(* Every variable keeps to its type. *)
THEOREM TypeCorrect == Spec => []TypeOK
<1>1. IInv => TypeOK
  BY HeapFields DEF IInv, HeapOK, HeapType, CpuOK, TypeOK
<1> QED BY <1>1, AlwaysIInv, PTL

(* The lists of active and idle queues are disjoint, the active one has no
   queue twice and is sorted by usage, and a queue is idle exactly if it has no
   usage: what activate_tqueue() and ensure_usage() take for granted. *)
THEOREM ListsAlwaysAgree == Spec => []ListsAgree
<1>1. IInv => ListsAgree
  BY HeapFields DEF IInv, HeapOK, ListsAgree, Elems
<1> QED BY <1>1, AlwaysIInv, PTL

(* Whatever a task does, the queue it was dispatched from is still the first
   when run_ready_tasks() charges it. *)
THEOREM RunningQueueStaysFirst == Spec => []RunningQueueIsFirst
<1>1. IInv => RunningQueueIsFirst
  BY DEF IInv, CpuOK, RunningQueueIsFirst
<1> QED BY <1>1, AlwaysIInv, PTL

(* No queue that may be freed has a reading task. *)
THEOREM ReadersAlwaysSurvive == Spec => []ReadersSurvive
<1>1. IInv => ReadersSurvive
  <2> SUFFICES ASSUME IInv, NEW q \in Live(Heap)
               PROVE  tq[q].reading # NoTask
                        => tq[q].connected \/ tq[q].usage # NO_USAGE
    BY DEF ReadersSurvive
  <2>1. q \in QueueIds
    BY HeapFields DEF Live, Elems, IInv, HeapOK, HeapType
  <2> QED BY <2>1, HeapFields DEF IInv, SafeReader
<1> QED BY <1>1, AlwaysIInv, PTL
=============================================================================
