-------------------------- MODULE OwnershipProofs --------------------------
(***************************************************************************)
(* Proofs about TaskQueues, continued: which queue belongs to whom.  A     *)
(* player has one queue, a queue's number of background tasks is that of   *)
(* the tasks its player owns, every one of them is on a queue of its       *)
(* owner, and a queue is connected when a connection is open for its       *)
(* player; hence find_shandle() never returns NULL where the scheduler     *)
(* dereferences what it returns.  None of these holds alone: a login       *)
(* merges the queues of two players, moves their tasks and redirects the   *)
(* connections, and each of them needs the others.  OwnersOK is their      *)
(* conjunction, with what it takes to be preserved by each helper.         *)
(*                                                                         *)
(* The inductive invariant OwnInv adds two facts to OwnersOK: connection   *)
(* numbers are not used again, and a login is that of a connection that    *)
(* has not logged in.  There is a lemma for each helper and one for each   *)
(* action, which composes the former in the order in which the handler     *)
(* calls the helpers.                                                      *)
(*                                                                         *)
(* The tasks that run as #-1 are left out: see NoOrphans.                  *)
(***************************************************************************)
EXTENDS TaskQueuesProofs, FiniteSetTheorems, FunctionTheorems

(* The places in a list of tasks of the tasks of p. *)
Own(l, p) == {i \in DOMAIN l : l[i].progr = p}

(* The tasks that num_bg_tasks is to count. *)
Counted(s, q) ==
  Len(s.tq[q].bg)
    + (IF s.tq[q].player = NOTHING THEN 0 ELSE Cardinality(Own(s.waiting, s.tq[q].player)))

QueuesOK(s) ==
  /\ \A q, r \in Live(s) :
       s.tq[q].player = s.tq[r].player => q = r \/ s.tq[q].player = NOTHING
  /\ \A q \in Live(s) :
       s.tq[q].player = NOTHING => s.tq[q].bg = <<>> /\ ~s.tq[q].connected

TasksOK(s) ==
  /\ \A q \in Live(s) : s.tq[q].num_bg = Counted(s, q)
  /\ \A q \in Live(s) : \A i \in DOMAIN s.tq[q].bg : s.tq[q].bg[i].progr = s.tq[q].player
  /\ \A i \in DOMAIN s.waiting :
       HasTQueue(s, s.waiting[i].progr) /\ s.waiting[i].progr # NOTHING

(* A connection's player is its own number until it logs in. *)
ConnectionsOK(s) ==
  /\ \A h \in ConnIds : s.handles[h].open =>
       /\ s.handles[h].queue \in Live(s)
       /\ s.tq[s.handles[h].queue].connected
       /\ s.tq[s.handles[h].queue].player = s.handles[h].player
       /\ s.handles[h].player = h \/ s.handles[h].player >= 0
  /\ \A q \in Live(s) : s.tq[q].connected =>
       \E h \in ConnIds : s.handles[h].open /\ s.handles[h].queue = q
  /\ \A h, k \in ConnIds :
       s.handles[h].open /\ s.handles[k].open /\ s.handles[h].queue = s.handles[k].queue
         => h = k

OwnersOK(s) == ~s.panic /\ QueuesOK(s) /\ TasksOK(s) /\ ConnectionsOK(s)

(* The heaps s and t differ in nothing that OwnersOK speaks of. *)
SameOwner(r, u) ==
  /\ u.player = r.player /\ u.connected = r.connected
  /\ u.bg = r.bg /\ u.num_bg = r.num_bg
SameConnections(s, t) ==
  \A h \in ConnIds : /\ t.handles[h].open = s.handles[h].open
                     /\ t.handles[h].player = s.handles[h].player
                     /\ t.handles[h].queue = s.handles[h].queue
SameOwners(s, t) ==
  /\ Live(t) = Live(s)
  /\ \A q \in QueueIds : SameOwner(s.tq[q], t.tq[q])
  /\ t.waiting = s.waiting /\ t.panic = s.panic
  /\ SameConnections(s, t)

(* The queues that live in s live in t, and belong to the same players; no
   connection is opened. *)
KeepsPlayers(s, t) ==
  /\ \A q \in Live(s) : q \in Live(t) /\ t.tq[q].player = s.tq[q].player
  /\ \A h \in ConnIds : t.handles[h].open => s.handles[h].open

(* find_shandle() finds a connection for the queue, if it is connected. *)
Reachable(s, q) == s.tq[q].connected => HasHandle(s, s.tq[q].player)

-----------------------------------------------------------------------------
(* Lists and counting *)

(* InsertAt() adds the element. *)
LEMMA InsertAtElems ==
  ASSUME NEW S, NEW l \in Seq(S), NEW i \in 1 .. Len(l) + 1, NEW e \in S
  PROVE  Elems(InsertAt(l, i, e)) = Elems(l) \cup {e}
<1> DEFINE m == InsertAt(l, i, e)
<1>1. /\ DOMAIN m = 1 .. Len(l) + 1 /\ DOMAIN l = 1 .. Len(l) /\ Len(l) \in Nat
      /\ \A j \in 1 .. Len(l) + 1 :
           m[j] = IF j < i THEN l[j] ELSE IF j = i THEN e ELSE l[j - 1]
  BY DEF InsertAt
<1> HIDE DEF m
<1>2. \A j \in DOMAIN m : m[j] \in Elems(l) \cup {e}
  BY <1>1 DEF Elems
<1>3. \A j \in DOMAIN l : l[j] \in Elems(m)
  <2> TAKE j \in DOMAIN l
  <2>1. CASE j < i BY <1>1, <2>1 DEF Elems
  <2>2. CASE j >= i
    <3>1. j + 1 \in DOMAIN m /\ m[j + 1] = l[j]
      BY <1>1, <2>2
    <3> QED BY <3>1 DEF Elems
  <2> QED BY <1>1, <2>1, <2>2
<1>4. e \in Elems(m)
  BY <1>1 DEF Elems
<1> QED BY <1>2, <1>3, <1>4 DEF Elems, m

(* The tasks of a player in a list are finitely many. *)
LEMMA OwnFinite ==
  ASSUME NEW S, NEW l \in Seq(S), NEW p
  PROVE  IsFiniteSet(Own(l, p)) /\ Cardinality(Own(l, p)) \in Nat
<1>1. IsFiniteSet(DOMAIN l)
  BY FS_Interval
<1>2. IsFiniteSet(Own(l, p))
  BY <1>1, FS_Subset DEF Own
<1> QED BY <1>2, FS_CardinalityType

(* InsertAt() adds one to the tasks of the task's owner. *)
LEMMA OwnInsertAt ==
  ASSUME NEW S, NEW l \in Seq(S), NEW i \in 1 .. Len(l) + 1, NEW e \in S, NEW p
  PROVE  Cardinality(Own(InsertAt(l, i, e), p))
           = Cardinality(Own(l, p)) + IF e.progr = p THEN 1 ELSE 0
<1> DEFINE m == InsertAt(l, i, e)
           A == Own(l, p)
           B == Own(m, p) \ {i}
           f == [j \in A |-> IF j < i THEN j ELSE j + 1]
<1>1. /\ DOMAIN m = 1 .. Len(l) + 1 /\ DOMAIN l = 1 .. Len(l) /\ Len(l) \in Nat
      /\ \A j \in 1 .. Len(l) + 1 :
           m[j] = IF j < i THEN l[j] ELSE IF j = i THEN e ELSE l[j - 1]
  BY DEF InsertAt
<1>2. IsFiniteSet(A) /\ Cardinality(A) \in Nat
  BY OwnFinite
<1> HIDE DEF m
<1>3. f \in Bijection(A, B)
  <2>1. \A j \in A : f[j] \in B
    BY <1>1 DEF Own
  <2>2. \A j, k \in A : f[j] = f[k] => j = k
    BY <1>1 DEF Own
  <2>3. \A k \in B : \E j \in A : f[j] = k
    <3> TAKE k \in B
    <3>1. CASE k < i
      <4>1. k \in A /\ f[k] = k
        BY <1>1, <3>1 DEF Own
      <4> QED BY <4>1
    <3>2. CASE k > i
      <4>1. k - 1 \in A /\ f[k - 1] = k
        BY <1>1, <3>2 DEF Own
      <4> QED BY <4>1
    <3>3. k \in Nat /\ k # i /\ i \in Nat
      BY <1>1 DEF Own
    <3> QED BY <3>1, <3>2, <3>3
  <2> HIDE DEF f, A, B
  <2>4. f \in [A -> B]
    BY <2>1 DEF f
  <2> QED BY <2>2, <2>3, <2>4, Fun_IsBij
<1>4. IsFiniteSet(B) /\ Cardinality(B) = Cardinality(A)
  <2>1. ExistsBijection(A, B)
    BY <1>3 DEF ExistsBijection
  <2> HIDE DEF A, B
  <2> QED BY <1>2, <2>1, FS_Bijection
<1>5. i \in Own(m, p) <=> e.progr = p
  BY <1>1 DEF Own
<1>6. CASE e.progr = p
  <2>1. Own(m, p) = B \cup {i} /\ i \notin B
    BY <1>5, <1>6
  <2> HIDE DEF B
  <2>2. Cardinality(Own(m, p)) = Cardinality(B) + 1
    BY <1>4, <2>1, FS_AddElement
  <2> QED BY <1>4, <1>6, <2>2 DEF m
<1>7. CASE e.progr # p
  <2>1. Own(m, p) = B
    BY <1>5, <1>7
  <2> HIDE DEF A, B
  <2>2. Cardinality(Own(m, p)) = Cardinality(A)
    BY <1>4, <2>1
  <2> QED BY <1>2, <1>7, <2>2 DEF A, m
<1> QED BY <1>6, <1>7

(* A list is what InsertAt() makes of it when the element it lacks comes back. *)
LEMMA RemoveInsert ==
  ASSUME NEW S, NEW l \in Seq(S), NEW i \in DOMAIN l
  PROVE  /\ RemoveAt(l, i) \in Seq(S)
         /\ i \in 1 .. Len(RemoveAt(l, i)) + 1
         /\ InsertAt(RemoveAt(l, i), i, l[i]) = l
         /\ \A j \in DOMAIN RemoveAt(l, i) : \E k \in DOMAIN l : RemoveAt(l, i)[j] = l[k]
  BY DEF RemoveAt, InsertAt

(* RemoveAt() takes one from the tasks of the task's owner. *)
LEMMA OwnRemoveAt ==
  ASSUME NEW S, NEW l \in Seq(S), NEW i \in DOMAIN l, NEW p
  PROVE  Cardinality(Own(RemoveAt(l, i), p))
           = Cardinality(Own(l, p)) - IF l[i].progr = p THEN 1 ELSE 0
<1> DEFINE m == RemoveAt(l, i)
<1>1. /\ m \in Seq(S) /\ i \in 1 .. Len(m) + 1 /\ InsertAt(m, i, l[i]) = l
  BY RemoveInsert
<1>2. l[i] \in S
  OBVIOUS
<1>3. Cardinality(Own(m, p)) \in Nat
  BY <1>1, OwnFinite
<1> HIDE DEF m
<1>4. Cardinality(Own(l, p)) = Cardinality(Own(m, p)) + IF l[i].progr = p THEN 1 ELSE 0
  BY <1>1, <1>2, OwnInsertAt
<1> QED BY <1>3, <1>4 DEF m

-----------------------------------------------------------------------------
(* Changes that are no owner's business *)

(* SameOwners is transitive. *)
LEMMA SameOwnersChain ==
  ASSUME NEW s, NEW t, NEW u, SameOwners(s, t), SameOwners(t, u)
  PROVE  SameOwners(s, u)
  BY DEF SameOwners, SameOwner, SameConnections

(* A heap agrees with itself. *)
LEMMA SameOwnersItself ==
  ASSUME NEW s
  PROVE  SameOwners(s, s)
  BY DEF SameOwners, SameOwner, SameConnections

(* The live queues have addresses. *)
LEMMA LiveType ==
  ASSUME NEW s, HeapOK(s)
  PROVE  Live(s) \subseteq QueueIds
  BY DEF Live, Elems, HeapOK, HeapType

(* What a player has, in heaps with the same owners, is the same. *)
LEMMA SameOwnersSameFinds ==
  ASSUME NEW s, HeapOK(s), NEW t, SameOwners(s, t)
  PROVE  /\ \A p : HasTQueue(t, p) <=> HasTQueue(s, p)
         /\ \A p : HasHandle(t, p) <=> HasHandle(s, p)
         /\ \A q \in Live(s) : Reachable(s, q) => Reachable(t, q)
         /\ KeepsPlayers(s, t)
<1>1. \A q \in Live(s) : q \in QueueIds
  BY LiveType
<1>2. \A p : HasHandle(t, p) <=> HasHandle(s, p)
  BY DEF HasHandle, SameOwners, SameConnections
<1>3. \A q \in Live(s) : Reachable(s, q) => Reachable(t, q)
  BY <1>1, <1>2 DEF Reachable, SameOwners, SameOwner
<1> QED BY <1>1, <1>2, <1>3 DEF HasTQueue, KeepsPlayers, SameOwners, SameOwner,
           SameConnections

(* OwnersOK looks at nothing else. *)
LEMMA SameOwnersOK ==
  ASSUME NEW s, HeapOK(s), OwnersOK(s), NEW t, SameOwners(s, t)
  PROVE  OwnersOK(t)
<1>1. \A q \in Live(s) : q \in QueueIds
  BY LiveType
<1>2. \A q \in Live(s) : SameOwner(s.tq[q], t.tq[q])
  BY <1>1 DEF SameOwners
<1>3. QueuesOK(t)
  BY <1>2 DEF OwnersOK, QueuesOK, SameOwners, SameOwner
<1>4. TasksOK(t)
  <2>1. \A q \in Live(s) : Counted(t, q) = Counted(s, q)
    BY <1>2 DEF Counted, SameOwners, SameOwner
  <2>2. \A p : HasTQueue(t, p) <=> HasTQueue(s, p)
    BY SameOwnersSameFinds
  <2> QED BY <1>2, <2>1, <2>2 DEF OwnersOK, TasksOK, SameOwners, SameOwner
<1>5. ConnectionsOK(t)
  <2>1. \A h \in ConnIds : /\ t.handles[h].open = s.handles[h].open
                           /\ t.handles[h].player = s.handles[h].player
                           /\ t.handles[h].queue = s.handles[h].queue
    BY DEF SameOwners, SameConnections
  <2>2. Live(t) = Live(s)
    BY DEF SameOwners
  <2> QED BY <1>2, <2>1, <2>2 DEF OwnersOK, ConnectionsOK, SameOwner
<1> QED BY <1>3, <1>4, <1>5 DEF OwnersOK, SameOwners

(* In such a heap every connected queue is reachable. *)
LEMMA OwnersReachable ==
  ASSUME NEW s, OwnersOK(s), NEW q \in Live(s)
  PROVE  Reachable(s, q)
  BY DEF OwnersOK, ConnectionsOK, Reachable, HasHandle

(* Replacing a queue by one with the same owner. *)
LEMMA SetQueueOwners ==
  ASSUME NEW s, HeapOK(s), NEW q \in QueueIds, NEW r, SameOwner(s.tq[q], r)
  PROVE  SameOwners(s, [s EXCEPT !.tq[q] = r])
<1> DEFINE t == [s EXCEPT !.tq[q] = r]
<1>1. /\ t.active = s.active /\ t.idle = s.idle /\ t.waiting = s.waiting
      /\ t.handles = s.handles /\ t.panic = s.panic /\ t.tq = [s.tq EXCEPT ![q] = r]
  BY DEF HeapOK, HeapType
<1>2. \A k \in QueueIds : t.tq[k] = IF k = q THEN r ELSE s.tq[k]
  BY <1>1 DEF HeapOK, HeapType
<1> HIDE DEF t
<1>3. SameOwners(s, t)
  BY <1>1, <1>2 DEF SameOwners, SameOwner, SameConnections, Live
<1> QED BY <1>3 DEF t

(* Fields of a queue that say nothing of its owner. *)
LEMMA SetFieldOwners ==
  ASSUME NEW s, HeapOK(s), NEW q \in QueueIds, NEW v
  PROVE  /\ SameOwners(s, [s EXCEPT !.tq[q].suspended = v])
         /\ SameOwners(s, [s EXCEPT !.tq[q].reading = v])
         /\ SameOwners(s, [s EXCEPT !.tq[q].hold = v])
         /\ SameOwners(s, [s EXCEPT !.tq[q].no_oob = v])
         /\ SameOwners(s, [s EXCEPT !.tq[q].usage = v])
<1> DEFINE r1 == [s.tq[q] EXCEPT !.suspended = v]
           r2 == [s.tq[q] EXCEPT !.reading = v]
           r3 == [s.tq[q] EXCEPT !.hold = v]
           r4 == [s.tq[q] EXCEPT !.no_oob = v]
           r5 == [s.tq[q] EXCEPT !.usage = v]
<1>1. s.tq[q] \in TQueue
  BY DEF HeapOK, HeapType
<1>2. /\ SameOwner(s.tq[q], r1) /\ SameOwner(s.tq[q], r2) /\ SameOwner(s.tq[q], r3)
      /\ SameOwner(s.tq[q], r4) /\ SameOwner(s.tq[q], r5)
  BY <1>1 DEF SameOwner, TQueue
<1>3. /\ [s EXCEPT !.tq[q].suspended = v] = [s EXCEPT !.tq[q] = r1]
      /\ [s EXCEPT !.tq[q].reading = v] = [s EXCEPT !.tq[q] = r2]
      /\ [s EXCEPT !.tq[q].hold = v] = [s EXCEPT !.tq[q] = r3]
      /\ [s EXCEPT !.tq[q].no_oob = v] = [s EXCEPT !.tq[q] = r4]
      /\ [s EXCEPT !.tq[q].usage = v] = [s EXCEPT !.tq[q] = r5]
  OBVIOUS
<1> HIDE DEF r1, r2, r3, r4, r5
<1> QED BY ZenonT(40), <1>2, <1>3, SetQueueOwners

(* ensure_usage() moves a live queue between the lists. *)
LEMMA EnsureUsageOwners ==
  ASSUME NEW s, HeapOK(s), NEW q \in Live(s)
  PROVE  SameOwners(s, ensure_usage(s, q))
<1> DEFINE t == ensure_usage(s, q)
<1>0. q \in QueueIds
  BY LiveType
<1>1. CASE s.tq[q].usage # NO_USAGE
  BY <1>1, SameOwnersItself DEF ensure_usage
<1>2. CASE s.tq[q].usage = NO_USAGE
  <2> DEFINE n == IF s.active = <<>> THEN 0 ELSE s.tq[s.active[1]].usage
             r == [s.tq[q] EXCEPT !.usage = n]
             u == [s EXCEPT !.tq[q] = r, !.idle = s.idle \ {q}]
  <2>1. t = activate_tqueue(u, q)
    BY <1>2 DEF ensure_usage
  <2>2. /\ q \in s.idle /\ q \notin Elems(s.active)
    BY <1>2 DEF Live, Elems, HeapOK
  <2>3. Preserves(s, t) /\ HeapOK(t)
    BY <1>0, EnsureUsage DEF Preserves
  <2>4. n \in Nat /\ n # NO_USAGE
    <3>1. CASE s.active = <<>> BY <3>1 DEF NO_USAGE
    <3>2. CASE s.active # <<>>
      <4>1. 1 \in DOMAIN s.active /\ s.active[1] \in QueueIds
        BY <3>2 DEF HeapOK, HeapType
      <4>2. s.tq[s.active[1]].usage # NO_USAGE
        BY <4>1 DEF HeapOK
      <4>3. s.tq[s.active[1]] \in TQueue
        BY <4>1 DEF HeapOK, HeapType
      <4> QED BY <3>2, <4>2, <4>3 DEF TQueue
    <3> QED BY <3>1, <3>2
  <2>5. s.tq[q] \in TQueue
    BY <1>0 DEF HeapOK, HeapType
  <2>6. r \in TQueue /\ r.usage = n /\ SameOwner(s.tq[q], r)
    BY <2>4, <2>5 DEF TQueue, SameOwner
  <2> HIDE DEF n, r
  <2>7. /\ u \in HeapType /\ u.active = s.active /\ u.idle = s.idle \ {q}
        /\ u.tq = [s.tq EXCEPT ![q] = r] /\ u.panic = s.panic
        /\ u.waiting = s.waiting /\ u.handles = s.handles
    BY <2>6 DEF HeapOK, HeapType
  <2> HIDE DEF u
  <2>8. \A k \in QueueIds : u.tq[k] = IF k = q THEN r ELSE s.tq[k]
    BY <1>0, <2>7 DEF HeapOK, HeapType
  <2>9. HeapOK(u)
    <3>1. \A i \in DOMAIN s.active : s.active[i] \in QueueIds /\ s.active[i] # q
      BY <2>2 DEF Elems, HeapOK, HeapType
    <3>2. \A k \in s.idle : k \in QueueIds
      BY DEF HeapOK, HeapType
    <3> QED BY <2>7, <2>8, <3>1, <3>2 DEF HeapOK
  <2>10. /\ t = [u EXCEPT !.active = t.active]
         /\ \E i \in 1 .. Len(u.active) + 1 : t.active = InsertAt(u.active, i, q)
    <3>1. q \notin u.idle /\ q \notin Elems(u.active) /\ u.tq[q].usage # NO_USAGE
      BY <1>0, <2>2, <2>4, <2>6, <2>7, <2>8
    <3> QED BY <1>0, <2>1, <2>9, <3>1, ActivateTQueue
  <2> HIDE DEF t
  <2>11. /\ t.tq = u.tq /\ t.idle = u.idle /\ t.waiting = u.waiting
         /\ t.handles = u.handles /\ t.panic = u.panic
    BY <2>7, <2>10 DEF HeapType
  <2>12. Elems(t.active) = Elems(s.active) \cup {q}
    <3>1. u.active \in Seq(QueueIds)
      BY <2>7 DEF HeapType
    <3> QED BY <1>0, <2>7, <2>10, <3>1, InsertAtElems
  <2>13. Live(t) = Live(s)
    BY <2>2, <2>7, <2>11, <2>12 DEF Live
  <2>14. SameOwners(s, t)
    BY <2>6, <2>7, <2>8, <2>11, <2>13 DEF SameOwners, SameOwner, SameConnections
  <2> QED BY <2>14 DEF t
<1> QED BY <1>1, <1>2

(* server_set_paused() finds the connection that it dereferences. *)
LEMMA SetPausedOwners ==
  ASSUME NEW s, HeapOK(s), NEW p, HasHandle(s, p), NEW b \in BOOLEAN
  PROVE  SameOwners(s, server_set_paused(s, p, b))
<1> DEFINE h == find_shandle(s, p)
           g == [s.handles[h] EXCEPT !.paused = b]
           t == [s EXCEPT !.handles[h] = g]
<1>1. server_set_paused(s, p, b) = t
  BY DEF server_set_paused
<1>2. h \in ConnIds
  BY FindShandleOpen
<1> HIDE DEF h
<1>3. s.handles[h] \in Handle
  BY <1>2 DEF HeapOK, HeapType
<1>4. /\ g.open = s.handles[h].open /\ g.player = s.handles[h].player
      /\ g.queue = s.handles[h].queue
  BY <1>3 DEF Handle
<1> HIDE DEF g
<1>5. /\ t.active = s.active /\ t.idle = s.idle /\ t.waiting = s.waiting
      /\ t.panic = s.panic /\ t.tq = s.tq /\ t.handles = [s.handles EXCEPT ![h] = g]
  BY DEF HeapOK, HeapType
<1> HIDE DEF t
<1>6. \A k \in ConnIds : t.handles[k] = IF k = h THEN g ELSE s.handles[k]
  BY <1>5 DEF HeapOK, HeapType
<1>7. SameOwners(s, t)
  BY <1>4, <1>5, <1>6 DEF SameOwners, SameOwner, SameConnections, Live
<1> QED BY <1>1, <1>7

(* Pausing or resuming a queue's connection, with the queue's mark. *)
LEMMA SetFlowOwners ==
  ASSUME NEW s, HeapOK(s), NEW q \in QueueIds, HasHandle(s, s.tq[q].player),
         NEW b \in BOOLEAN
  PROVE  SameOwners(s, [server_set_paused(s, s.tq[q].player, b) EXCEPT !.tq[q].suspended = b])
<1> DEFINE t == server_set_paused(s, s.tq[q].player, b)
           u == [t EXCEPT !.tq[q].suspended = b]
<1>1. SameOwners(s, t)
  BY SetPausedOwners
<1>2. HeapOK(t)
  BY SetPaused DEF Preserves
<1> HIDE DEF t
<1>3. SameOwners(t, u)
  BY <1>2, SetFieldOwners
<1> HIDE DEF u
<1>4. SameOwners(s, u)
  BY <1>1, <1>3, SameOwnersChain
<1> QED BY <1>4 DEF t, u

(* task_suspend_input() and the resumption of input. *)
LEMMA SuspendInputOwners ==
  ASSUME NEW s, HeapOK(s), NEW q \in QueueIds, Reachable(s, q)
  PROVE  SameOwners(s, task_suspend_input(s, q))
<1>1. CASE s.tq[q].connected
  <2>1. SameOwners(s, [server_set_paused(s, s.tq[q].player, TRUE)
                         EXCEPT !.tq[q].suspended = TRUE])
    BY <1>1, SetFlowOwners DEF Reachable
  <2> QED BY <2>1, SameOwnersItself DEF task_suspend_input
<1>2. CASE ~s.tq[q].connected
  BY <1>2, SameOwnersItself DEF task_suspend_input
<1> QED BY <1>1, <1>2

(* resume_if_low() moves no owner. *)
LEMMA ResumeIfLowOwners ==
  ASSUME NEW s, HeapOK(s), NEW q \in QueueIds, Reachable(s, q)
  PROVE  SameOwners(s, resume_if_low(s, q))
<1>1. CASE s.tq[q].connected
  <2>1. SameOwners(s, [server_set_paused(s, s.tq[q].player, FALSE)
                         EXCEPT !.tq[q].suspended = FALSE])
    BY <1>1, SetFlowOwners DEF Reachable
  <2> QED BY <2>1, SameOwnersItself DEF resume_if_low
<1>2. CASE ~s.tq[q].connected
  BY <1>2, SameOwnersItself DEF resume_if_low
<1> QED BY <1>1, <1>2

(* A queue's input is nobody else's business. *)
LEMMA SetInputOwners ==
  ASSUME NEW s, HeapOK(s), NEW q \in QueueIds, NEW l, NEW n
  PROVE  SameOwners(s, [s EXCEPT !.tq[q].input = l, !.tq[q].len = n])
<1> DEFINE r == [s.tq[q] EXCEPT !.input = l, !.len = n]
<1>1. s.tq[q] \in TQueue
  BY DEF HeapOK, HeapType
<1>2. SameOwner(s.tq[q], r)
  BY <1>1 DEF SameOwner, TQueue
<1>3. [s EXCEPT !.tq[q].input = l, !.tq[q].len = n] = [s EXCEPT !.tq[q] = r]
  BY DEF HeapOK, HeapType
<1> HIDE DEF r
<1> QED BY <1>2, <1>3, SetQueueOwners

(* enqueue_input_task() *)
LEMMA EnqueueInputOwners ==
  ASSUME NEW s, HeapOK(s), NEW q \in Live(s), Reachable(s, q), NEW line \in LineKinds,
         NEW at_front \in BOOLEAN
  PROVE  SameOwners(s, enqueue_input_task(s, q, line, at_front))
<1> DEFINE l == IF at_front THEN InsertAt(s.tq[q].input, 1, line)
                ELSE Append(s.tq[q].input, line)
           n == s.tq[q].len + Length(line)
           s1 == [s EXCEPT !.tq[q].input = l, !.tq[q].len = n]
           C == ~s1.tq[q].hold \/ s1.tq[q].reading # NoTask
                  \/ (~s1.tq[q].no_oob /\ line = "oob")
           s2 == IF C THEN ensure_usage(s1, q) ELSE s1
<1>0. q \in QueueIds
  BY LiveType
<1>1. l \in Seq(LineKinds) /\ n \in Int
  <2>1. s.tq[q] \in TQueue BY <1>0 DEF HeapOK, HeapType
  <2>2. s.tq[q].input \in Seq(LineKinds) /\ s.tq[q].len \in Int
    BY <2>1 DEF TQueue
  <2>3. InsertAt(s.tq[q].input, 1, line) \in Seq(LineKinds)
    <3>1. 1 \in 1 .. Len(s.tq[q].input) + 1 BY <2>2
    <3> QED BY <2>2, <3>1, InsertAtType
  <2> QED BY <2>2, <2>3, LengthType
<1>2. enqueue_input_task(s, q, line, at_front)
        = IF s2.tq[q].len > INPUT_HIWAT THEN task_suspend_input(s2, q) ELSE s2
  BY DEF enqueue_input_task
<1> HIDE DEF l, n
<1>3. SameOwners(s, s1) /\ HeapOK(s1)
  BY <1>0, <1>1, SetInput, SetInputOwners DEF Preserves
<1> HIDE DEF s1, C
<1>4. q \in Live(s1) /\ Reachable(s1, q)
  BY <1>3, SameOwnersSameFinds DEF SameOwners
<1>5. SameOwners(s1, s2) /\ HeapOK(s2)
  <2>1. SameOwners(s1, ensure_usage(s1, q)) /\ HeapOK(ensure_usage(s1, q))
    BY <1>0, <1>3, <1>4, EnsureUsage, EnsureUsageOwners DEF Preserves
  <2> QED BY <1>3, <2>1, SameOwnersItself
<1> HIDE DEF s2
<1>6. Reachable(s2, q)
  BY <1>3, <1>4, <1>5, SameOwnersSameFinds
<1>7. SameOwners(s2, s2) /\ SameOwners(s2, task_suspend_input(s2, q))
  BY <1>0, <1>5, <1>6, SuspendInputOwners, SameOwnersItself
<1> QED BY <1>2, <1>3, <1>5, <1>7, SameOwnersChain

(* dequeue_input_task(), dequeueing everything, and a line of input that arrives. *)
LEMMA DequeueInputOwners ==
  ASSUME NEW s, HeapOK(s), NEW q \in Live(s), Reachable(s, q), NEW how,
         HasInput(s.tq[q], how)
  PROVE  SameOwners(s, dequeue_input_task(s, q, how))
<1> DEFINE i == InputIndex(s.tq[q], how)
           l == RemoveAt(s.tq[q].input, i)
           n == s.tq[q].len - Length(s.tq[q].input[i])
           t == [s EXCEPT !.tq[q].input = l, !.tq[q].len = n]
<1>0. q \in QueueIds
  BY LiveType
<1>1. s.tq[q].input \in Seq(LineKinds) /\ s.tq[q].len \in Int
  <2>1. s.tq[q] \in TQueue BY <1>0 DEF HeapOK, HeapType
  <2> QED BY <2>1 DEF TQueue
<1>2. i \in DOMAIN s.tq[q].input
  BY <1>0, InputIndexIn
<1>3. l \in Seq(LineKinds) /\ n \in Int
  BY <1>1, <1>2, RemoveAtType, LengthType
<1>4. dequeue_input_task(s, q, how) = resume_if_low(t, q)
  BY DEF dequeue_input_task
<1> HIDE DEF l, n
<1>5. HeapOK(t) /\ SameOwners(s, t)
  BY <1>0, <1>3, SetInput, SetInputOwners DEF Preserves
<1> HIDE DEF t
<1>6. Reachable(t, q)
  BY <1>5, SameOwnersSameFinds
<1>7. SameOwners(t, resume_if_low(t, q))
  BY <1>0, <1>5, <1>6, ResumeIfLowOwners
<1> QED BY <1>4, <1>5, <1>7, SameOwnersChain

(* dequeue_all_input() moves no owner. *)
LEMMA DequeueAllOwners ==
  ASSUME NEW s, HeapOK(s), NEW q \in Live(s), Reachable(s, q)
  PROVE  SameOwners(s, dequeue_all_input(s, q))
<1> DEFINE t == [s EXCEPT !.tq[q].input = <<>>, !.tq[q].len = 0]
<1>0. q \in QueueIds /\ <<>> \in Seq(LineKinds) /\ 0 \in Int
  BY LiveType
<1>1. dequeue_all_input(s, q) = IF s.tq[q].input = <<>> THEN s ELSE resume_if_low(t, q)
  BY DEF dequeue_all_input
<1>2. HeapOK(t) /\ SameOwners(s, t)
  BY <1>0, SetInput, SetInputOwners DEF Preserves
<1> HIDE DEF t
<1>3. Reachable(t, q)
  BY <1>2, SameOwnersSameFinds
<1>4. SameOwners(t, resume_if_low(t, q))
  BY <1>0, <1>2, <1>3, ResumeIfLowOwners
<1> QED BY <1>1, <1>2, <1>4, SameOwnersChain, SameOwnersItself

(* new_input_task() moves no owner. *)
LEMMA NewInputOwners ==
  ASSUME NEW s, HeapOK(s), NEW q \in Live(s), Reachable(s, q), NEW line \in LineKinds
  PROVE  SameOwners(s, new_input_task(s, q, line))
  BY EnqueueInputOwners, DequeueAllOwners DEF new_input_task

-----------------------------------------------------------------------------
(* New queues *)

(* find_tqueue() allocates a queue for a player that has none. *)
LEMMA FindTQueueNew ==
  ASSUME NEW s, HeapOK(s), NEW p \in Int, ~HasTQueue(s, p), HasRoomFor(s, p)
  PROVE  LET t == find_tqueue(s, p)
             u == TQueueOf(t, p)
         IN /\ u \in QueueIds \ Live(s) /\ Live(t) = Live(s) \cup {u}
            /\ t.tq = [s.tq EXCEPT ![u] = FreshQueue(p)]
            /\ t.active = s.active /\ t.waiting = s.waiting
            /\ t.handles = s.handles /\ t.panic = s.panic
<1> DEFINE t == find_tqueue(s, p)
           u == Unused(s)
<1>1. u \in QueueIds /\ u \notin Live(s)
  <2>1. Live(s) \subseteq QueueIds
    BY LiveType
  <2> QED BY <2>1 DEF HasRoomFor, Unused
<1> HIDE DEF u
<1>2. t = [s EXCEPT !.tq[u] = FreshQueue(p), !.idle = s.idle \cup {u}]
  BY DEF find_tqueue, u
<1>3. /\ t.tq = [s.tq EXCEPT ![u] = FreshQueue(p)] /\ t.idle = s.idle \cup {u}
      /\ t.active = s.active /\ t.waiting = s.waiting
      /\ t.handles = s.handles /\ t.panic = s.panic
  <2> DEFINE f == FreshQueue(p)
  <2> HIDE DEF f
  <2>1. t = [s EXCEPT !.tq[u] = f, !.idle = s.idle \cup {u}]
    BY <1>2 DEF f
  <2> HIDE DEF t
  <2> QED BY <2>1 DEF HeapOK, HeapType, f
<1>4. HeapOK(t) /\ HasTQueue(t, p)
  BY FindTQueue DEF Preserves
<1> HIDE DEF t
<1>5. Live(t) = Live(s) \cup {u}
  BY <1>3 DEF Live
<1>6. \A k \in Live(s) : t.tq[k].player # p
  <2>1. \A k \in Live(s) : k \in QueueIds /\ k # u
    BY <1>1, LiveType
  <2>2. \A k \in Live(s) : t.tq[k] = s.tq[k]
    BY <1>3, <2>1 DEF HeapOK, HeapType
  <2> QED BY <2>2 DEF HasTQueue
<1>7. TQueueOf(t, p) = u
  BY <1>4, <1>5, <1>6, TQueueOfLive
<1> QED BY <1>1, <1>3, <1>5, <1>7 DEF t

(* The queue that find_tqueue() returns has an owner, and takes nobody's. *)
LEMMA FindTQueueOwners ==
  ASSUME NEW s, HeapOK(s), OwnersOK(s), NEW p \in Int, HasRoomFor(s, p)
  PROVE  LET t == find_tqueue(s, p)
         IN /\ HeapOK(t) /\ OwnersOK(t) /\ KeepsPlayers(s, t)
            /\ TQueueOf(t, p) \in Live(t) /\ t.tq[TQueueOf(t, p)].player = p
            /\ t.waiting = s.waiting /\ t.handles = s.handles
<1> DEFINE t == find_tqueue(s, p)
<1>1. HeapOK(t) /\ HasTQueue(t, p) /\ t.waiting = s.waiting
  BY FindTQueue DEF Preserves
<1>2. TQueueOf(t, p) \in Live(t) /\ t.tq[TQueueOf(t, p)].player = p
  BY <1>1, TQueueOfLive
<1>3. CASE HasTQueue(s, p)
  BY <1>1, <1>2, <1>3 DEF find_tqueue, KeepsPlayers
<1>4. CASE ~HasTQueue(s, p)
  <2> DEFINE u == TQueueOf(t, p)
  <2>1. /\ u \in QueueIds \ Live(s) /\ Live(t) = Live(s) \cup {u}
        /\ t.tq = [s.tq EXCEPT ![u] = FreshQueue(p)]
        /\ t.active = s.active /\ t.waiting = s.waiting
        /\ t.handles = s.handles /\ t.panic = s.panic
    BY <1>4, FindTQueueNew
  <2> HIDE DEF u, t
  <2>2. \A k \in Live(s) : k \in QueueIds /\ k # u /\ t.tq[k] = s.tq[k]
    <3>1. \A k \in Live(s) : k \in QueueIds /\ k # u
      BY <2>1, LiveType
    <3> QED BY <2>1, <3>1 DEF HeapOK, HeapType
  <2>3. /\ t.tq[u].player = p /\ ~t.tq[u].connected
        /\ t.tq[u].bg = <<>> /\ t.tq[u].num_bg = 0
    BY <2>1 DEF FreshQueue, HeapOK, HeapType
  <2>4. QueuesOK(t)
    <3>1. \A k \in Live(s) : t.tq[k].player # p
      BY <1>4, <2>2 DEF HasTQueue
    <3> QED BY <2>1, <2>2, <2>3, <3>1 DEF OwnersOK, QueuesOK
  <2>5. TasksOK(t)
    <3>1. \A k \in Live(s) : Counted(t, k) = Counted(s, k)
      BY <2>1, <2>2 DEF Counted
    <3>2. Counted(t, u) = 0
      <4>1. \A i \in DOMAIN s.waiting : s.waiting[i].progr # p
        BY <1>4 DEF OwnersOK, TasksOK
      <4>2. Own(t.waiting, p) = {}
        BY <2>1, <4>1 DEF Own
      <4> QED BY <2>3, <4>2, FS_EmptySet DEF Counted
    <3>3. \A k : HasTQueue(s, k) => HasTQueue(t, k)
      BY <2>1, <2>2 DEF HasTQueue
    <3> QED BY <2>1, <2>2, <2>3, <3>1, <3>2, <3>3 DEF OwnersOK, TasksOK
  <2>6. ConnectionsOK(t)
    BY <2>1, <2>2, <2>3 DEF OwnersOK, ConnectionsOK
  <2>7. OwnersOK(t)
    BY <2>1, <2>4, <2>5, <2>6 DEF OwnersOK
  <2>8. KeepsPlayers(s, t)
    BY <2>1, <2>2 DEF KeepsPlayers
  <2> QED BY <1>1, <1>2, <2>1, <2>7, <2>8 DEF t
<1> QED BY <1>3, <1>4

-----------------------------------------------------------------------------
(* Background tasks *)

(* From s to t only the tasks of one player change. *)
TasksChange(s, t, q) ==
  /\ Live(t) = Live(s)
  /\ \A k \in QueueIds \ {q} : SameOwner(s.tq[k], t.tq[k])
  /\ t.tq[q].player = s.tq[q].player /\ t.tq[q].connected = s.tq[q].connected
  /\ t.panic = s.panic /\ SameConnections(s, t)

(* A change of tasks that keeps the accounts of every queue keeps the agreement. *)
LEMMA TasksChangeOwners ==
  ASSUME NEW s, HeapOK(s), OwnersOK(s), NEW q \in Live(s), s.tq[q].player # NOTHING,
         NEW t, TasksChange(s, t, q),
         t.tq[q].num_bg = Counted(t, q),
         \A i \in DOMAIN t.tq[q].bg : t.tq[q].bg[i].progr = s.tq[q].player,
         \A p : p # s.tq[q].player =>
                  Cardinality(Own(t.waiting, p)) = Cardinality(Own(s.waiting, p)),
         \A i \in DOMAIN t.waiting : \/ t.waiting[i].progr = s.tq[q].player
                                     \/ \E j \in DOMAIN s.waiting :
                                          t.waiting[i] = s.waiting[j]
  PROVE  OwnersOK(t) /\ KeepsPlayers(s, t)
<1>1. \A k \in Live(s) : k \in QueueIds
  BY LiveType
<1>2. /\ \A k \in Live(s) \ {q} : SameOwner(s.tq[k], t.tq[k])
      /\ \A k \in Live(s) : /\ t.tq[k].player = s.tq[k].player
                            /\ t.tq[k].connected = s.tq[k].connected
  BY <1>1 DEF TasksChange, SameOwner
<1>3. QueuesOK(t)
  BY <1>2 DEF OwnersOK, QueuesOK, TasksChange, SameOwner
<1>4. TasksOK(t)
  <2>1. \A k \in Live(s) \ {q} : s.tq[k].player # s.tq[q].player
    BY DEF OwnersOK, QueuesOK
  <2>2. \A k \in Live(s) \ {q} : Counted(t, k) = Counted(s, k)
    BY <1>2, <2>1 DEF Counted, SameOwner
  <2>3. \A p : HasTQueue(s, p) => HasTQueue(t, p)
    BY <1>2 DEF HasTQueue, TasksChange
  <2>4. HasTQueue(s, s.tq[q].player)
    BY DEF HasTQueue
  <2>5. \A k \in Live(t) : t.tq[k].num_bg = Counted(t, k)
    BY <1>2, <2>2 DEF OwnersOK, TasksOK, TasksChange, SameOwner
  <2>6. \A k \in Live(t) : \A i \in DOMAIN t.tq[k].bg : t.tq[k].bg[i].progr = t.tq[k].player
    BY <1>2 DEF OwnersOK, TasksOK, TasksChange, SameOwner
  <2>7. \A i \in DOMAIN t.waiting :
          HasTQueue(t, t.waiting[i].progr) /\ t.waiting[i].progr # NOTHING
    BY <2>3, <2>4 DEF OwnersOK, TasksOK
  <2> QED BY <2>5, <2>6, <2>7 DEF TasksOK
<1>5. ConnectionsOK(t)
  <2>1. \A h \in ConnIds : /\ t.handles[h].open = s.handles[h].open
                           /\ t.handles[h].player = s.handles[h].player
                           /\ t.handles[h].queue = s.handles[h].queue
    BY DEF TasksChange, SameConnections
  <2>2. Live(t) = Live(s)
    BY DEF TasksChange
  <2> QED BY <1>2, <2>1, <2>2 DEF OwnersOK, ConnectionsOK
<1> QED BY <1>2, <1>3, <1>4, <1>5 DEF OwnersOK, TasksChange, KeepsPlayers, SameConnections

(* Replacing the tasks of a queue and the waiting ones. *)
WithTasks(s, q, b, n, w) ==
  [s EXCEPT !.tq[q] = [s.tq[q] EXCEPT !.bg = b, !.num_bg = n], !.waiting = w]

(* What the heap is after a queue's tasks and the waiting ones have been replaced. *)
LEMMA SetTasks ==
  ASSUME NEW s, HeapOK(s), NEW q \in QueueIds, NEW b, NEW n, NEW w
  PROVE  LET t == WithTasks(s, q, b, n, w)
         IN /\ TasksChange(s, t, q)
            /\ t.tq[q].bg = b /\ t.tq[q].num_bg = n /\ t.waiting = w
<1> DEFINE r == [s.tq[q] EXCEPT !.bg = b, !.num_bg = n]
           t == WithTasks(s, q, b, n, w)
<1>1. s.tq[q] \in TQueue
  BY DEF HeapOK, HeapType
<1>2. /\ r.bg = b /\ r.num_bg = n /\ r.player = s.tq[q].player
      /\ r.connected = s.tq[q].connected
  BY <1>1 DEF TQueue
<1>3. t = [s EXCEPT !.tq[q] = r, !.waiting = w]
  BY DEF WithTasks
<1> HIDE DEF r, t
<1>4. /\ t.active = s.active /\ t.idle = s.idle /\ t.waiting = w
      /\ t.handles = s.handles /\ t.panic = s.panic /\ t.tq = [s.tq EXCEPT ![q] = r]
  BY <1>3 DEF HeapOK, HeapType
<1>5. \A k \in QueueIds : t.tq[k] = IF k = q THEN r ELSE s.tq[k]
  BY <1>4 DEF HeapOK, HeapType
<1> QED BY <1>2, <1>4, <1>5 DEF TasksChange, SameOwner, SameConnections, Live, t

(* enqueue_waiting(): the task's owner has one more. *)
LEMMA EnqueueWaitingOwners ==
  ASSUME NEW s, HeapOK(s), OwnersOK(s), NEW t \in Task, t.progr # NOTHING,
         HasRoomFor(s, t.progr), NEW i \in WaitingPlaces(s, t)
  PROVE  /\ OwnersOK(enqueue_waiting(s, t, i)) /\ HeapOK(enqueue_waiting(s, t, i))
         /\ KeepsPlayers(s, enqueue_waiting(s, t, i))
<1> DEFINE p == t.progr
           s1 == find_tqueue(s, p)
           q == TQueueOf(s1, p)
           b == s1.tq[q].bg
           n == s1.tq[q].num_bg + 1
           w == InsertAt(s1.waiting, i, t)
           u == enqueue_waiting(s, t, i)
<1>1. /\ HeapOK(s1) /\ OwnersOK(s1) /\ KeepsPlayers(s, s1)
      /\ q \in Live(s1) /\ s1.tq[q].player = p /\ s1.waiting = s.waiting
  <2>1. p \in Int BY DEF Task
  <2> QED BY <2>1, FindTQueueOwners
<1>2. HeapOK(u)
  BY EnqueueWaiting DEF Preserves
<1>3. u = [s1 EXCEPT !.tq[q].num_bg = @ + 1, !.waiting = InsertAt(@, i, t)]
  BY DEF enqueue_waiting
<1>4. p # NOTHING
  OBVIOUS
<1> HIDE DEF s1, q, u, p
<1>5. q \in QueueIds /\ s1.tq[q] \in TQueue /\ b \in Seq(Task)
  <2>1. q \in QueueIds BY <1>1, LiveType
  <2> QED BY <1>1, <2>1, QueueFields DEF HeapOK, HeapType
<1>6. s1.waiting \in Seq(Task) /\ i \in 1 .. Len(s1.waiting) + 1
  <2>1. s1.waiting \in Seq(Task) BY <1>1 DEF HeapOK, HeapType
  <2> QED BY <1>1, <2>1 DEF WaitingPlaces
<1>7. u = WithTasks(s1, q, b, n, w)
  <2>1. [s1.tq[q] EXCEPT !.bg = b, !.num_bg = n] = [s1.tq[q] EXCEPT !.num_bg = n]
    BY <1>5 DEF TQueue
  <2> QED BY <1>3, <2>1 DEF WithTasks
<1>8. /\ TasksChange(s1, u, q)
      /\ u.tq[q].bg = b /\ u.tq[q].num_bg = n /\ u.waiting = w
  <2> HIDE DEF b, n, w
  <2> QED BY <1>1, <1>5, <1>7, SetTasks
<1>9. \A o : Cardinality(Own(w, o)) = Cardinality(Own(s1.waiting, o)) + IF t.progr = o THEN 1 ELSE 0
  BY <1>6, OwnInsertAt
<1>10. u.tq[q].num_bg = Counted(u, q)
  <2>1. s1.tq[q].num_bg = Len(b) + Cardinality(Own(s1.waiting, p))
    BY <1>1, <1>4 DEF OwnersOK, TasksOK, Counted
  <2>2. Counted(u, q) = Len(b) + Cardinality(Own(w, p))
    BY <1>1, <1>4, <1>8 DEF Counted, TasksChange
  <2>3. Cardinality(Own(s1.waiting, p)) \in Nat /\ Len(b) \in Nat
    BY <1>5, <1>6, OwnFinite
  <2> HIDE DEF w, b
  <2> QED BY <1>8, <1>9, <2>1, <2>2, <2>3 DEF p
<1>11. \A j \in DOMAIN w : w[j].progr = p \/ \E k \in DOMAIN s1.waiting : w[j] = s1.waiting[k]
  <2> TAKE j \in DOMAIN w
  <2>1. Elems(w) = Elems(s1.waiting) \cup {t}
    BY <1>6, InsertAtElems
  <2> HIDE DEF w
  <2>2. w[j] \in Elems(w)
    BY DEF Elems
  <2> QED BY <2>1, <2>2 DEF Elems, p
<1>12. /\ \A o : o # p => Cardinality(Own(u.waiting, o)) = Cardinality(Own(s1.waiting, o))
       /\ \A j \in DOMAIN b : b[j].progr = p
  <2>1. \A o : Cardinality(Own(s1.waiting, o)) \in Nat
    BY <1>6, OwnFinite
  <2>2. \A j \in DOMAIN b : b[j].progr = p
    BY <1>1 DEF OwnersOK, TasksOK
  <2> HIDE DEF w
  <2> QED BY <1>8, <1>9, <2>1, <2>2 DEF p
<1>13. OwnersOK(u) /\ KeepsPlayers(s1, u)
  <2> HIDE DEF w, b, n
  <2> QED BY <1>1, <1>4, <1>8, <1>10, <1>11, <1>12, TasksChangeOwners
<1> QED BY <1>1, <1>2, <1>13 DEF KeepsPlayers, u

(* make_ready(): a waiting task goes to the queue of its owner. *)
LEMMA MakeReadyOwners ==
  ASSUME NEW s, HeapOK(s), OwnersOK(s), NEW i \in DOMAIN s.waiting
  PROVE  LET u == make_ready(s, i, s.waiting[i])
         IN HeapOK(u) /\ OwnersOK(u) /\ KeepsPlayers(s, u)
<1> DEFINE t == s.waiting[i]
           p == t.progr
           w == RemoveAt(s.waiting, i)
           s0 == [s EXCEPT !.waiting = w]
           s1 == find_tqueue(s0, p)
           q == TQueueOf(s1, p)
           s2 == ensure_usage(s1, q)
           u == make_ready(s, i, t)
<1>1. HasTQueue(s, p) /\ p # NOTHING
  BY DEF OwnersOK, TasksOK
<1>2. HeapOK(u)
  BY <1>1, MakeReady DEF Preserves, HasRoomFor
<1>3. s.waiting \in Seq(Task) /\ w \in Seq(Task) /\ t \in Task
  <2>1. s.waiting \in Seq(Task) BY DEF HeapOK, HeapType
  <2> QED BY <2>1, RemoveAtType
<1>4. u = enqueue_bg_task(s2, q, t)
  BY DEF make_ready
<1> HIDE DEF w, t, u
<1>5. /\ HeapOK(s0) /\ s0.waiting = w /\ s0.tq = s.tq /\ s0.active = s.active
      /\ s0.idle = s.idle /\ s0.handles = s.handles /\ s0.panic = s.panic
  <2>1. HeapOK(s0)
    BY <1>3, SetWaiting DEF Preserves
  <2> QED BY <2>1 DEF HeapOK, HeapType
<1> HIDE DEF s0, p
<1>6. HasTQueue(s0, p) /\ Live(s0) = Live(s)
  BY <1>1, <1>5 DEF HasTQueue, Live
<1>7. s1 = s0
  BY <1>6 DEF find_tqueue
<1> HIDE DEF s1
<1>8. q \in Live(s) /\ q \in QueueIds /\ s.tq[q].player = p
  BY <1>5, <1>6, <1>7, TQueueOfLive
<1> HIDE DEF q
<1>9. HeapOK(s2) /\ SameOwners(s0, s2)
  BY <1>5, <1>6, <1>7, <1>8, EnsureUsage, EnsureUsageOwners DEF Preserves
<1> HIDE DEF s2
<1> DEFINE b == Append(s.tq[q].bg, t)
<1>10. s2.tq[q] \in TQueue /\ s2.tq[q].bg = s.tq[q].bg /\ s2.tq[q].num_bg = s.tq[q].num_bg
  BY <1>5, <1>8, <1>9 DEF HeapOK, HeapType, SameOwners, SameOwner
<1>11. u = WithTasks(s2, q, b, s.tq[q].num_bg, w)
  <2>1. [s2.tq[q] EXCEPT !.bg = b, !.num_bg = s.tq[q].num_bg] = [s2.tq[q] EXCEPT !.bg = b]
    BY <1>10 DEF TQueue
  <2>2. s2.waiting = w
    BY <1>5, <1>9 DEF SameOwners
  <2>3. u = [s2 EXCEPT !.tq[q] = [s2.tq[q] EXCEPT !.bg = b]]
    BY <1>4, <1>10 DEF enqueue_bg_task
  <2> HIDE DEF b
  <2> QED BY <1>9, <2>1, <2>2, <2>3 DEF HeapOK, HeapType, WithTasks
<1>12. /\ TasksChange(s2, u, q)
       /\ u.tq[q].bg = b /\ u.tq[q].num_bg = s.tq[q].num_bg /\ u.waiting = w
  <2> HIDE DEF b
  <2> QED BY <1>8, <1>9, <1>11, SetTasks
<1>13. TasksChange(s, u, q)
  <2>1. /\ Live(s2) = Live(s) /\ s2.panic = s.panic /\ SameConnections(s, s2)
        /\ \A k \in QueueIds : SameOwner(s.tq[k], s2.tq[k])
    BY <1>5, <1>6, <1>9 DEF SameOwners, SameConnections
  <2> QED BY <1>8, <1>12, <2>1 DEF TasksChange, SameConnections, SameOwner
<1>14. \A o : /\ Cardinality(Own(w, o))
                   = Cardinality(Own(s.waiting, o)) - IF t.progr = o THEN 1 ELSE 0
              /\ Cardinality(Own(s.waiting, o)) \in Nat
  BY <1>3, OwnRemoveAt, OwnFinite DEF w, t
<1>15. s.tq[q].bg \in Seq(Task)
  BY <1>8, QueueFields
<1>16. u.tq[q].num_bg = Counted(u, q)
  <2>1. s.tq[q].num_bg = Len(s.tq[q].bg) + Cardinality(Own(s.waiting, p))
    BY <1>1, <1>8 DEF OwnersOK, TasksOK, Counted, p, t
  <2>2. Counted(u, q) = Len(b) + Cardinality(Own(w, p))
    BY <1>1, <1>8, <1>12, <1>13 DEF Counted, TasksChange, p, t
  <2>3. Len(b) = Len(s.tq[q].bg) + 1 /\ Len(s.tq[q].bg) \in Nat
    BY <1>3, <1>15
  <2>4. /\ Cardinality(Own(w, p)) = Cardinality(Own(s.waiting, p)) - 1
        /\ Cardinality(Own(s.waiting, p)) \in Nat
    BY <1>14 DEF p
  <2>5. u.tq[q].num_bg = s.tq[q].num_bg
    BY <1>12
  <2>6. \A m, c \in Nat : (m + 1) + (c - 1) = m + c
    OBVIOUS
  <2> HIDE DEF b
  <2>7. Counted(u, q) = Len(s.tq[q].bg) + Cardinality(Own(s.waiting, p))
    BY <2>2, <2>3, <2>4, <2>6
  <2> QED BY <2>1, <2>5, <2>7
<1>17. \A j \in DOMAIN u.tq[q].bg : u.tq[q].bg[j].progr = p
  <2>1. \A j \in DOMAIN s.tq[q].bg : s.tq[q].bg[j].progr = p
    BY <1>8 DEF OwnersOK, TasksOK
  <2> QED BY SMTT(30), <1>3, <1>12, <1>15, <2>1 DEF p
<1>18. \A j \in DOMAIN u.waiting : \E k \in DOMAIN s.waiting : u.waiting[j] = s.waiting[k]
  BY <1>3, <1>12, RemoveInsert DEF w
<1>19. \A o : o # p => Cardinality(Own(u.waiting, o)) = Cardinality(Own(s.waiting, o))
  BY <1>12, <1>14 DEF p
<1>20. OwnersOK(u) /\ KeepsPlayers(s, u)
  BY <1>1, <1>8, <1>13, <1>16, <1>17, <1>18, <1>19, TasksChangeOwners DEF p, t
<1> QED BY <1>2, <1>20 DEF u, t

(* A background task leaves its queue, to be run or killed. *)
WithoutBg(s, q, i) == [s EXCEPT !.tq[q].bg = RemoveAt(@, i), !.tq[q].num_bg = @ - 1]

(* A background task taken off its queue, with its count, keeps the agreement. *)
LEMMA RemoveBgOwners ==
  ASSUME NEW s, HeapOK(s), OwnersOK(s), NEW q \in Live(s), NEW i \in DOMAIN s.tq[q].bg
  PROVE  LET u == WithoutBg(s, q, i)
         IN HeapOK(u) /\ OwnersOK(u) /\ KeepsPlayers(s, u)
<1> DEFINE l == s.tq[q].bg
           b == RemoveAt(l, i)
           n == s.tq[q].num_bg - 1
           p == s.tq[q].player
           u == WithoutBg(s, q, i)
<1>1. q \in QueueIds /\ s.tq[q] \in TQueue /\ l \in Seq(Task) /\ s.tq[q].num_bg \in Int
  <2>1. q \in QueueIds BY LiveType
  <2> QED BY <2>1, QueueFields DEF HeapOK, HeapType
<1>2. p # NOTHING
  BY <1>1 DEF OwnersOK, QueuesOK
<1>3. /\ b \in Seq(Task) /\ Len(b) = Len(l) - 1 /\ Len(l) \in Nat
      /\ \A j \in DOMAIN b : \E k \in DOMAIN l : b[j] = l[k]
  <2>1. Len(b) = Len(l) - 1 /\ Len(l) \in Nat
    BY <1>1 DEF RemoveAt
  <2>2. b \in Seq(Task) /\ \A j \in DOMAIN b : \E k \in DOMAIN l : b[j] = l[k]
    BY <1>1, RemoveInsert
  <2> QED BY <2>1, <2>2
<1>4. u = WithTasks(s, q, b, n, s.waiting)
  BY <1>1 DEF WithTasks, WithoutBg, HeapOK, HeapType
<1> DEFINE r == [s.tq[q] EXCEPT !.bg = b, !.num_bg = n]
<1>5. HeapOK(u)
  <2>1. /\ r \in TQueue /\ r.usage = s.tq[q].usage
        /\ r.reading = s.tq[q].reading /\ r.connected = s.tq[q].connected
    <3>1. n \in Int BY <1>1
    <3> HIDE DEF b, n
    <3> QED BY <1>1, <1>3, <3>1 DEF TQueue
  <2>2. u = [s EXCEPT !.tq[q] = r]
    BY <1>1 DEF HeapOK, HeapType, WithoutBg
  <2> HIDE DEF r, u
  <2>3. HeapOK([s EXCEPT !.tq[q] = r])
    BY <1>1, <2>1, QuietQueue DEF Preserves
  <2> QED BY <2>2, <2>3
<1> HIDE DEF u
<1>6. /\ TasksChange(s, u, q)
      /\ u.tq[q].bg = b /\ u.tq[q].num_bg = n /\ u.waiting = s.waiting
  <2> HIDE DEF b, n
  <2> QED BY <1>1, <1>4, SetTasks
<1>7. u.tq[q].num_bg = Counted(u, q)
  <2>1. s.tq[q].num_bg = Len(l) + Cardinality(Own(s.waiting, p))
    BY <1>2 DEF OwnersOK, TasksOK, Counted
  <2>2. Counted(u, q) = Len(b) + Cardinality(Own(s.waiting, p))
    BY <1>2, <1>6 DEF Counted, TasksChange
  <2>3. Cardinality(Own(s.waiting, p)) \in Nat
    BY OwnFinite DEF HeapOK, HeapType
  <2> HIDE DEF b, l, p
  <2>4. \A m, c \in Nat : (m - 1) + c = (m + c) - 1
    OBVIOUS
  <2>5. Counted(u, q) = s.tq[q].num_bg - 1
    BY <1>3, <2>1, <2>2, <2>3, <2>4
  <2> QED BY <1>6, <2>5
<1>8. \A j \in DOMAIN b : b[j].progr = p
  BY <1>3 DEF OwnersOK, TasksOK
<1>9. OwnersOK(u) /\ KeepsPlayers(s, u)
  <2> HIDE DEF b, n
  <2> QED BY <1>2, <1>6, <1>7, <1>8, TasksChangeOwners
<1> QED BY <1>5, <1>9 DEF u

(* dequeue_bg_task() *)
LEMMA DequeueBgOwners ==
  ASSUME NEW s, HeapOK(s), OwnersOK(s), NEW q \in Live(s), s.tq[q].bg # <<>>
  PROVE  LET u == dequeue_bg_task(s, q)
         IN HeapOK(u) /\ OwnersOK(u) /\ KeepsPlayers(s, u)
<1>1. q \in QueueIds /\ s.tq[q].bg \in Seq(Task)
  <2>1. q \in QueueIds BY LiveType
  <2> QED BY <2>1, QueueFields
<1>2. 1 \in DOMAIN s.tq[q].bg /\ Tail(s.tq[q].bg) = RemoveAt(s.tq[q].bg, 1)
  BY <1>1 DEF RemoveAt
<1>3. dequeue_bg_task(s, q) = WithoutBg(s, q, 1)
  BY <1>1, <1>2 DEF dequeue_bg_task, WithoutBg, HeapOK, HeapType
<1> QED BY <1>2, <1>3, RemoveBgOwners

(* A waiting task is killed. *)
LEMMA KillWaitingOwners ==
  ASSUME NEW s, HeapOK(s), OwnersOK(s), NEW i \in DOMAIN s.waiting
  PROVE  LET p == s.waiting[i].progr
             s0 == [s EXCEPT !.waiting = RemoveAt(@, i)]
             u == IF HasTQueue(s0, p)
                  THEN [s0 EXCEPT !.tq[TQueueOf(s0, p)].num_bg = @ - 1] ELSE s0
         IN HeapOK(u) /\ OwnersOK(u) /\ KeepsPlayers(s, u)
<1> DEFINE p == s.waiting[i].progr
           w == RemoveAt(s.waiting, i)
           s0 == [s EXCEPT !.waiting = w]
           q == TQueueOf(s0, p)
           u == [s0 EXCEPT !.tq[q].num_bg = @ - 1]
<1>1. HasTQueue(s, p) /\ p # NOTHING
  BY DEF OwnersOK, TasksOK
<1>2. s.waiting \in Seq(Task) /\ w \in Seq(Task)
  <2>1. s.waiting \in Seq(Task) BY DEF HeapOK, HeapType
  <2> QED BY <2>1, RemoveAtType
<1>3. \A o : /\ Cardinality(Own(w, o))
                  = Cardinality(Own(s.waiting, o)) - IF p = o THEN 1 ELSE 0
             /\ Cardinality(Own(s.waiting, o)) \in Nat
  BY <1>2, OwnRemoveAt, OwnFinite
<1>4. \A j \in DOMAIN w : \E k \in DOMAIN s.waiting : w[j] = s.waiting[k]
  BY <1>2, RemoveInsert
<1> HIDE DEF w
<1>5. /\ HeapOK(s0) /\ s0.waiting = w /\ s0.tq = s.tq /\ s0.active = s.active
      /\ s0.idle = s.idle /\ s0.handles = s.handles /\ s0.panic = s.panic
  <2>1. HeapOK(s0)
    BY <1>2, SetWaiting DEF Preserves
  <2> QED BY <2>1 DEF HeapOK, HeapType
<1>6. HasTQueue(s0, p) /\ Live(s0) = Live(s)
  <2> HIDE DEF s0
  <2> QED BY <1>1, <1>5 DEF HasTQueue, Live
<1>7. q \in Live(s) /\ q \in QueueIds /\ s.tq[q].player = p
  <2> HIDE DEF s0, p
  <2> QED BY <1>5, <1>6, TQueueOfLive
<1> HIDE DEF q
<1>8. s.tq[q].bg \in Seq(Task) /\ s.tq[q].num_bg \in Int /\ s.tq[q] \in TQueue
  BY <1>7, QueueFields DEF HeapOK, HeapType
<1> DEFINE b == s.tq[q].bg
           n == s.tq[q].num_bg - 1
<1>9. HeapOK(u)
  <2>1. u = [s0 EXCEPT !.tq[q].num_bg = n] /\ n \in Int
    BY <1>5, <1>7, <1>8 DEF HeapOK, HeapType
  <2> HIDE DEF n, s0, u
  <2> QED BY <1>5, <1>7, <2>1, SetNumBg DEF Preserves
<1>10. u = WithTasks(s, q, b, n, w)
  <2>1. [s.tq[q] EXCEPT !.bg = b, !.num_bg = n] = [s.tq[q] EXCEPT !.num_bg = n]
    BY <1>8 DEF TQueue
  <2> QED BY <1>7, <2>1 DEF WithTasks, HeapOK, HeapType
<1>11. /\ TasksChange(s, u, q)
       /\ u.tq[q].bg = b /\ u.tq[q].num_bg = n /\ u.waiting = w
  <2> HIDE DEF b, n, u
  <2> QED BY <1>7, <1>10, SetTasks
<1> HIDE DEF u
<1>12. u.tq[q].num_bg = Counted(u, q)
  <2>1. s.tq[q].num_bg = Len(b) + Cardinality(Own(s.waiting, p))
    BY <1>1, <1>7 DEF OwnersOK, TasksOK, Counted
  <2>2. Counted(u, q) = Len(b) + Cardinality(Own(w, p))
    BY <1>1, <1>7, <1>11 DEF Counted, TasksChange
  <2>3. /\ Cardinality(Own(s.waiting, p)) \in Nat /\ Len(b) \in Nat
        /\ Cardinality(Own(w, p)) = Cardinality(Own(s.waiting, p)) - 1
    BY <1>3, <1>8
  <2> HIDE DEF b, p
  <2>4. \A m, c \in Nat : m + (c - 1) = (m + c) - 1
    OBVIOUS
  <2>5. Counted(u, q) = s.tq[q].num_bg - 1
    BY <2>1, <2>2, <2>3, <2>4
  <2> QED BY <1>11, <2>5
<1>13. /\ \A o : o # p => Cardinality(Own(u.waiting, o)) = Cardinality(Own(s.waiting, o))
       /\ \A j \in DOMAIN b : b[j].progr = p
  <2>1. \A j \in DOMAIN b : b[j].progr = p
    BY <1>7 DEF OwnersOK, TasksOK
  <2> QED BY <1>3, <1>11, <2>1
<1>14. OwnersOK(u) /\ KeepsPlayers(s, u)
  <2> HIDE DEF b, n, p
  <2> QED BY <1>1, <1>4, <1>7, <1>11, <1>12, <1>13, TasksChangeOwners
<1> QED BY <1>6, <1>14, <1>9 DEF u, q, w

-----------------------------------------------------------------------------
(* Connections *)

(* From s to t the connection h is closed, and its queue q is no longer one of
   a connection. *)
Disconnects(s, t, h, q) ==
  /\ Live(t) = Live(s) /\ t.waiting = s.waiting /\ t.panic = s.panic
  /\ \A k \in QueueIds : /\ t.tq[k].player = s.tq[k].player
                         /\ t.tq[k].bg = s.tq[k].bg /\ t.tq[k].num_bg = s.tq[k].num_bg
                         /\ k # q => t.tq[k].connected = s.tq[k].connected
  /\ ~t.tq[q].connected
  /\ ~t.handles[h].open
  /\ \A k \in ConnIds \ {h} : /\ t.handles[k].open = s.handles[k].open
                              /\ t.handles[k].player = s.handles[k].player
                              /\ t.handles[k].queue = s.handles[k].queue

(* free_shandle(), whether or not the heap is in the middle of a login. *)
LEMMA FreeShandleEffect ==
  ASSUME NEW s, HeapOK(s), NEW h \in ConnIds, s.handles[h].open,
         s.handles[h].queue \in Live(s)
  PROVE  Disconnects(s, free_shandle(s, h), h, s.handles[h].queue)
<1> DEFINE g == ClosedHandle(h)
           q == s.handles[h].queue
           s1 == [s EXCEPT !.handles[h] = g]
           r == [s1.tq[q] EXCEPT !.connected = FALSE]
           s2 == [s1 EXCEPT !.tq[q].connected = FALSE]
           t == free_shandle(s, h)
<1>1. t = IF s2.tq[q].reading # NoTask THEN ensure_usage(s2, q) ELSE s2
  BY DEF free_shandle, free_task_queue
<1>2. q \in QueueIds /\ q \in Live(s)
  BY LiveType
<1>3. g \in Handle /\ ~g.open
  BY ConnIdsType, ClosedHandleType
<1> HIDE DEF g, q, t
<1>4. /\ HeapOK(s1) /\ s1.tq = s.tq /\ s1.active = s.active /\ s1.idle = s.idle
      /\ s1.waiting = s.waiting /\ s1.handles = [s.handles EXCEPT ![h] = g]
      /\ s1.panic = s.panic
  BY ZenonT(40), <1>3, SetHandle DEF HeapOK, HeapType
<1> HIDE DEF s1
<1>5. HeapOK(s2)
  BY <1>2, <1>4, SetConnected
<1>6. /\ s2.tq = [s1.tq EXCEPT ![q] = r] /\ s2.active = s.active /\ s2.idle = s.idle
      /\ s2.waiting = s.waiting /\ s2.handles = s1.handles /\ s2.panic = s.panic
  BY <1>4 DEF HeapOK, HeapType
<1>7. /\ r.player = s.tq[q].player /\ r.bg = s.tq[q].bg
      /\ r.num_bg = s.tq[q].num_bg /\ r.connected = FALSE
  <2>1. s.tq[q] \in TQueue BY <1>2 DEF HeapOK, HeapType
  <2> QED BY <1>4, <2>1 DEF TQueue
<1> HIDE DEF s2, r
<1>8. Live(s2) = Live(s)
  BY <1>6 DEF Live
<1>9. SameOwners(s2, t)
  <2>1. SameOwners(s2, ensure_usage(s2, q))
    BY <1>2, <1>5, <1>8, EnsureUsageOwners
  <2> QED BY <1>1, <2>1, SameOwnersItself
<1>10. \A k \in QueueIds : s2.tq[k] = IF k = q THEN r ELSE s.tq[k]
  BY <1>4, <1>6 DEF HeapOK, HeapType
<1>11. \A k \in ConnIds : s2.handles[k] = IF k = h THEN g ELSE s.handles[k]
  BY <1>4, <1>6 DEF HeapOK, HeapType
<1>12. Disconnects(s, t, h, q)
  BY <1>2, <1>3, <1>6, <1>7, <1>8, <1>9, <1>10, <1>11
     DEF Disconnects, SameOwners, SameOwner, SameConnections
<1> QED BY <1>12 DEF t, q

(* free_shandle() *)
LEMMA FreeShandleOwners ==
  ASSUME NEW s, HeapOK(s), OwnersOK(s), NEW h \in ConnIds, s.handles[h].open
  PROVE  OwnersOK(free_shandle(s, h)) /\ KeepsPlayers(s, free_shandle(s, h))
<1> DEFINE q == s.handles[h].queue
           t == free_shandle(s, h)
<1>1. q \in Live(s)
  BY DEF OwnersOK, ConnectionsOK
<1>2. Disconnects(s, t, h, q)
  BY <1>1, FreeShandleEffect
<1> HIDE DEF t
<1>3. \A k \in Live(s) : k \in QueueIds
  BY LiveType
<1>4. QueuesOK(t)
  BY <1>2, <1>3 DEF OwnersOK, QueuesOK, Disconnects
<1>5. TasksOK(t)
  <2>1. \A k \in Live(s) : Counted(t, k) = Counted(s, k)
    BY <1>2, <1>3 DEF Counted, Disconnects
  <2>2. \A p : HasTQueue(s, p) => HasTQueue(t, p)
    BY <1>2, <1>3 DEF HasTQueue, Disconnects
  <2> QED BY <1>2, <1>3, <2>1, <2>2 DEF OwnersOK, TasksOK, Disconnects
<1>6. ConnectionsOK(t)
  <2>1. \A k \in ConnIds : t.handles[k].open =>
          /\ k # h /\ s.handles[k].open /\ s.handles[k].queue # q
          /\ t.handles[k].player = s.handles[k].player
          /\ t.handles[k].queue = s.handles[k].queue
    BY <1>2 DEF Disconnects, OwnersOK, ConnectionsOK
  <2>2. \A k \in ConnIds : t.handles[k].open =>
          /\ t.handles[k].queue \in Live(t)
          /\ t.tq[t.handles[k].queue].connected
          /\ t.tq[t.handles[k].queue].player = t.handles[k].player
          /\ t.handles[k].player = k \/ t.handles[k].player >= 0
    BY <1>2, <1>3, <2>1 DEF Disconnects, OwnersOK, ConnectionsOK
  <2>3. \A k \in Live(t) : t.tq[k].connected =>
          \E i \in ConnIds : t.handles[i].open /\ t.handles[i].queue = k
    <3> SUFFICES ASSUME NEW k \in Live(t), t.tq[k].connected
                 PROVE  \E i \in ConnIds : t.handles[i].open /\ t.handles[i].queue = k
      OBVIOUS
    <3>1. k \in Live(s) /\ k # q /\ s.tq[k].connected
      BY <1>2, <1>3 DEF Disconnects
    <3>2. PICK i \in ConnIds : s.handles[i].open /\ s.handles[i].queue = k
      BY <3>1 DEF OwnersOK, ConnectionsOK
    <3>3. i # h
      BY <3>1, <3>2
    <3> QED BY <1>2, <3>2, <3>3 DEF Disconnects
  <2>4. \A i, k \in ConnIds :
          t.handles[i].open /\ t.handles[k].open /\ t.handles[i].queue = t.handles[k].queue
            => i = k
    BY <2>1 DEF OwnersOK, ConnectionsOK
  <2> HIDE DEF q
  <2> QED BY <2>2, <2>3, <2>4 DEF ConnectionsOK
<1>7. KeepsPlayers(s, t)
  BY <1>2, <1>3 DEF KeepsPlayers, Disconnects
<1> QED BY <1>2, <1>4, <1>5, <1>6, <1>7 DEF OwnersOK, Disconnects, t

(* The marks on a connection are nobody's business. *)
LEMMA MarkHandleOwners ==
  ASSUME NEW s, HeapOK(s), NEW h \in ConnIds, NEW b \in BOOLEAN
  PROVE  SameOwners(s, [s EXCEPT !.handles[h].disconnect_me = b])
<1> DEFINE g == [s.handles[h] EXCEPT !.disconnect_me = b]
           t == [s EXCEPT !.handles[h].disconnect_me = b]
<1>1. s.handles[h] \in Handle
  BY DEF HeapOK, HeapType
<1>2. /\ g.open = s.handles[h].open /\ g.player = s.handles[h].player
      /\ g.queue = s.handles[h].queue
  BY <1>1 DEF Handle
<1>3. /\ t.active = s.active /\ t.idle = s.idle /\ t.waiting = s.waiting
      /\ t.panic = s.panic /\ t.tq = s.tq /\ t.handles = [s.handles EXCEPT ![h] = g]
  BY DEF HeapOK, HeapType
<1> HIDE DEF g, t
<1>4. \A k \in ConnIds : t.handles[k] = IF k = h THEN g ELSE s.handles[k]
  BY <1>3 DEF HeapOK, HeapType
<1>5. SameOwners(s, t)
  BY <1>2, <1>3, <1>4 DEF SameOwners, SameOwner, SameConnections, Live
<1> QED BY <1>5 DEF t

(* From s to t the connection h is made, on the queue q of its own number. *)
Connects(s, t, h, q) ==
  /\ Live(t) = Live(s) /\ t.waiting = s.waiting /\ t.panic = s.panic
  /\ \A k \in QueueIds : /\ t.tq[k].player = s.tq[k].player
                         /\ t.tq[k].bg = s.tq[k].bg /\ t.tq[k].num_bg = s.tq[k].num_bg
                         /\ k # q => t.tq[k].connected = s.tq[k].connected
  /\ t.tq[q].connected
  /\ t.handles[h].open /\ t.handles[h].player = h /\ t.handles[h].queue = q
  /\ \A k \in ConnIds \ {h} : t.handles[k] = s.handles[k]

(* A new connection takes a queue that no other connection has. *)
LEMMA ConnectsOwners ==
  ASSUME NEW s, HeapOK(s), OwnersOK(s), NEW h \in ConnIds, ~s.handles[h].open,
         NEW q \in Live(s), s.tq[q].player = h,
         NEW t, Connects(s, t, h, q)
  PROVE  /\ OwnersOK(t) /\ q \in Live(t)
         /\ \A k \in Live(s) : k \in Live(t) /\ t.tq[k].player = s.tq[k].player
         /\ \A k \in ConnIds : t.handles[k].open => s.handles[k].open \/ k = h
<1>1. \A k \in Live(s) : k \in QueueIds
  BY LiveType
<1>2. h < 0 /\ h # NOTHING
  BY ConstantsAssumption DEF ConnIds, NOTHING
<1>3. QueuesOK(t)
  BY <1>1, <1>2 DEF OwnersOK, QueuesOK, Connects
<1>4. TasksOK(t)
  <2>1. \A k \in Live(s) : Counted(t, k) = Counted(s, k)
    BY <1>1 DEF Counted, Connects
  <2>2. \A p : HasTQueue(s, p) => HasTQueue(t, p)
    BY <1>1 DEF HasTQueue, Connects
  <2> QED BY <1>1, <2>1, <2>2 DEF OwnersOK, TasksOK, Connects
<1>5. ConnectionsOK(t)
  <2>1. \A k \in ConnIds \ {h} : s.handles[k].open => s.handles[k].queue # q
    <3> SUFFICES ASSUME NEW k \in ConnIds \ {h}, s.handles[k].open, s.handles[k].queue = q
                 PROVE  FALSE
      OBVIOUS
    <3>1. s.handles[k].player = h /\ (s.handles[k].player = k \/ s.handles[k].player >= 0)
      BY DEF OwnersOK, ConnectionsOK
    <3> QED BY <1>2, <3>1 DEF ConnIds
  <2>2. \A k \in ConnIds : t.handles[k].open =>
          /\ t.handles[k].queue \in Live(t)
          /\ t.tq[t.handles[k].queue].connected
          /\ t.tq[t.handles[k].queue].player = t.handles[k].player
          /\ t.handles[k].player = k \/ t.handles[k].player >= 0
    <3> TAKE k \in ConnIds
    <3>1. CASE k = h BY <1>1, <3>1 DEF Connects
    <3>2. CASE k # h BY SMTT(30), <1>1, <2>1, <3>2 DEF Connects, OwnersOK, ConnectionsOK
    <3> QED BY <3>1, <3>2
  <2>3. \A k \in Live(t) : t.tq[k].connected =>
          \E i \in ConnIds : t.handles[i].open /\ t.handles[i].queue = k
    <3> SUFFICES ASSUME NEW k \in Live(t), t.tq[k].connected
                 PROVE  \E i \in ConnIds : t.handles[i].open /\ t.handles[i].queue = k
      OBVIOUS
    <3>1. CASE k = q BY <3>1 DEF Connects
    <3>2. CASE k # q
      <4>1. k \in Live(s) /\ s.tq[k].connected
        BY <1>1, <3>2 DEF Connects
      <4>2. PICK i \in ConnIds : s.handles[i].open /\ s.handles[i].queue = k
        BY <4>1 DEF OwnersOK, ConnectionsOK
      <4> QED BY <4>2 DEF Connects
    <3> QED BY <3>1, <3>2
  <2>4. \A i, k \in ConnIds :
          t.handles[i].open /\ t.handles[k].open /\ t.handles[i].queue = t.handles[k].queue
            => i = k
    <3> SUFFICES ASSUME NEW i \in ConnIds, NEW k \in ConnIds, t.handles[i].open,
                        t.handles[k].open, t.handles[i].queue = t.handles[k].queue
                 PROVE  i = k
      OBVIOUS
    <3>1. CASE i = h \/ k = h BY <2>1, <3>1 DEF Connects
    <3>2. CASE i # h /\ k # h BY <3>2 DEF Connects, OwnersOK, ConnectionsOK
    <3> QED BY <3>1, <3>2
  <2> QED BY <2>2, <2>3, <2>4 DEF ConnectionsOK
<1>6. /\ \A k \in Live(s) : k \in Live(t) /\ t.tq[k].player = s.tq[k].player
      /\ \A k \in ConnIds : t.handles[k].open => s.handles[k].open \/ k = h
  BY <1>1 DEF Connects
<1> QED BY <1>3, <1>4, <1>5, <1>6 DEF OwnersOK, Connects

(* server_new_connection() *)
LEMMA ServerNewConnectionOwners ==
  ASSUME NEW s, HeapOK(s), OwnersOK(s), NEW h \in ConnIds, ~s.handles[h].open,
         HasRoomFor(s, h), NEW l \in Listeners, NEW outbound \in BOOLEAN,
         NEW greet \in BOOLEAN
  PROVE  LET t == server_new_connection(s, h, l, outbound, greet)
         IN /\ OwnersOK(t)
            /\ \A k \in Live(s) : k \in Live(t) /\ t.tq[k].player = s.tq[k].player
            /\ \A k \in ConnIds : t.handles[k].open => s.handles[k].open \/ k = h
<1> DEFINE s1 == find_tqueue(s, h)
           q == TQueueOf(s1, h)
           r == [s1.tq[q] EXCEPT !.connected = TRUE]
           sc == [s1 EXCEPT !.tq[q].connected = TRUE]
           g == [open |-> TRUE, player |-> h, queue |-> q, listener |-> l,
                 logged |-> FALSE, disconnect_me |-> FALSE,
                 outbound |-> outbound, paused |-> FALSE]
           s2 == [sc EXCEPT !.handles[h] = g]
           s3 == enqueue_input_task(s2, q, "blank", FALSE)
           t == server_new_connection(s, h, l, outbound, greet)
<1>1. t = IF greet THEN task_suspend_input(s3, q) ELSE s2
  BY DEF server_new_connection
<1>2. h \in Int
  BY ConnIdsType
<1>3. /\ HeapOK(s1) /\ OwnersOK(s1) /\ q \in Live(s1) /\ s1.tq[q].player = h
      /\ s1.handles = s.handles /\ KeepsPlayers(s, s1)
  BY <1>2, FindTQueueOwners
<1> HIDE DEF s1, q
<1>4. q \in QueueIds
  BY <1>3, LiveType
<1>5. HeapOK(sc)
  BY <1>3, <1>4, SetConnected
<1>6. /\ sc.tq = [s1.tq EXCEPT ![q] = r] /\ sc.active = s1.active /\ sc.idle = s1.idle
      /\ sc.waiting = s1.waiting /\ sc.handles = s1.handles /\ sc.panic = s1.panic
  BY <1>3 DEF HeapOK, HeapType
<1>7. /\ r.player = s1.tq[q].player /\ r.bg = s1.tq[q].bg
      /\ r.num_bg = s1.tq[q].num_bg /\ r.connected = TRUE
  <2>1. s1.tq[q] \in TQueue BY <1>3, <1>4 DEF HeapOK, HeapType
  <2> QED BY <2>1 DEF TQueue
<1> HIDE DEF sc, r
<1>8. \A k \in QueueIds : sc.tq[k] = IF k = q THEN r ELSE s1.tq[k]
  BY <1>3, <1>6 DEF HeapOK, HeapType
<1>9. g \in Handle /\ g.open /\ g.queue = q /\ g.player = h
  BY <1>2, <1>4 DEF Handle
<1> HIDE DEF g
<1>10. HeapOK(s2) /\ s2.tq = sc.tq
  BY <1>4, <1>5, <1>9, SetHandle
<1>11. /\ s2.handles = [sc.handles EXCEPT ![h] = g] /\ s2.active = sc.active
       /\ s2.idle = sc.idle /\ s2.waiting = sc.waiting /\ s2.panic = sc.panic
  BY <1>5 DEF HeapOK, HeapType
<1> HIDE DEF s2
<1>12. \A k \in ConnIds : s2.handles[k] = IF k = h THEN g ELSE sc.handles[k]
  BY <1>5, <1>11 DEF HeapOK, HeapType
<1>13. Connects(s1, s2, h, q)
  BY <1>4, <1>6, <1>7, <1>8, <1>9, <1>10, <1>11, <1>12 DEF Connects, Live
<1>14. /\ OwnersOK(s2) /\ q \in Live(s2)
       /\ \A k \in Live(s) : k \in Live(s2) /\ s2.tq[k].player = s.tq[k].player
       /\ \A k \in ConnIds : s2.handles[k].open => s.handles[k].open \/ k = h
  BY <1>3, <1>13, ConnectsOwners DEF KeepsPlayers
<1>15. SameOwners(s2, s3) /\ HeapOK(s3)
  <2>1. Reachable(s2, q) BY <1>14, OwnersReachable
  <2> QED BY <1>4, <1>10, <1>14, <2>1, EnqueueInputOwners, EnqueueInputTask
          DEF LineKinds, Preserves
<1> HIDE DEF s3
<1>16. OwnersOK(s3) /\ q \in Live(s3) /\ KeepsPlayers(s2, s3)
  BY <1>10, <1>14, <1>15, SameOwnersOK, SameOwnersSameFinds DEF SameOwners
<1>17. /\ OwnersOK(task_suspend_input(s3, q))
       /\ KeepsPlayers(s3, task_suspend_input(s3, q))
  <2>1. Reachable(s3, q) BY <1>16, OwnersReachable
  <2>2. SameOwners(s3, task_suspend_input(s3, q))
    BY <1>4, <1>15, <2>1, SuspendInputOwners
  <2> QED BY <1>15, <1>16, <2>2, SameOwnersOK, SameOwnersSameFinds
<1> HIDE DEF t
<1>18. /\ OwnersOK(t)
       /\ \A k \in Live(s) : k \in Live(t) /\ t.tq[k].player = s.tq[k].player
       /\ \A k \in ConnIds : t.handles[k].open => s.handles[k].open \/ k = h
  BY <1>1, <1>14, <1>16, <1>17 DEF KeepsPlayers
<1> QED BY <1>18 DEF t

-----------------------------------------------------------------------------
(* Freeing, deactivating and charging queues *)

(* A queue that nobody is connected to and that has no tasks can be freed. *)
LEMMA FreedOwners ==
  ASSUME NEW s, HeapOK(s), OwnersOK(s), NEW D \in SUBSET Live(s),
         \A q \in D : ~s.tq[q].connected /\ s.tq[q].num_bg = 0,
         NEW t, Live(t) = Live(s) \ D, \A q \in Live(t) : t.tq[q] = s.tq[q],
         t.waiting = s.waiting, t.handles = s.handles, t.panic = s.panic
  PROVE  OwnersOK(t)
<1>1. QueuesOK(t)
  BY DEF OwnersOK, QueuesOK
<1>2. TasksOK(t)
  <2>1. \A q \in Live(t) : Counted(t, q) = Counted(s, q)
    BY DEF Counted
  <2>2. \A q \in D : \A i \in DOMAIN s.waiting : s.waiting[i].progr # s.tq[q].player
    <3> SUFFICES ASSUME NEW q \in D, NEW i \in DOMAIN s.waiting,
                        s.waiting[i].progr = s.tq[q].player
                 PROVE  FALSE
      OBVIOUS
    <3> DEFINE A == Own(s.waiting, s.tq[q].player)
    <3>1. IsFiniteSet(A) /\ Cardinality(A) \in Nat
      BY OwnFinite DEF HeapOK, HeapType
    <3>2. i \in A
      BY DEF Own
    <3>3. s.tq[q].player # NOTHING
      BY DEF OwnersOK, TasksOK
    <3>4. Len(s.tq[q].bg) \in Nat
      <4>1. q \in QueueIds BY LiveType
      <4>2. s.tq[q].bg \in Seq(Task) BY <4>1, QueueFields
      <4> QED BY <4>2
    <3>5. s.tq[q].num_bg = Len(s.tq[q].bg) + Cardinality(A)
      BY <3>3 DEF OwnersOK, TasksOK, Counted
    <3> HIDE DEF A
    <3>6. Cardinality(A) = 0
      <4>1. \A m, c \in Nat : m + c = 0 => c = 0
        OBVIOUS
      <4>2. s.tq[q].num_bg = 0
        OBVIOUS
      <4> QED BY <3>1, <3>4, <3>5, <4>1, <4>2
    <3>7. A = {}
      BY <3>1, <3>6, FS_EmptySet
    <3> QED BY <3>2, <3>7
  <2>3. \A i \in DOMAIN s.waiting : HasTQueue(t, s.waiting[i].progr)
    <3> TAKE i \in DOMAIN s.waiting
    <3>1. PICK q \in Live(s) : s.tq[q].player = s.waiting[i].progr
      BY DEF OwnersOK, TasksOK, HasTQueue
    <3>2. q \in Live(t)
      BY <2>2, <3>1
    <3> QED BY <3>1, <3>2 DEF HasTQueue
  <2> QED BY <2>1, <2>3 DEF OwnersOK, TasksOK
<1>3. ConnectionsOK(t)
  <2>1. \A h \in ConnIds : s.handles[h].open => s.handles[h].queue \in Live(t)
    BY DEF OwnersOK, ConnectionsOK
  <2> QED BY <2>1 DEF OwnersOK, ConnectionsOK
<1> QED BY <1>1, <1>2, <1>3 DEF OwnersOK

(* free_idle_tqueues() *)
LEMMA FreeIdleTQueuesOwners ==
  ASSUME NEW s, HeapOK(s), OwnersOK(s)
  PROVE  OwnersOK(free_idle_tqueues(s))
<1> DEFINE dead == {q \in s.idle : ~s.tq[q].connected /\ s.tq[q].input = <<>>
                                   /\ s.tq[q].num_bg = 0}
           f == [q \in QueueIds |-> IF q \in dead THEN FreshQueue(NOTHING) ELSE s.tq[q]]
           t == free_idle_tqueues(s)
<1>1. t = [s EXCEPT !.idle = s.idle \ dead, !.tq = f]
  BY DEF free_idle_tqueues
<1>2. /\ dead \subseteq s.idle
      /\ \A q \in dead : ~s.tq[q].connected /\ s.tq[q].num_bg = 0
      /\ \A q \in QueueIds \ dead : f[q] = s.tq[q]
  OBVIOUS
<1> HIDE DEF dead, f, t
<1>3. /\ t.tq = f /\ t.active = s.active /\ t.idle = s.idle \ dead
      /\ t.waiting = s.waiting /\ t.handles = s.handles /\ t.panic = s.panic
  BY <1>1 DEF HeapOK, HeapType
<1>4. Live(t) = Live(s) \ dead
  BY <1>2, <1>3 DEF HeapOK, Live, Elems
<1>5. \A q \in Live(t) : t.tq[q] = s.tq[q]
  BY <1>2, <1>3, <1>4, LiveType
<1>6. dead \in SUBSET Live(s)
  BY <1>2 DEF Live
<1>7. OwnersOK(t)
  BY <1>2, <1>3, <1>4, <1>5, <1>6, FreedOwners
<1> QED BY <1>7 DEF t

(* The list without its first queue. *)
LEMMA TailElems ==
  ASSUME NEW S, NEW l \in Seq(S), l # <<>>
  PROVE  /\ Tail(l) \in Seq(S) /\ l[1] \in S /\ 1 \in DOMAIN l
         /\ Elems(l) = {l[1]} \cup Elems(Tail(l))
<1>1. /\ Tail(l) \in Seq(S) /\ 1 \in DOMAIN l
      /\ DOMAIN l = 1 .. Len(l) /\ DOMAIN Tail(l) = 1 .. Len(l) - 1
      /\ \A i \in DOMAIN Tail(l) : i + 1 \in DOMAIN l /\ Tail(l)[i] = l[i + 1]
  OBVIOUS
<1>2. \A i \in DOMAIN l : l[i] = l[1] \/ \E j \in DOMAIN Tail(l) : l[i] = Tail(l)[j]
  <2> TAKE i \in DOMAIN l
  <2>1. CASE i = 1 BY <2>1
  <2>2. CASE i # 1
    <3>1. i - 1 \in DOMAIN Tail(l) /\ (i - 1) + 1 = i
      BY <1>1, <2>2
    <3> QED BY <1>1, <3>1
  <2> QED BY <2>1, <2>2
<1>3. \A x \in Elems(l) : x \in {l[1]} \cup Elems(Tail(l))
  BY <1>2 DEF Elems
<1>4. \A x \in Elems(Tail(l)) : x \in Elems(l)
  BY <1>1 DEF Elems
<1>5. l[1] \in Elems(l) /\ l[1] \in S
  BY <1>1 DEF Elems
<1> QED BY <1>1, <1>3, <1>4, <1>5

(* deactivate_tqueue() of the first active queue. *)
LEMMA DeactivateOwners ==
  ASSUME NEW s, HeapOK(s), s.active # <<>>
  PROVE  SameOwners(s, deactivate_tqueue([s EXCEPT !.active = Tail(@)], s.active[1]))
<1> DEFINE q == s.active[1]
           r == [s.tq[q] EXCEPT !.usage = NO_USAGE]
           t == deactivate_tqueue([s EXCEPT !.active = Tail(@)], q)
<1>1. q \in QueueIds /\ Elems(s.active) = {q} \cup Elems(Tail(s.active))
  BY TailElems DEF HeapOK, HeapType
<1>2. t = [s EXCEPT !.tq[q] = r, !.active = Tail(s.active), !.idle = s.idle \cup {q}]
  BY DEF deactivate_tqueue
<1>3. SameOwner(s.tq[q], r)
  <2>1. s.tq[q] \in TQueue BY <1>1 DEF HeapOK, HeapType
  <2> QED BY <2>1 DEF TQueue, SameOwner
<1> HIDE DEF q, r, t
<1>4. /\ t.tq = [s.tq EXCEPT ![q] = r] /\ t.active = Tail(s.active)
      /\ t.idle = s.idle \cup {q} /\ t.waiting = s.waiting
      /\ t.handles = s.handles /\ t.panic = s.panic
  BY <1>2 DEF HeapOK, HeapType
<1>5. \A k \in QueueIds : t.tq[k] = IF k = q THEN r ELSE s.tq[k]
  BY <1>4 DEF HeapOK, HeapType
<1>6. Live(t) = Live(s)
  BY <1>1, <1>4 DEF Live
<1>7. SameOwners(s, t)
  BY <1>3, <1>4, <1>5, <1>6 DEF SameOwners, SameOwner, SameConnections
<1> QED BY <1>7 DEF q, t

(* What Bump() does to the queue that ran. *)
LEMMA ChargeFirstOwners ==
  ASSUME NEW s, HeapOK(s), s.active # <<>>, NEW e \in Nat
  PROVE  LET q == s.active[1]
             t == [s EXCEPT !.active = RestAfter(@, q), !.tq[q].usage = @ + e]
         IN SameOwners(s, activate_tqueue(t, q))
<1> DEFINE q == s.active[1]
           n == s.tq[q].usage + e
           r == [s.tq[q] EXCEPT !.usage = n]
           t == [s EXCEPT !.active = RestAfter(@, q), !.tq[q].usage = @ + e]
           u == activate_tqueue(t, q)
<1>1. /\ q \in QueueIds /\ 1 \in DOMAIN s.active /\ s.active \in Seq(QueueIds)
      /\ Elems(s.active) = {q} \cup Elems(Tail(s.active))
  BY SMTT(30), TailElems DEF HeapOK, HeapType
<1>2. /\ HeapOK(t) /\ q \notin t.idle /\ q \notin Elems(t.active)
      /\ t.tq[q].usage # NO_USAGE
  BY ChargeFirst
<1>3. RestAfter(s.active, q) = Tail(s.active)
  <2>1. \A i \in DOMAIN s.active : s.active[i] = q => i = 1
    BY <1>1 DEF HeapOK, HeapType
  <2>2. (CHOOSE j \in DOMAIN s.active : s.active[j] = q) = 1
    BY <1>1, <2>1
  <2>3. RestAfter(s.active, q) = SubSeq(s.active, 1 + 1, Len(s.active))
    <3> HIDE DEF q
    <3> QED BY <2>2, Zenon DEF RestAfter
  <2> QED BY <1>1, <2>3
<1>4. SameOwner(s.tq[q], r)
  <2>1. s.tq[q] \in TQueue BY <1>1 DEF HeapOK, HeapType
  <2> QED BY <2>1 DEF TQueue, SameOwner
<1>5. t = [s EXCEPT !.active = Tail(s.active), !.tq[q] = r]
  BY <1>3
<1> HIDE DEF q, r, t
<1>6. /\ t.tq = [s.tq EXCEPT ![q] = r] /\ t.active = Tail(s.active)
      /\ t.idle = s.idle /\ t.waiting = s.waiting
      /\ t.handles = s.handles /\ t.panic = s.panic
  BY <1>5 DEF HeapOK, HeapType
<1>7. \A k \in QueueIds : t.tq[k] = IF k = q THEN r ELSE s.tq[k]
  BY <1>6 DEF HeapOK, HeapType
<1>8. /\ u = [t EXCEPT !.active = u.active]
      /\ \E i \in 1 .. Len(t.active) + 1 : u.active = InsertAt(t.active, i, q)
  BY <1>1, <1>2, ActivateTQueue
<1> HIDE DEF u
<1>9. /\ u.tq = t.tq /\ u.idle = t.idle /\ u.waiting = t.waiting
      /\ u.handles = t.handles /\ u.panic = t.panic
  BY <1>2, <1>8 DEF HeapOK, HeapType
<1>10. Elems(u.active) = Elems(Tail(s.active)) \cup {q}
  <2>1. t.active \in Seq(QueueIds)
    BY <1>2 DEF HeapOK, HeapType
  <2>2. PICK i \in 1 .. Len(t.active) + 1 : u.active = InsertAt(t.active, i, q)
    BY <1>8
  <2>3. Elems(InsertAt(t.active, i, q)) = Elems(t.active) \cup {q}
    BY <1>1, <2>1, InsertAtElems
  <2> QED BY <1>6, <2>2, <2>3
<1>11. Live(u) = Live(s)
  BY <1>1, <1>6, <1>9, <1>10 DEF Live
<1>12. SameOwners(s, u)
  BY <1>4, <1>6, <1>7, <1>9, <1>11 DEF SameOwners, SameOwner, SameConnections
<1> QED BY <1>12 DEF q, t, u

-----------------------------------------------------------------------------
(* Login *)

(* From s to t the tasks on q go to a new queue for old, if there are any. *)
LeavesTasks(s, t, q, old) ==
  /\ t.waiting = s.waiting /\ t.panic = s.panic /\ t.handles = s.handles
  /\ \A k \in Live(s) \ {q} : t.tq[k] = s.tq[k]
  /\ t.tq[q].player = s.tq[q].player /\ t.tq[q].connected = s.tq[q].connected
  /\ t.tq[q].bg = <<>> /\ t.tq[q].num_bg = 0
  /\ \/ Live(t) = Live(s) /\ s.tq[q].num_bg = 0
     \/ \E o \in QueueIds \ Live(s) :
          /\ Live(t) = Live(s) \cup {o}
          /\ t.tq[o].player = old /\ ~t.tq[o].connected
          /\ t.tq[o].bg = s.tq[q].bg /\ t.tq[o].num_bg = s.tq[q].num_bg

(* leave_own_tasks() *)
LEMMA LeaveOwnTasksEffect ==
  ASSUME NEW s, HeapOK(s), NEW q \in Live(s), NEW old \in Int, ~HasTQueue(s, old),
         s.tq[q].num_bg = 0 \/ HasRoomFor(s, old),
         s.tq[q].num_bg = 0 => s.tq[q].bg = <<>>
  PROVE  LeavesTasks(s, leave_own_tasks(s, q, old), q, old)
<1>1. CASE s.tq[q].num_bg = 0
  BY <1>1 DEF leave_own_tasks, LeavesTasks
<1>2. CASE s.tq[q].num_bg # 0
  <2> DEFINE s1 == find_tqueue(s, old)
             o == TQueueOf(s1, old)
             n == s.tq[q].num_bg
             b == s.tq[q].bg
             x == [s1.tq[o] EXCEPT !.num_bg = n, !.bg = @ \o b]
             y == [s1.tq[q] EXCEPT !.bg = <<>>, !.num_bg = 0]
             t == leave_own_tasks(s, q, old)
  <2>1. /\ o \in QueueIds \ Live(s) /\ Live(s1) = Live(s) \cup {o}
        /\ s1.tq = [s.tq EXCEPT ![o] = FreshQueue(old)]
        /\ s1.active = s.active /\ s1.waiting = s.waiting
        /\ s1.handles = s.handles /\ s1.panic = s.panic
    BY <1>2, FindTQueueNew
  <2>2. HeapOK(s1)
    BY <1>2, FindTQueue DEF Preserves
  <2>3. t = [s1 EXCEPT !.tq[o].num_bg = n, !.tq[o].bg = @ \o b,
                       !.tq[q].bg = <<>>, !.tq[q].num_bg = 0]
    BY <1>2 DEF leave_own_tasks
  <2> HIDE DEF s1, o, t
  <2>4. q \in QueueIds /\ q # o
    BY <2>1, LiveType
  <2>5. \A k \in QueueIds : s1.tq[k] = IF k = o THEN FreshQueue(old) ELSE s.tq[k]
    BY <2>1 DEF HeapOK, HeapType
  <2>6. b \in Seq(Task)
    BY <2>4, QueueFields
  <2>7. /\ x.player = old /\ x.connected = FALSE /\ x.bg = b /\ x.num_bg = n
    <3>1. s1.tq[o] = FreshQueue(old)
      BY <2>1, <2>5
    <3>2. <<>> \o b = b
      BY <2>6
    <3> HIDE DEF b, n
    <3> QED BY <3>1, <3>2 DEF FreshQueue
  <2>8. /\ y.player = s.tq[q].player /\ y.connected = s.tq[q].connected
        /\ y.bg = <<>> /\ y.num_bg = 0
    <3>1. s1.tq[q] = s.tq[q] /\ s.tq[q] \in TQueue
      BY <2>4, <2>5 DEF HeapOK, HeapType
    <3> QED BY <3>1 DEF TQueue
  <2>9. t = [s1 EXCEPT !.tq = [[s1.tq EXCEPT ![o] = x] EXCEPT ![q] = y]]
    <3>1. [s1.tq EXCEPT ![o] = x][q] = s1.tq[q]
      <4> HIDE DEF x
      <4> QED BY <2>1, <2>2, <2>4 DEF HeapOK, HeapType
    <3>2. s1.tq \in [QueueIds -> TQueue] /\ o \in QueueIds
      BY <2>1, <2>2 DEF HeapOK, HeapType
    <3> QED BY ZenonT(40), <2>3, <2>4, <3>1, <3>2
  <2> HIDE DEF x, y
  <2>10. /\ t.tq = [[s1.tq EXCEPT ![o] = x] EXCEPT ![q] = y] /\ t.active = s1.active
         /\ t.idle = s1.idle /\ t.waiting = s1.waiting
         /\ t.handles = s1.handles /\ t.panic = s1.panic
    BY <2>2, <2>9 DEF HeapOK, HeapType
  <2>11. \A k \in QueueIds : t.tq[k] = IF k = q THEN y ELSE IF k = o THEN x ELSE s.tq[k]
    BY <2>2, <2>5, <2>10 DEF HeapOK, HeapType
  <2>12. Live(t) = Live(s1)
    BY <2>10 DEF Live
  <2>13. \A k \in Live(s) \ {q} : t.tq[k] = s.tq[k]
    BY <2>1, <2>11, LiveType
  <2>14. LeavesTasks(s, t, q, old)
    BY <2>1, <2>4, <2>7, <2>8, <2>10, <2>11, <2>12, <2>13 DEF LeavesTasks
  <2> QED BY <2>14 DEF t
<1> QED BY <1>1, <1>2

(* From s to t the tasks of the queue dead become those of q, and dead is left
   to be freed. *)
Merges(s, t, q, dead) ==
  /\ Live(t) = Live(s) /\ t.waiting = s.waiting /\ t.panic = s.panic
  /\ SameConnections(s, t)
  /\ \A k \in QueueIds \ {q, dead} : SameOwner(s.tq[k], t.tq[k])
  /\ t.tq[q].player = s.tq[q].player /\ t.tq[q].connected = s.tq[q].connected
  /\ t.tq[q].bg = s.tq[q].bg \o s.tq[dead].bg /\ t.tq[q].num_bg = s.tq[dead].num_bg
  /\ t.tq[dead].player = NOTHING /\ t.tq[dead].connected = s.tq[dead].connected
  /\ t.tq[dead].bg = <<>> /\ t.tq[dead].num_bg = 0

(* merge_dead_tqueue() *)
LEMMA MergeDeadTQueueEffect ==
  ASSUME NEW s, HeapOK(s), NEW q \in Live(s), NEW dead \in Live(s), q # dead,
         Reachable(s, dead)
  PROVE  Merges(s, merge_dead_tqueue(s, q, dead), q, dead)
<1> DEFINE n == s.tq[dead].num_bg
           r == [s.tq[q] EXCEPT !.num_bg = n]
           s0 == [s EXCEPT !.tq[q].num_bg = n]
           s1 == dequeue_all_input(s0, dead)
           x == [s1.tq[q] EXCEPT !.bg = @ \o s1.tq[dead].bg]
           y == [s1.tq[dead] EXCEPT !.bg = <<>>, !.player = NOTHING, !.num_bg = 0]
           t == merge_dead_tqueue(s, q, dead)
<1>1. q \in QueueIds /\ dead \in QueueIds
  BY LiveType
<1>2. s.tq[q] \in TQueue /\ s.tq[dead] \in TQueue /\ n \in Int
  BY <1>1, QueueFields DEF HeapOK, HeapType
<1>3. t = [s1 EXCEPT !.tq[q].bg = @ \o s1.tq[dead].bg, !.tq[dead].bg = <<>>,
                     !.tq[dead].player = NOTHING, !.tq[dead].num_bg = 0]
  BY DEF merge_dead_tqueue
<1>4. HeapOK(s0)
  BY <1>1, <1>2, SetNumBg DEF Preserves
<1>5. /\ r.player = s.tq[q].player /\ r.connected = s.tq[q].connected
      /\ r.bg = s.tq[q].bg /\ r.num_bg = n
  BY <1>2 DEF TQueue
<1>6. /\ s0.tq = [s.tq EXCEPT ![q] = r] /\ s0.active = s.active /\ s0.idle = s.idle
      /\ s0.waiting = s.waiting /\ s0.handles = s.handles /\ s0.panic = s.panic
  BY DEF HeapOK, HeapType
<1> HIDE DEF r, s0, n, t
<1>7. \A k \in QueueIds : s0.tq[k] = IF k = q THEN r ELSE s.tq[k]
  BY <1>6 DEF HeapOK, HeapType
<1>8. Live(s0) = Live(s) /\ Reachable(s0, dead)
  BY <1>1, <1>6, <1>7 DEF Live, Reachable, HasHandle
<1>9. HeapOK(s1) /\ SameOwners(s0, s1)
  BY <1>1, <1>4, <1>8, DequeueAllInput, DequeueAllOwners DEF Preserves
<1> HIDE DEF s1
<1>10. /\ s1.tq[q] \in TQueue /\ s1.tq[dead] \in TQueue
       /\ s1.tq \in [QueueIds -> TQueue]
  BY <1>1, <1>9 DEF HeapOK, HeapType
<1>11. /\ x.player = s1.tq[q].player /\ x.connected = s1.tq[q].connected
       /\ x.bg = s1.tq[q].bg \o s1.tq[dead].bg /\ x.num_bg = s1.tq[q].num_bg
  BY <1>10 DEF TQueue
<1>12. /\ y.player = NOTHING /\ y.connected = s1.tq[dead].connected
       /\ y.bg = <<>> /\ y.num_bg = 0
  BY <1>10 DEF TQueue
<1>13. t = [s1 EXCEPT !.tq = [[s1.tq EXCEPT ![q] = x] EXCEPT ![dead] = y]]
  <2>1. [s1.tq EXCEPT ![q] = x][dead] = s1.tq[dead]
    <3> HIDE DEF x
    <3> QED BY <1>1, <1>10
  <2> QED BY ZenonT(40), <1>1, <1>3, <1>10, <2>1
<1> HIDE DEF x, y
<1>14. /\ t.tq = [[s1.tq EXCEPT ![q] = x] EXCEPT ![dead] = y] /\ t.active = s1.active
       /\ t.idle = s1.idle /\ t.waiting = s1.waiting
       /\ t.handles = s1.handles /\ t.panic = s1.panic
  BY <1>9, <1>13 DEF HeapOK, HeapType
<1>15. \A k \in QueueIds : t.tq[k] = IF k = dead THEN y ELSE IF k = q THEN x ELSE s1.tq[k]
  BY <1>10, <1>14
<1>16. Live(t) = Live(s) /\ t.waiting = s.waiting /\ t.panic = s.panic
       /\ SameConnections(s, t)
  BY <1>6, <1>8, <1>9, <1>14 DEF Live, SameOwners, SameConnections
<1>17. /\ \A k \in QueueIds \ {q, dead} : SameOwner(s.tq[k], t.tq[k])
       /\ t.tq[q].player = s.tq[q].player /\ t.tq[q].connected = s.tq[q].connected
       /\ t.tq[q].bg = s.tq[q].bg \o s.tq[dead].bg /\ t.tq[q].num_bg = s.tq[dead].num_bg
  <2>1. \A k \in QueueIds \ {q, dead} : SameOwner(s.tq[k], t.tq[k])
    BY <1>7, <1>9, <1>15 DEF SameOwners
  <2>2. s1.tq[dead].bg = s.tq[dead].bg
    BY <1>1, <1>7, <1>9 DEF SameOwners, SameOwner
  <2>3. /\ s1.tq[q].player = r.player /\ s1.tq[q].connected = r.connected
        /\ s1.tq[q].bg = r.bg /\ s1.tq[q].num_bg = r.num_bg
    BY <1>1, <1>7, <1>9 DEF SameOwners, SameOwner
  <2>4. t.tq[q] = x
    BY <1>1, <1>15
  <2> QED BY <1>5, <1>11, <2>1, <2>2, <2>3, <2>4 DEF n
<1>18. /\ t.tq[dead].player = NOTHING /\ t.tq[dead].connected = s.tq[dead].connected
       /\ t.tq[dead].bg = <<>> /\ t.tq[dead].num_bg = 0
  BY <1>1, <1>7, <1>9, <1>12, <1>15 DEF SameOwners, SameOwner
<1>19. Merges(s, t, q, dead)
  BY <1>16, <1>17, <1>18 DEF Merges
<1> QED BY <1>19 DEF t

(* From s to t the user p takes over the connection h, on the queue q, which
   was old's: p's own queue, if there is one, gives its tasks to q and loses its
   connection, and old's tasks have moved to a new queue. *)
LoggedIn(s, t, q, h, p) ==
  /\ t.waiting = s.waiting /\ t.panic = s.panic
  /\ Live(s) \subseteq Live(t)
  /\ \A k \in Live(s) \ {q} : s.tq[k].player # p => SameOwner(s.tq[k], t.tq[k])
  /\ \A k \in Live(s) : s.tq[k].player = p =>
       /\ t.tq[k].player = NOTHING /\ ~t.tq[k].connected
       /\ t.tq[k].bg = <<>> /\ t.tq[k].num_bg = 0
       /\ t.tq[q].bg = s.tq[k].bg /\ t.tq[q].num_bg = s.tq[k].num_bg
  /\ t.tq[q].player = p /\ t.tq[q].connected
  /\ ~HasTQueue(s, p) => t.tq[q].bg = <<>> /\ t.tq[q].num_bg = 0
  /\ \A k \in Live(t) \ Live(s) :
       /\ t.tq[k].player = s.tq[q].player /\ ~t.tq[k].connected
       /\ t.tq[k].bg = s.tq[q].bg /\ t.tq[k].num_bg = s.tq[q].num_bg
  /\ \A j, k \in Live(t) \ Live(s) : j = k
  /\ Live(t) = Live(s) => s.tq[q].num_bg = 0
  /\ t.handles[h].open /\ t.handles[h].queue = q /\ t.handles[h].player = p
  /\ \A k \in ConnIds \ {h} :
       /\ t.handles[k].open <=> s.handles[k].open /\ s.handles[k].player # p
       /\ t.handles[k].open => /\ t.handles[k].player = s.handles[k].player
                               /\ t.handles[k].queue = s.handles[k].queue

(* The connection of the queue that a player has taken over becomes the player's. *)
LEMMA LoggedInOwners ==
  ASSUME NEW s, HeapOK(s), OwnersOK(s), NEW q \in Live(s), s.tq[q].connected,
         s.tq[q].player < 0, NEW h \in ConnIds, s.handles[h].open, s.handles[h].queue = q,
         NEW p \in Nat, NEW t, LoggedIn(s, t, q, h, p)
  PROVE  OwnersOK(t)
<1> DEFINE old == s.tq[q].player
<1>1. /\ old # NOTHING /\ p # NOTHING /\ p # old
      /\ \A k \in Live(s) : s.tq[k].player = old => k = q
      /\ \A j, k \in Live(s) : s.tq[j].player = p /\ s.tq[k].player = p => j = k
  BY DEF OwnersOK, QueuesOK, NOTHING
<1>2. \A k \in Live(t) : \/ k = q
                         \/ k \in Live(s) \ {q} /\ s.tq[k].player # p
                         \/ k \in Live(s) \ {q} /\ s.tq[k].player = p
                         \/ k \in Live(t) \ Live(s)
  OBVIOUS
<1>3. QueuesOK(t)
  <2>1. \A k \in Live(t) : t.tq[k].player = NOTHING => t.tq[k].bg = <<>> /\ ~t.tq[k].connected
    BY <1>1, <1>2 DEF LoggedIn, SameOwner, OwnersOK, QueuesOK
  <2>2. \A j, k \in Live(t) : t.tq[j].player = t.tq[k].player => j = k \/ t.tq[j].player = NOTHING
    <3>1. \A k \in Live(t) : t.tq[k].player = p => k = q
      BY <1>1, <1>2 DEF LoggedIn, SameOwner
    <3>2. \A k \in Live(t) : t.tq[k].player = old => k \notin Live(s)
      BY <1>1, <1>2 DEF LoggedIn, SameOwner
    <3>3. \A j, k \in Live(t) : t.tq[j].player = old /\ t.tq[k].player = old => j = k
      BY <3>2 DEF LoggedIn
    <3>4. \A k \in Live(t) : t.tq[k].player \notin {p, old, NOTHING} =>
            k \in Live(s) /\ t.tq[k].player = s.tq[k].player
      BY <1>1, <1>2 DEF LoggedIn, SameOwner
    <3> QED BY <3>1, <3>3, <3>4 DEF OwnersOK, QueuesOK
  <2> QED BY <2>1, <2>2 DEF QueuesOK
<1>4. TasksOK(t)
  <2>1. /\ Len(<<>>) = 0 /\ t.waiting = s.waiting
        /\ \A o : ~HasTQueue(s, o) => Cardinality(Own(s.waiting, o)) = 0
    <3>1. \A o : ~HasTQueue(s, o) => Own(s.waiting, o) = {}
      BY DEF Own, OwnersOK, TasksOK
    <3> QED BY <3>1, FS_EmptySet DEF LoggedIn
  <2>2. \A k \in Live(t) : t.tq[k].num_bg = Counted(t, k)
    <3> TAKE k \in Live(t)
    <3>1. CASE k = q /\ HasTQueue(s, p)
      <4>1. PICK d \in Live(s) : s.tq[d].player = p
        BY <3>1 DEF HasTQueue
      <4>2. t.tq[q].bg = s.tq[d].bg /\ t.tq[q].num_bg = s.tq[d].num_bg /\ t.tq[q].player = p
        BY <4>1 DEF LoggedIn
      <4>3. Counted(t, q) = Counted(s, d)
        BY <2>1, <4>1, <4>2 DEF Counted
      <4> QED BY <3>1, <4>2, <4>3 DEF OwnersOK, TasksOK
    <3>2. CASE k = q /\ ~HasTQueue(s, p)
      <4>1. t.tq[q].bg = <<>> /\ t.tq[q].num_bg = 0 /\ t.tq[q].player = p
        BY <3>2 DEF LoggedIn
      <4> QED BY <1>1, <2>1, <3>2, <4>1 DEF Counted
    <3>3. CASE k \in Live(s) \ {q} /\ s.tq[k].player # p
      <4>1. SameOwner(s.tq[k], t.tq[k])
        BY <3>3 DEF LoggedIn
      <4>2. Counted(t, k) = Counted(s, k)
        BY <2>1, <4>1 DEF Counted, SameOwner
      <4> QED BY <3>3, <4>1, <4>2 DEF OwnersOK, TasksOK, SameOwner
    <3>4. CASE k \in Live(s) \ {q} /\ s.tq[k].player = p
      <4>1. t.tq[k].player = NOTHING /\ t.tq[k].bg = <<>> /\ t.tq[k].num_bg = 0
        BY <3>4 DEF LoggedIn
      <4> QED BY <2>1, <4>1 DEF Counted
    <3>5. CASE k \in Live(t) \ Live(s)
      <4>1. t.tq[k].player = old /\ t.tq[k].bg = s.tq[q].bg /\ t.tq[k].num_bg = s.tq[q].num_bg
        BY <3>5 DEF LoggedIn
      <4>2. Counted(t, k) = Counted(s, q)
        BY <2>1, <4>1 DEF Counted
      <4> QED BY <4>1, <4>2 DEF OwnersOK, TasksOK
    <3> QED BY <1>2, <3>1, <3>2, <3>3, <3>4, <3>5
  <2>3. \A k \in Live(t) : \A i \in DOMAIN t.tq[k].bg : t.tq[k].bg[i].progr = t.tq[k].player
    <3> TAKE k \in Live(t)
    <3>1. CASE k = q
      <4>1. CASE HasTQueue(s, p)
        <5>1. PICK d \in Live(s) : s.tq[d].player = p
          BY <4>1 DEF HasTQueue
        <5>2. t.tq[q].bg = s.tq[d].bg /\ t.tq[q].player = p
          BY <5>1 DEF LoggedIn
        <5> QED BY <3>1, <5>1, <5>2 DEF OwnersOK, TasksOK
      <4>2. CASE ~HasTQueue(s, p)
        BY <3>1, <4>2 DEF LoggedIn
      <4> QED BY <4>1, <4>2
    <3>2. CASE k \in Live(s) \ {q} /\ s.tq[k].player # p
      BY <3>2 DEF LoggedIn, SameOwner, OwnersOK, TasksOK
    <3>3. CASE k \in Live(s) \ {q} /\ s.tq[k].player = p
      BY <3>3 DEF LoggedIn
    <3>4. CASE k \in Live(t) \ Live(s)
      <4>1. t.tq[k].player = old /\ t.tq[k].bg = s.tq[q].bg
        BY <3>4 DEF LoggedIn
      <4> QED BY <4>1 DEF OwnersOK, TasksOK
    <3> QED BY <1>2, <3>1, <3>2, <3>3, <3>4
  <2>4. \A i \in DOMAIN s.waiting :
          HasTQueue(t, s.waiting[i].progr) /\ s.waiting[i].progr # NOTHING
    <3> TAKE i \in DOMAIN s.waiting
    <3> DEFINE o == s.waiting[i].progr
    <3>0. o # NOTHING
      BY DEF OwnersOK, TasksOK
    <3>1. PICK k \in Live(s) : s.tq[k].player = o
      BY DEF OwnersOK, TasksOK, HasTQueue
    <3>2. CASE o = p
      <4>1. q \in Live(t) /\ t.tq[q].player = p
        BY DEF LoggedIn
      <4> QED BY <3>0, <3>2, <4>1 DEF HasTQueue
    <3>3. CASE o = old
      <4>1. s.tq[q].num_bg # 0
        <5>1. IsFiniteSet(Own(s.waiting, old)) /\ Cardinality(Own(s.waiting, old)) \in Nat
          BY OwnFinite DEF HeapOK, HeapType
        <5>2. i \in Own(s.waiting, old)
          BY <3>3 DEF Own
        <5>3. Cardinality(Own(s.waiting, old)) # 0
          BY <5>1, <5>2, FS_EmptySet
        <5>4. Len(s.tq[q].bg) \in Nat
          <6>1. q \in QueueIds BY LiveType
          <6>2. s.tq[q].bg \in Seq(Task) BY <6>1, QueueFields
          <6> QED BY <6>2
        <5>5. s.tq[q].num_bg = Len(s.tq[q].bg) + Cardinality(Own(s.waiting, old))
          BY <1>1 DEF OwnersOK, TasksOK, Counted
        <5> HIDE DEF old, o
        <5>6. \A m, c \in Nat : m + c = 0 => c = 0
          OBVIOUS
        <5> QED BY <5>1, <5>3, <5>4, <5>5, <5>6
      <4>2. PICK j \in Live(t) : j \notin Live(s)
        BY <4>1 DEF LoggedIn
      <4>3. t.tq[j].player = old
        BY <4>2 DEF LoggedIn
      <4> QED BY <3>0, <3>3, <4>2, <4>3 DEF HasTQueue
    <3>4. CASE o # p /\ o # old
      <4>1. k # q
        BY <3>1, <3>4
      <4>2. SameOwner(s.tq[k], t.tq[k])
        BY <3>1, <3>4, <4>1 DEF LoggedIn
      <4>3. k \in Live(t) /\ t.tq[k].player = o
        BY <3>1, <4>2 DEF LoggedIn, SameOwner
      <4> QED BY <3>0, <4>3 DEF HasTQueue
    <3> QED BY <3>2, <3>3, <3>4
  <2> QED BY <2>1, <2>2, <2>3, <2>4 DEF TasksOK
<1>5. ConnectionsOK(t)
  <2>1. \A k \in ConnIds \ {h} : t.handles[k].open =>
          /\ s.handles[k].open /\ s.handles[k].player # p
          /\ t.handles[k].player = s.handles[k].player
          /\ t.handles[k].queue = s.handles[k].queue
          /\ s.handles[k].queue \in Live(s) \ {q}
          /\ s.tq[s.handles[k].queue].player = s.handles[k].player
    BY DEF LoggedIn, OwnersOK, ConnectionsOK
  <2>2. \A k \in ConnIds : t.handles[k].open =>
          /\ t.handles[k].queue \in Live(t)
          /\ t.tq[t.handles[k].queue].connected
          /\ t.tq[t.handles[k].queue].player = t.handles[k].player
          /\ t.handles[k].player = k \/ t.handles[k].player >= 0
    <3> SUFFICES ASSUME NEW k \in ConnIds, t.handles[k].open
                 PROVE  /\ t.handles[k].queue \in Live(t)
                        /\ t.tq[t.handles[k].queue].connected
                        /\ t.tq[t.handles[k].queue].player = t.handles[k].player
                        /\ t.handles[k].player = k \/ t.handles[k].player >= 0
      OBVIOUS
    <3>1. CASE k = h BY SMTT(30), <3>1 DEF LoggedIn
    <3>2. CASE k # h
      <4> DEFINE d == s.handles[k].queue
      <4>1. SameOwner(s.tq[d], t.tq[d])
        BY <2>1, <3>2 DEF LoggedIn
      <4>2. s.tq[d].connected /\ (s.handles[k].player = k \/ s.handles[k].player >= 0)
        BY <2>1, <3>2 DEF OwnersOK, ConnectionsOK
      <4> QED BY <2>1, <3>2, <4>1, <4>2 DEF LoggedIn, SameOwner
    <3> QED BY <3>1, <3>2
  <2>3. \A k \in Live(t) : t.tq[k].connected =>
          \E i \in ConnIds : t.handles[i].open /\ t.handles[i].queue = k
    <3> SUFFICES ASSUME NEW k \in Live(t), t.tq[k].connected
                 PROVE  \E i \in ConnIds : t.handles[i].open /\ t.handles[i].queue = k
      OBVIOUS
    <3>1. CASE k = q BY <3>1 DEF LoggedIn
    <3>2. CASE k # q
      <4>1. k \in Live(s) \ {q} /\ s.tq[k].player # p /\ s.tq[k].connected
        BY <1>2, <3>2 DEF LoggedIn, SameOwner
      <4>2. PICK i \in ConnIds : s.handles[i].open /\ s.handles[i].queue = k
        BY <4>1 DEF OwnersOK, ConnectionsOK
      <4>3. i # h /\ s.handles[i].player # p
        BY <4>1, <4>2 DEF OwnersOK, ConnectionsOK
      <4> QED BY <4>2, <4>3 DEF LoggedIn
    <3> QED BY <3>1, <3>2
  <2>4. \A i, k \in ConnIds :
          t.handles[i].open /\ t.handles[k].open /\ t.handles[i].queue = t.handles[k].queue
            => i = k
    <3> SUFFICES ASSUME NEW i \in ConnIds, NEW k \in ConnIds, t.handles[i].open,
                        t.handles[k].open, t.handles[i].queue = t.handles[k].queue
                 PROVE  i = k
      OBVIOUS
    <3>1. CASE i = h \/ k = h BY <2>1, <3>1 DEF LoggedIn
    <3>2. CASE i # h /\ k # h BY <2>1, <3>2 DEF OwnersOK, ConnectionsOK
    <3> QED BY <3>1, <3>2
  <2> QED BY <2>2, <2>3, <2>4 DEF ConnectionsOK
<1> QED BY <1>3, <1>4, <1>5 DEF OwnersOK, LoggedIn

(* From s to t the queue q becomes p's, with the tasks of p's own queue. *)
TakesOver(s, t, q, p) ==
  /\ t.waiting = s.waiting /\ t.panic = s.panic
  /\ SameConnections(s, t)
  /\ Live(s) \subseteq Live(t)
  /\ \A k \in Live(s) \ {q} : s.tq[k].player # p => SameOwner(s.tq[k], t.tq[k])
  /\ \A k \in Live(s) : s.tq[k].player = p =>
       /\ t.tq[k].player = NOTHING /\ t.tq[k].connected = s.tq[k].connected
       /\ t.tq[k].bg = <<>> /\ t.tq[k].num_bg = 0
       /\ t.tq[q].bg = s.tq[k].bg /\ t.tq[q].num_bg = s.tq[k].num_bg
  /\ t.tq[q].player = p /\ t.tq[q].connected
  /\ ~HasTQueue(s, p) => t.tq[q].bg = <<>> /\ t.tq[q].num_bg = 0
  /\ \A k \in Live(t) \ Live(s) :
       /\ t.tq[k].player = s.tq[q].player /\ ~t.tq[k].connected
       /\ t.tq[k].bg = s.tq[q].bg /\ t.tq[k].num_bg = s.tq[q].num_bg
  /\ \A j, k \in Live(t) \ Live(s) : j = k
  /\ Live(t) = Live(s) => s.tq[q].num_bg = 0

(* What do_login_task() does to the queues. *)
LEMMA TakesOverEffect ==
  ASSUME NEW s, HeapOK(s), OwnersOK(s), NEW q \in Live(s), s.tq[q].connected,
         s.tq[q].player < 0, NEW p \in Nat, s.tq[q].num_bg = 0 \/ Live(s) # QueueIds
  PROVE  LET old == s.tq[q].player
             s1 == leave_own_tasks([s EXCEPT !.tq[q].player = p], q, old)
             s2 == IF HasTQueue(s, p) THEN merge_dead_tqueue(s1, q, TQueueOf(s, p)) ELSE s1
         IN HeapOK(s2) /\ TakesOver(s, s2, q, p)
<1> DEFINE old == s.tq[q].player
           r == [s.tq[q] EXCEPT !.player = p]
           s0 == [s EXCEPT !.tq[q].player = p]
           s1 == leave_own_tasks(s0, q, old)
           dead == TQueueOf(s, p)
           s2 == IF HasTQueue(s, p) THEN merge_dead_tqueue(s1, q, dead) ELSE s1
<1>1. /\ old # NOTHING /\ p # NOTHING /\ p # old /\ old \in Int /\ p \in Int
      /\ \A k \in Live(s) : s.tq[k].player = old => k = q
      /\ \A j, k \in Live(s) : s.tq[j].player = p /\ s.tq[k].player = p => j = k
  <2>1. q \in QueueIds BY LiveType
  <2>2. old \in Int BY <2>1, QueueFields
  <2> QED BY <2>2 DEF OwnersOK, QueuesOK, NOTHING
<1>2. \A k \in Live(s) : k \in QueueIds
  BY LiveType
<1>3. s.tq[q] \in TQueue /\ s.tq[q].bg \in Seq(Task) /\ s.tq[q].num_bg \in Int
  BY <1>2, QueueFields DEF HeapOK, HeapType
<1>4. /\ r.player = p /\ r.connected = s.tq[q].connected
      /\ r.bg = s.tq[q].bg /\ r.num_bg = s.tq[q].num_bg
  BY <1>3 DEF TQueue
<1>5. HeapOK(s0) /\ Live(s0) = Live(s)
  BY <1>1, <1>2, SetPlayer DEF Preserves
<1>6. /\ s0.tq = [s.tq EXCEPT ![q] = r] /\ s0.waiting = s.waiting
      /\ s0.handles = s.handles /\ s0.panic = s.panic
  BY DEF HeapOK, HeapType
<1> HIDE DEF r, s0, old
<1>7. \A k \in QueueIds : s0.tq[k] = IF k = q THEN r ELSE s.tq[k]
  BY <1>6 DEF HeapOK, HeapType
<1>8. ~HasTQueue(s0, old)
  BY <1>1, <1>2, <1>4, <1>5, <1>7 DEF HasTQueue
<1>9. s0.tq[q].num_bg = 0 => s0.tq[q].bg = <<>>
  <2>1. s.tq[q].num_bg = Len(s.tq[q].bg) + Cardinality(Own(s.waiting, old))
    BY <1>1 DEF OwnersOK, TasksOK, Counted, old
  <2>2. Cardinality(Own(s.waiting, old)) \in Nat /\ Len(s.tq[q].bg) \in Nat
    BY <1>3, OwnFinite DEF HeapOK, HeapType
  <2>3. \A m, c \in Nat : m + c = 0 => m = 0
    OBVIOUS
  <2>4. s.tq[q].num_bg = 0 => Len(s.tq[q].bg) = 0
    BY <2>1, <2>2, <2>3
  <2>5. Len(s.tq[q].bg) = 0 => s.tq[q].bg = <<>>
    BY <1>3
  <2> QED BY <1>2, <1>4, <1>7, <2>4, <2>5
<1>10. s0.tq[q].num_bg = 0 \/ HasRoomFor(s0, old)
  BY <1>2, <1>4, <1>5, <1>7 DEF HasRoomFor
<1>11. LeavesTasks(s0, s1, q, old) /\ HeapOK(s1)
  BY <1>1, <1>2, <1>5, <1>8, <1>9, <1>10, LeaveOwnTasksEffect, LeaveOwnTasks DEF Preserves
<1> HIDE DEF s1
<1>12. /\ s1.waiting = s.waiting /\ s1.panic = s.panic /\ s1.handles = s.handles
       /\ Live(s) \subseteq Live(s1)
       /\ s1.tq[q].player = p /\ s1.tq[q].connected
       /\ s1.tq[q].bg = <<>> /\ s1.tq[q].num_bg = 0
  BY <1>2, <1>4, <1>5, <1>6, <1>7, <1>11 DEF LeavesTasks
<1>13. \A k \in Live(s) \ {q} : s1.tq[k] = s.tq[k]
  BY <1>2, <1>5, <1>7, <1>11 DEF LeavesTasks
<1>14. /\ \A k \in Live(s1) \ Live(s) :
            /\ s1.tq[k].player = old /\ ~s1.tq[k].connected
            /\ s1.tq[k].bg = s.tq[q].bg /\ s1.tq[k].num_bg = s.tq[q].num_bg
       /\ \A j, k \in Live(s1) \ Live(s) : j = k
       /\ Live(s1) = Live(s) => s.tq[q].num_bg = 0
  <2>1. s0.tq[q].bg = s.tq[q].bg /\ s0.tq[q].num_bg = s.tq[q].num_bg
    BY <1>2, <1>4, <1>7
  <2>2. CASE Live(s1) = Live(s0) /\ s0.tq[q].num_bg = 0
    BY <1>5, <2>1, <2>2
  <2>3. CASE \E o \in QueueIds \ Live(s0) :
               /\ Live(s1) = Live(s0) \cup {o}
               /\ s1.tq[o].player = old /\ ~s1.tq[o].connected
               /\ s1.tq[o].bg = s0.tq[q].bg /\ s1.tq[o].num_bg = s0.tq[q].num_bg
    BY <1>5, <2>1, <2>3
  <2> QED BY <1>11, <2>2, <2>3 DEF LeavesTasks
<1>15. CASE ~HasTQueue(s, p)
  <2>1. s2 = s1
    BY <1>15
  <2>2. \A k \in Live(s) : s.tq[k].player # p
    BY <1>15 DEF HasTQueue
  <2> HIDE DEF s2
  <2>3. TakesOver(s, s2, q, p)
    BY <1>12, <1>13, <1>14, <2>1, <2>2 DEF TakesOver, SameConnections, SameOwner, old
  <2> QED BY <1>11, <2>1, <2>3 DEF s2, s1, s0, old
<1>16. CASE HasTQueue(s, p)
  <2>1. dead \in Live(s) /\ s.tq[dead].player = p /\ dead \in QueueIds /\ dead # q
    BY <1>1, <1>16, TQueueOfLive DEF old
  <2>2. s2 = merge_dead_tqueue(s1, q, dead)
    BY <1>16
  <2> HIDE DEF dead, s2
  <2>3. Reachable(s1, dead)
    BY <1>12, <1>13, <2>1, OwnersReachable DEF Reachable, HasHandle
  <2>4. Merges(s1, s2, q, dead) /\ HeapOK(s2)
    BY <1>2, <1>11, <1>12, <2>1, <2>2, <2>3, MergeDeadTQueue, MergeDeadTQueueEffect
       DEF Preserves
  <2>5. \A k \in Live(s1) : k \in QueueIds
    BY <1>11, LiveType
  <2>6. \A k \in Live(s) : s.tq[k].player = p => k = dead
    BY <1>1, <2>1
  <2>7. /\ s2.waiting = s.waiting /\ s2.panic = s.panic
        /\ SameConnections(s, s2) /\ Live(s2) = Live(s1)
    BY <1>12, <2>4 DEF Merges, SameConnections
  <2>8. \A k \in Live(s) \ {q} : s.tq[k].player # p => SameOwner(s.tq[k], s2.tq[k])
    BY <1>2, <1>13, <2>1, <2>4 DEF Merges
  <2>9. <<>> \o s.tq[dead].bg = s.tq[dead].bg
    <3>1. s.tq[dead].bg \in Seq(Task) BY <2>1, QueueFields
    <3> QED BY <3>1
  <2>10. /\ s2.tq[q].bg = s.tq[dead].bg /\ s2.tq[q].num_bg = s.tq[dead].num_bg
         /\ s2.tq[q].player = p /\ s2.tq[q].connected
         /\ s2.tq[dead].player = NOTHING /\ s2.tq[dead].connected = s.tq[dead].connected
         /\ s2.tq[dead].bg = <<>> /\ s2.tq[dead].num_bg = 0
    BY <1>12, <1>13, <2>1, <2>4, <2>9 DEF Merges
  <2>11. \A k \in Live(s2) \ Live(s) :
           /\ s2.tq[k].player = s.tq[q].player /\ ~s2.tq[k].connected
           /\ s2.tq[k].bg = s.tq[q].bg /\ s2.tq[k].num_bg = s.tq[q].num_bg
    BY <1>14, <2>1, <2>4, <2>5, <2>7 DEF Merges, SameOwner, old
  <2>12. TakesOver(s, s2, q, p)
    BY <1>12, <1>14, <1>16, <2>6, <2>7, <2>8, <2>10, <2>11 DEF TakesOver
  <2> QED BY <2>4, <2>12 DEF s2, s1, s0, old, dead
<1> QED BY <1>15, <1>16

(* Making p the player of a connection. *)
WithPlayer(t, h, p) == [t EXCEPT !.handles[h].player = p, !.handles[h].logged = TRUE]

(* What the heap is after a connection has been given its player. *)
LEMMA SetHandlePlayer ==
  ASSUME NEW t, HeapOK(t), NEW h \in ConnIds, NEW p \in Int
  PROVE  LET u == WithPlayer(t, h, p)
         IN /\ HeapOK(u) /\ u.handles[h].player = p
            /\ u.handles[h].open = t.handles[h].open
            /\ u.handles[h].queue = t.handles[h].queue
            /\ \A k \in ConnIds \ {h} : u.handles[k] = t.handles[k]
            /\ u.tq = t.tq /\ u.active = t.active /\ u.idle = t.idle
            /\ u.waiting = t.waiting /\ u.panic = t.panic
<1> DEFINE g == [t.handles[h] EXCEPT !.player = p, !.logged = TRUE]
           u == WithPlayer(t, h, p)
<1>1. t.handles[h] \in Handle
  BY DEF HeapOK, HeapType
<1>2. /\ g \in Handle /\ g.player = p /\ g.open = t.handles[h].open
      /\ g.queue = t.handles[h].queue
  BY <1>1 DEF Handle
<1>3. u = [t EXCEPT !.handles[h] = g]
  BY <1>1 DEF HeapOK, HeapType, WithPlayer
<1> HIDE DEF g, u
<1>4. HeapOK(u)
  BY <1>2, <1>3, QuietHandle DEF Preserves
<1>5. /\ u.tq = t.tq /\ u.active = t.active /\ u.idle = t.idle /\ u.waiting = t.waiting
      /\ u.panic = t.panic /\ u.handles = [t.handles EXCEPT ![h] = g]
  BY <1>3 DEF HeapOK, HeapType
<1>6. \A k \in ConnIds : u.handles[k] = IF k = h THEN g ELSE t.handles[k]
  BY <1>5 DEF HeapOK, HeapType
<1> QED BY <1>2, <1>4, <1>5, <1>6 DEF u

(* The connection of the queue that logs in. *)
LEMMA LoginConnection ==
  ASSUME NEW s, HeapOK(s), OwnersOK(s), NEW q \in Live(s), s.tq[q].connected,
         s.tq[q].player < 0, NEW t, SameConnections(s, t)
  PROVE  LET h == find_shandle(t, s.tq[q].player)
         IN /\ HasHandle(t, s.tq[q].player) /\ h \in ConnIds
            /\ s.handles[h].open /\ s.handles[h].queue = q
<1> DEFINE old == s.tq[q].player
           h == find_shandle(t, old)
<1>1. \A k \in ConnIds : /\ t.handles[k].open = s.handles[k].open
                         /\ t.handles[k].player = s.handles[k].player
                         /\ t.handles[k].queue = s.handles[k].queue
  BY DEF SameConnections
<1>2. ~(old >= 0)
  <2>1. q \in QueueIds BY LiveType
  <2>2. old \in Int BY <2>1, QueueFields
  <2> QED BY <2>2
<1>3. PICK i \in ConnIds : s.handles[i].open /\ s.handles[i].queue = q
  BY DEF OwnersOK, ConnectionsOK
<1>4. s.handles[i].player = old
  BY <1>3 DEF OwnersOK, ConnectionsOK
<1>5. \A k \in ConnIds : s.handles[k].open =>
        s.handles[k].player = k \/ s.handles[k].player >= 0
  BY DEF OwnersOK, ConnectionsOK
<1> HIDE DEF old
<1>6. \A k \in ConnIds : s.handles[k].open /\ s.handles[k].player = old => k = old
  BY <1>2, <1>5
<1>7. HasHandle(t, old)
  BY <1>1, <1>3, <1>4 DEF HasHandle
<1>8. h \in ConnIds /\ t.handles[h].open /\ t.handles[h].player = old
  BY <1>7 DEF HasHandle, find_shandle
<1>9. h = i
  BY <1>1, <1>3, <1>4, <1>6, <1>8
<1> QED BY <1>3, <1>7, <1>8, <1>9 DEF old

(* player_connected(): the connection h is p's, and the one p had is closed. *)
LEMMA PlayerConnectedOwners ==
  ASSUME NEW s, HeapOK(s), OwnersOK(s), NEW q \in Live(s), s.tq[q].connected,
         s.tq[q].player < 0, NEW p \in Nat, NEW t, HeapOK(t), TakesOver(s, t, q, p),
         NEW h \in ConnIds, s.handles[h].open, s.handles[h].queue = q
  PROVE  LET v == player_connected(t, h, p)
         IN /\ OwnersOK(v)
            /\ \A k \in ConnIds : v.handles[k].open => s.handles[k].open
<1> DEFINE old == s.tq[q].player
           u == WithPlayer(t, h, p)
           d == find_shandle(t, p)
           v == player_connected(t, h, p)
<1>1. v = IF HasHandle(t, p) THEN free_shandle(u, d) ELSE u
  BY DEF player_connected, WithPlayer
<1>2. \A k \in ConnIds : /\ t.handles[k].open = s.handles[k].open
                         /\ t.handles[k].player = s.handles[k].player
                         /\ t.handles[k].queue = s.handles[k].queue
  BY DEF TakesOver, SameConnections
<1>3. p # old /\ s.handles[h].player = old
  <2>1. q \in QueueIds BY LiveType
  <2>2. old \in Int BY <2>1, QueueFields
  <2> QED BY <2>2 DEF OwnersOK, ConnectionsOK
<1>4. /\ HeapOK(u) /\ u.handles[h].player = p
      /\ u.handles[h].open = t.handles[h].open /\ u.handles[h].queue = t.handles[h].queue
      /\ \A k \in ConnIds \ {h} : u.handles[k] = t.handles[k]
      /\ u.tq = t.tq /\ u.active = t.active /\ u.idle = t.idle
      /\ u.waiting = t.waiting /\ u.panic = t.panic
  BY SetHandlePlayer
<1> HIDE DEF u, d, v, old
<1>5. Live(u) = Live(t)
  BY <1>4 DEF Live
<1>6. /\ u.handles[h].open /\ u.handles[h].queue = q /\ u.handles[h].player = p
       /\ \A k \in ConnIds \ {h} : /\ u.handles[k].open = s.handles[k].open
                                   /\ u.handles[k].player = s.handles[k].player
                                   /\ u.handles[k].queue = s.handles[k].queue
  BY <1>2, <1>4
<1>7. ASSUME ~HasHandle(t, p) PROVE LoggedIn(s, v, q, h, p)
  <2>1. v = u
    BY <1>1, <1>7
  <2>2. \A k \in ConnIds : s.handles[k].open => s.handles[k].player # p
    BY <1>2, <1>7 DEF HasHandle
  <2>3. \A k \in Live(s) : s.tq[k].player = p => ~s.tq[k].connected
    BY <2>2 DEF OwnersOK, ConnectionsOK
  <2> QED
    BY <1>4, <1>5, <1>6, <2>1, <2>2, <2>3 DEF LoggedIn, TakesOver
<1>8. ASSUME HasHandle(t, p) PROVE LoggedIn(s, v, q, h, p)
  <2>1. d \in ConnIds /\ t.handles[d].open /\ t.handles[d].player = p
    BY <1>8 DEF HasHandle, find_shandle, d
  <2>2. d # h /\ s.handles[d].open /\ s.handles[d].player = p
    BY <1>2, <1>3, <2>1
  <2> DEFINE e == s.handles[d].queue
  <2>3. e \in Live(s) /\ s.tq[e].player = p /\ e \in QueueIds
    BY <2>1, <2>2, LiveType DEF OwnersOK, ConnectionsOK
  <2>4. u.handles[d].open /\ u.handles[d].queue = e /\ e \in Live(u)
    BY <1>5, <1>6, <2>1, <2>2, <2>3 DEF TakesOver
  <2>5. \A k \in Live(s) : s.tq[k].player = p => k = e
    BY <2>3 DEF OwnersOK, QueuesOK, NOTHING
  <2>6. \A k \in ConnIds : s.handles[k].open /\ s.handles[k].player = p => k = d
    BY <2>1, <2>2, <2>5 DEF OwnersOK, ConnectionsOK
  <2> HIDE DEF e
  <2>7. v = free_shandle(u, d)
    BY <1>1, <1>8
  <2>8. Disconnects(u, v, d, e)
    BY <1>4, <2>1, <2>4, <2>7, FreeShandleEffect
  <2>9. e # q /\ \A k \in Live(t) : k \in QueueIds
    BY <1>3, <2>3, LiveType DEF old
  <2>10. \A k \in QueueIds :
           /\ v.tq[k].player = t.tq[k].player
           /\ v.tq[k].bg = t.tq[k].bg /\ v.tq[k].num_bg = t.tq[k].num_bg
           /\ k # e => v.tq[k].connected = t.tq[k].connected
    BY <1>4, <2>8 DEF Disconnects
  <2>11. /\ v.handles[h].open /\ v.handles[h].queue = q /\ v.handles[h].player = p
         /\ ~v.handles[d].open
         /\ \A k \in ConnIds \ {h, d} : /\ v.handles[k].open = s.handles[k].open
                                        /\ v.handles[k].player = s.handles[k].player
                                        /\ v.handles[k].queue = s.handles[k].queue
    BY <1>6, <2>1, <2>2, <2>8 DEF Disconnects
  <2>12. \A k \in ConnIds \ {h} :
           /\ v.handles[k].open <=> s.handles[k].open /\ s.handles[k].player # p
           /\ v.handles[k].open => /\ v.handles[k].player = s.handles[k].player
                                   /\ v.handles[k].queue = s.handles[k].queue
    BY <2>2, <2>6, <2>11
  <2>13. /\ v.waiting = s.waiting /\ v.panic = s.panic /\ Live(v) = Live(t)
         /\ ~v.tq[e].connected /\ Live(s) \subseteq Live(t)
    BY <1>4, <1>5, <2>8 DEF Disconnects, TakesOver
  <2>14. \A k \in Live(s) \ {q} : s.tq[k].player # p => SameOwner(s.tq[k], v.tq[k])
    BY <2>3, <2>9, <2>10, <2>13 DEF TakesOver, SameOwner
  <2>15. \A k \in Live(s) : s.tq[k].player = p =>
           /\ v.tq[k].player = NOTHING /\ ~v.tq[k].connected
           /\ v.tq[k].bg = <<>> /\ v.tq[k].num_bg = 0
           /\ v.tq[q].bg = s.tq[k].bg /\ v.tq[q].num_bg = s.tq[k].num_bg
    BY <2>5, <2>9, <2>10, <2>13 DEF TakesOver
  <2>16. \A k \in Live(v) \ Live(s) :
           /\ v.tq[k].player = s.tq[q].player /\ ~v.tq[k].connected
           /\ v.tq[k].bg = s.tq[q].bg /\ v.tq[k].num_bg = s.tq[q].num_bg
    BY <2>3, <2>9, <2>10, <2>13 DEF TakesOver
  <2>17. v.tq[q].player = p /\ v.tq[q].connected /\ HasTQueue(s, p)
    BY <2>3, <2>9, <2>10, <2>13 DEF TakesOver, HasTQueue
  <2> QED
    BY <2>11, <2>12, <2>13, <2>14, <2>15, <2>16, <2>17 DEF LoggedIn, TakesOver
<1>9. LoggedIn(s, v, q, h, p)
  BY <1>7, <1>8
<1>10. OwnersOK(v)
  BY <1>9, LoggedInOwners
<1>11. \A k \in ConnIds : v.handles[k].open => s.handles[k].open
  BY <1>9 DEF LoggedIn
<1> QED BY <1>10, <1>11 DEF v

-----------------------------------------------------------------------------
(* No task runs as #-1.  One may, in the code (a wizard can set a task's
   permissions to #-1); its queue is then taken for one of those that logins
   leave to be freed, whose player is #-1 too, and the queues' counts are no
   longer those of their owners' tasks. *)
NoOrphans == NOTHING \notin Programmers

(* A waiting or running login is that of an unconnected player. *)
LoginIsNew == cpu.at = "login" => tq[cpu.q].player < 0

OwnInv ==
  /\ OwnersOK(Heap)
  /\ \A h \in ConnIds : handles[h].open => h > nextConn
  /\ LoginIsNew

-----------------------------------------------------------------------------
(* Steps in general *)

(* The initial state. *)
LEMMA InitOwnInv == Init => OwnInv
<1> SUFFICES ASSUME Init PROVE OwnInv
  OBVIOUS
<1>1. Live(Heap) = {}
  BY HeapFields DEF Init, Live, Elems
<1>2. \A h \in ConnIds : ~handles[h].open
  BY DEF Init, ClosedHandle
<1>3. waiting = <<>> /\ ~panic /\ cpu.at = "notify"
  BY DEF Init, ServerVerb, Idle
<1>4. OwnersOK(Heap)
  BY <1>1, <1>2, <1>3, HeapFields DEF OwnersOK, QueuesOK, TasksOK, ConnectionsOK
<1> QED BY <1>2, <1>3, <1>4 DEF OwnInv, LoginIsNew

(* The running queue lives, and a login's belongs to no player yet. *)
LEMMA LoginQueue ==
  ASSUME IInv, OwnInv, cpu.at = "login"
  PROVE  cpu.q \in Live(Heap) /\ Heap.tq[cpu.q].player < 0
<1>1. active # <<>> /\ active[1] = cpu.q
  BY DEF IInv, CpuOK, DispatchedHere
<1>2. active \in Seq(QueueIds)
  BY HeapFields DEF IInv, HeapOK, HeapType
<1>3. cpu.q \in Elems(active)
  BY <1>1, <1>2 DEF Elems
<1> QED BY <1>3, HeapFields DEF Live, OwnInv, LoginIsNew

(* The thread is not about to complete a login. *)
LEMMA MovingOwn ==
  ASSUME NEW STATE s, OwnInv, HeapOK(s), OwnersOK(s), HeapBecomes(s),
         \A h \in ConnIds : s.handles[h].open => handles[h].open,
         nextConn' = nextConn, cpu'.at # "login"
  PROVE  OwnInv'
<1>1. Heap' = s
  BY HeapBecomesThat
<1>2. handles' = s.handles
  BY DEF HeapBecomes
<1> QED BY <1>1, <1>2 DEF OwnInv, LoginIsNew

(* What the running code does by way of the built-in functions. *)
LEMMA KeepingOwn ==
  ASSUME NEW STATE s, IInv, OwnInv, HeapOK(s), OwnersOK(s), KeepsPlayers(Heap, s),
         HeapBecomes(s), nextConn' = nextConn,
         cpu'.at = "login" => cpu.at = "login" /\ cpu'.q = cpu.q
  PROVE  OwnInv'
<1>1. Heap' = s /\ tq' = s.tq /\ handles' = s.handles
  BY HeapBecomesThat DEF HeapBecomes
<1>2. \A h \in ConnIds : handles'[h].open => handles[h].open
  BY <1>1, HeapFields DEF KeepsPlayers
<1>3. LoginIsNew'
  <2> SUFFICES ASSUME cpu'.at = "login" PROVE tq'[cpu'.q].player < 0
    BY DEF LoginIsNew
  <2> QED BY <1>1, LoginQueue DEF KeepsPlayers
<1> QED BY <1>1, <1>2, <1>3 DEF OwnInv

(* A step that changes nothing the agreement is about. *)
LEMMA SameOwnersStep ==
  ASSUME NEW STATE s, IInv, OwnInv, HeapOK(s), SameOwners(Heap, s),
         HeapBecomes(s), nextConn' = nextConn,
         cpu'.at = "login" => cpu.at = "login" /\ cpu'.q = cpu.q
  PROVE  OwnInv'
<1>1. HeapOK(Heap) /\ OwnersOK(Heap)
  BY DEF IInv, OwnInv
<1>2. OwnersOK(s) /\ KeepsPlayers(Heap, s)
  BY <1>1, SameOwnersOK, SameOwnersSameFinds
<1> QED BY <1>2, KeepingOwn

(* The heap does not change. *)
LEMMA SameHeapOwn ==
  ASSUME IInv, OwnInv, UNCHANGED <<tq, active, idle, waiting, handles, nextConn, panic>>,
         cpu'.at = "login" => cpu.at = "login" /\ cpu'.q = cpu.q
  PROVE  OwnInv'
<1>1. HeapOK(Heap) /\ HeapBecomes(Heap)
  BY DEF IInv, HeapBecomes, Heap
<1> QED BY <1>1, SameOwnersItself, SameOwnersStep

-----------------------------------------------------------------------------
(* Network events *)

(* A connection number that is about to be used is not in use. *)
LEMMA NextConnIsNew ==
  ASSUME IInv, OwnInv, nextConn \in ConnIds
  PROVE  ~Heap.handles[nextConn].open
<1>1. nextConn \in Int
  BY DEF IInv
<1> QED BY <1>1, HeapFields DEF OwnInv

(* A connection is made, by a client or by open_network_connection(). *)
LEMMA NewConnectionOwn ==
  ASSUME IInv, OwnInv, nextConn \in ConnIds, HasRoomFor(Heap, nextConn),
         NEW l \in Listeners, NEW outbound \in BOOLEAN, NEW greet \in BOOLEAN,
         HeapBecomes(server_new_connection(Heap, nextConn, l, outbound, greet)),
         nextConn' = nextConn - 1, cpu' = cpu
  PROVE  OwnInv'
<1> DEFINE s == server_new_connection(Heap, nextConn, l, outbound, greet)
<1>1. HeapOK(Heap) /\ OwnersOK(Heap) /\ nextConn \in Int
  BY DEF IInv, OwnInv
<1>2. HeapOK(s)
  BY <1>1, ServerNewConnection DEF Preserves
<1>3. /\ OwnersOK(s)
      /\ \A k \in Live(Heap) : k \in Live(s) /\ s.tq[k].player = Heap.tq[k].player
      /\ \A k \in ConnIds : s.handles[k].open => Heap.handles[k].open \/ k = nextConn
  BY <1>1, NextConnIsNew, ServerNewConnectionOwners
<1>4. HeapBecomes(s)
  OBVIOUS
<1> HIDE DEF s
<1>5. Heap' = s /\ tq' = s.tq /\ handles' = s.handles
  BY <1>2, <1>4, HeapBecomesThat DEF HeapBecomes
<1>6. \A h \in ConnIds : handles'[h].open => h > nextConn'
  <2>1. \A h \in ConnIds : handles[h].open => h > nextConn
    BY DEF OwnInv
  <2>2. \A h \in ConnIds : handles'[h].open => h > nextConn \/ h = nextConn
    BY <1>3, <1>5, <2>1, HeapFields
  <2> QED BY <1>1, <2>2, ConnIdsType
<1>7. LoginIsNew'
  <2> SUFFICES ASSUME cpu.at = "login" PROVE tq'[cpu.q].player < 0
    BY DEF LoginIsNew
  <2> QED BY <1>3, <1>5, LoginQueue
<1> QED BY <1>3, <1>5, <1>6, <1>7 DEF OwnInv

(* Lines arrive on a connection. *)
LEMMA ReceiveLinesOwn ==
  ASSUME IInv, OwnInv, NEW h \in ConnIds, NEW burst \in Bursts, ReceiveLines(h, burst)
  PROVE  OwnInv'
<1> DEFINE q == handles[h].queue
           s1 == new_input_task(Heap, q, burst[1])
           s2 == IF Len(burst) = 1 THEN s1 ELSE new_input_task(s1, q, burst[2])
<1>1. HeapBecomes(s2) /\ handles[h].open /\ nextConn' = nextConn /\ cpu' = cpu
  BY DEF ReceiveLines
<1>2. HeapOK(Heap) /\ OwnersOK(Heap) /\ q \in Live(Heap) /\ q \in QueueIds
  <2>1. HeapOK(Heap) /\ OwnersOK(Heap)
    BY DEF IInv, OwnInv
  <2>2. q \in Live(Heap)
    BY <1>1, <2>1, HeapFields DEF OwnersOK, ConnectionsOK
  <2> QED BY <2>1, <2>2, LiveType
<1>3. burst[1] \in LineKinds /\ (Len(burst) # 1 => burst[2] \in LineKinds)
  BY ConstantsAssumption DEF Bursts
<1> HIDE DEF q
<1>4. HeapOK(s1) /\ SameOwners(Heap, s1)
  BY <1>2, <1>3, OwnersReachable, NewInputOwners, NewInputTask DEF Preserves
<1> HIDE DEF s1
<1>5. HeapOK(s2) /\ SameOwners(Heap, s2)
  <2>1. CASE Len(burst) = 1
    BY <1>4, <2>1
  <2>2. CASE Len(burst) # 1
    <3>1. OwnersOK(s1) /\ q \in Live(s1)
      BY <1>2, <1>4, SameOwnersOK DEF SameOwners
    <3>2. Reachable(s1, q)
      BY <3>1, OwnersReachable
    <3>3. /\ HeapOK(new_input_task(s1, q, burst[2]))
          /\ SameOwners(s1, new_input_task(s1, q, burst[2]))
      BY <1>2, <1>3, <1>4, <2>2, <3>1, <3>2, NewInputOwners, NewInputTask DEF Preserves
    <3> QED BY <1>4, <2>2, <3>3, SameOwnersChain
  <2> QED BY <2>1, <2>2
<1> HIDE DEF s2
<1> QED BY <1>1, <1>5, SameOwnersStep

(* A client goes away, or a connection is booted: it is marked. *)
LEMMA MarkOwn ==
  ASSUME IInv, OwnInv, NEW h \in ConnIds,
         handles' = [handles EXCEPT ![h].disconnect_me = TRUE],
         UNCHANGED <<tq, active, idle, waiting, nextConn, panic>>,
         cpu'.at = "login" => cpu.at = "login" /\ cpu'.q = cpu.q
  PROVE  OwnInv'
<1> DEFINE s == [Heap EXCEPT !.handles[h].disconnect_me = TRUE]
<1>1. HeapBecomes(s)
  BY DEF HeapBecomes, Heap
<1>2. HeapOK(s) /\ SameOwners(Heap, s)
  BY MarkHandle, MarkHandleOwners DEF IInv, Preserves
<1> HIDE DEF s
<1> QED BY <1>1, <1>2, SameOwnersStep
-----------------------------------------------------------------------------
(* run_ready_tasks() *)

(* The queue whose turn it is lives. *)
LEMMA FirstQueue ==
  ASSUME IInv, active # <<>>
  PROVE  /\ active[1] \in Live(Heap) /\ active[1] \in QueueIds
         /\ Heap.active # <<>> /\ Heap.active[1] = active[1]
<1>1. active \in Seq(QueueIds)
  BY HeapFields DEF IInv, HeapOK, HeapType
<1>2. active[1] \in Elems(active)
  BY <1>1 DEF Elems
<1> QED BY <1>1, <1>2, HeapFields DEF Live

(* A waiting task comes due. *)
LEMMA WakeOwn ==
  ASSUME IInv, OwnInv, Wake
  PROVE  OwnInv'
<1> DEFINE s == make_ready(Heap, 1, Heap.waiting[1])
<1>1. /\ 1 \in DOMAIN Heap.waiting /\ HeapBecomes(s)
      /\ nextConn' = nextConn /\ cpu' = cpu
  <2>1. waiting \in Seq(Task)
    BY HeapFields DEF IInv, HeapOK, HeapType
  <2> QED BY <2>1, HeapFields DEF Wake
<1>2. HeapOK(s) /\ OwnersOK(s) /\ KeepsPlayers(Heap, s)
  BY <1>1, MakeReadyOwners DEF IInv, OwnInv
<1> HIDE DEF s
<1> QED BY <1>1, <1>2, KeepingOwn

(* The reader of the first queue gets an error. *)
LEMMA ResumeReaderWithErrorOwn ==
  ASSUME IInv, OwnInv, ResumeReaderWithError
  PROVE  OwnInv'
<1> DEFINE q == active[1]
           s == [Heap EXCEPT !.tq[q].reading = NoTask]
<1>1. HeapBecomes(s) /\ cpu'.at = "task" /\ nextConn' = nextConn /\ active # <<>>
  BY DEF ResumeReaderWithError, HeapBecomes, Heap, Dispatch, Idle, Picking
<1>2. HeapOK(s) /\ SameOwners(Heap, s)
  <2>1. q \in QueueIds
    BY <1>1, FirstQueue
  <2> HIDE DEF q
  <2> QED BY <2>1, NoMoreReading, SetFieldOwners DEF IInv, Preserves
<1> HIDE DEF s
<1> QED BY <1>1, <1>2, SameOwnersStep

(* An input task runs: a login only on a queue that is no player's. *)
LEMMA RunInputOwn ==
  ASSUME IInv, OwnInv, RunInput
  PROVE  OwnInv'
<1> DEFINE q == active[1]
           r == tq[q]
           s == dequeue_input_task(Heap, q, How(r))
           t == [s EXCEPT !.tq[q].reading = NoTask]
<1>1. /\ active # <<>> /\ HasInput(r, How(r)) /\ nextConn' = nextConn
      /\ cpu.at = "pick"
  BY DEF RunInput, Picking
<1>2. /\ q \in Live(Heap) /\ q \in QueueIds /\ Heap.tq[q] = r
      /\ HeapOK(Heap) /\ OwnersOK(Heap)
  BY <1>1, FirstQueue, HeapFields DEF IInv, OwnInv
<1>3. \/ HeapBecomes(s) /\ cpu'.at \in {"task", "pick"}
      \/ HeapBecomes(t) /\ cpu'.at = "task"
      \/ HeapBecomes(s) /\ cpu'.at = "login" /\ cpu'.q = q /\ r.player < 0
  BY <1>1 DEF RunInput, Dispatch, Idle
<1> HIDE DEF q, r
<1>4. HeapOK(s) /\ SameOwners(Heap, s)
  BY <1>1, <1>2, OwnersReachable, DequeueInputOwners, DequeueInputTask DEF Preserves
<1> HIDE DEF s
<1>5. HeapOK(t) /\ SameOwners(Heap, t)
  <2>1. HeapOK(t) /\ SameOwners(s, t)
    BY <1>2, <1>4, NoMoreReading, SetFieldOwners DEF Preserves
  <2> HIDE DEF t
  <2> QED BY <1>4, <2>1, SameOwnersChain
<1> HIDE DEF t
<1>6. CASE HeapBecomes(s) /\ cpu'.at \in {"task", "pick"}
  BY <1>1, <1>4, <1>6, SameOwnersStep
<1>7. CASE HeapBecomes(t) /\ cpu'.at = "task"
  BY <1>1, <1>5, <1>7, SameOwnersStep
<1>8. CASE HeapBecomes(s) /\ cpu'.at = "login" /\ cpu'.q = q /\ r.player < 0
  <2>1. Heap' = s /\ tq' = s.tq /\ handles' = s.handles
    BY <1>4, <1>8, HeapBecomesThat DEF HeapBecomes
  <2>2. OwnersOK(s) /\ KeepsPlayers(Heap, s)
    BY <1>2, <1>4, SameOwnersOK, SameOwnersSameFinds
  <2>3. tq'[q].player < 0
    BY <1>2, <1>8, <2>1, <2>2 DEF KeepsPlayers
  <2>4. \A h \in ConnIds : handles'[h].open => handles[h].open
    BY <2>1, <2>2, HeapFields DEF KeepsPlayers
  <2> QED BY <1>1, <1>8, <2>1, <2>2, <2>3, <2>4 DEF OwnInv, LoginIsNew
<1> QED BY <1>3, <1>6, <1>7, <1>8

(* A background task runs. *)
LEMMA RunBackgroundOwn ==
  ASSUME IInv, OwnInv, RunBackground
  PROVE  OwnInv'
<1> DEFINE q == active[1]
           s == dequeue_bg_task(Heap, q)
<1>1. /\ HeapBecomes(s) /\ Heap.tq[q].bg # <<>> /\ active # <<>>
      /\ cpu'.at = "task" /\ nextConn' = nextConn
  BY HeapFields DEF RunBackground, Dispatch, Idle, Picking
<1>2. HeapOK(s) /\ OwnersOK(s) /\ KeepsPlayers(Heap, s)
  <2>1. q \in Live(Heap)
    BY <1>1, FirstQueue
  <2> HIDE DEF q
  <2> QED BY <1>1, <2>1, DequeueBgOwners DEF IInv, OwnInv
<1> HIDE DEF s
<1> QED BY <1>1, <1>2, KeepingOwn

(* The first queue has nothing to do. *)
LEMMA DeactivateOwn ==
  ASSUME IInv, OwnInv, Deactivate
  PROVE  OwnInv'
<1> DEFINE s == deactivate_tqueue([Heap EXCEPT !.active = Tail(@)], Heap.active[1])
<1>1. HeapBecomes(s) /\ active # <<>> /\ nextConn' = nextConn /\ cpu' = cpu
  BY HeapFields DEF Deactivate, Picking
<1>2. SameOwners(Heap, s)
  BY <1>1, FirstQueue, DeactivateOwners DEF IInv
<1>3. HeapOK(s)
  <2>1. IInv'
    BY DeactivateIInv
  <2>2. s \in HeapType
    <3>1. HeapOK(Heap) /\ Heap.active # <<>>
      BY <1>1, FirstQueue DEF IInv
    <3>2. Heap.active[1] \in QueueIds /\ Tail(Heap.active) \in Seq(QueueIds)
      BY <3>1 DEF HeapOK, HeapType
    <3> DEFINE u == [Heap EXCEPT !.active = Tail(@)]
               q == Heap.active[1]
               r == [u.tq[q] EXCEPT !.usage = NO_USAGE]
    <3>3. u \in HeapType
      BY <3>1, <3>2 DEF HeapOK, HeapType
    <3> HIDE DEF u
    <3>4. r \in TQueue
      <4> HIDE DEF q
      <4>1. u.tq[q] \in TQueue
        BY <3>2, <3>3 DEF HeapType, q
      <4> QED BY <4>1 DEF TQueue
    <3>5. s = [u EXCEPT !.tq[q] = r, !.idle = u.idle \cup {q}]
      BY DEF deactivate_tqueue, u
    <3> HIDE DEF r, q, s
    <3> QED BY <3>2, <3>3, <3>4, <3>5 DEF HeapType, q
  <2> HIDE DEF s
  <2>3. Heap' = s
    BY <1>1, <2>2, HeapRecord DEF HeapBecomes, Heap
  <2> QED BY <2>1, <2>3 DEF IInv
<1> HIDE DEF s
<1> QED BY <1>1, <1>2, <1>3, SameOwnersStep

(* Nothing is ready: dead queues are freed. *)
LEMMA NothingReadyOwn ==
  ASSUME IInv, OwnInv, NothingReady
  PROVE  OwnInv'
<1> DEFINE s == free_idle_tqueues(Heap)
<1>1. HeapBecomes(s) /\ cpu'.at = "reap" /\ nextConn' = nextConn
  BY SMTT(30) DEF NothingReady, StartReaping, Idle
<1>2. HeapOK(s) /\ OwnersOK(s) /\ s.handles = handles
  BY FreeIdleTQueues, FreeIdleTQueuesOwners, HeapFields
     DEF IInv, OwnInv, Preserves, free_idle_tqueues, Heap
<1> HIDE DEF s
<1> QED BY <1>1, <1>2, MovingOwn

(* The queue that ran is charged, and dead queues are freed. *)
LEMMA BumpOwn ==
  ASSUME IInv, OwnInv, NEW e \in 0 .. 1, Bump(e)
  PROVE  OwnInv'
<1> DEFINE q == Heap.active[1]
           s == [Heap EXCEPT !.active = RestAfter(@, q), !.tq[q].usage = @ + e]
           u == activate_tqueue(s, q)
           t == free_idle_tqueues(u)
<1>1. active # <<>> /\ active[1] = cpu.q
  BY DEF Bump, IInv, CpuOK, DispatchedHere
<1>2. HeapBecomes(t) /\ cpu'.at = "reap" /\ nextConn' = nextConn
  BY <1>1, HeapFields DEF Bump, StartReaping, Idle
<1>3. HeapOK(Heap) /\ OwnersOK(Heap) /\ Heap.active # <<>> /\ e \in Nat
  BY <1>1, HeapFields DEF IInv, OwnInv
<1>4. SameOwners(Heap, u)
  BY <1>3, ChargeFirstOwners
<1>5. /\ HeapOK(s) /\ q \in QueueIds /\ q \notin s.idle /\ q \notin Elems(s.active)
      /\ s.tq[q].usage # NO_USAGE
  BY <1>3, ChargeFirst
<1> HIDE DEF q, s
<1>6. HeapOK(u)
  BY <1>5, ActivateTQueue
<1> HIDE DEF u
<1>7. OwnersOK(u)
  BY <1>3, <1>4, SameOwnersOK
<1>8. HeapOK(t) /\ OwnersOK(t) /\ t.handles = u.handles
  <2>1. t.handles = u.handles
    BY <1>6 DEF free_idle_tqueues, HeapOK, HeapType
  <2> QED BY <1>6, <1>7, <2>1, FreeIdleTQueues, FreeIdleTQueuesOwners DEF Preserves
<1> HIDE DEF t
<1>9. \A h \in ConnIds : t.handles[h].open => handles[h].open
  BY <1>4, <1>8, HeapFields DEF SameOwners, SameConnections
<1> QED BY <1>2, <1>8, <1>9, MovingOwn
-----------------------------------------------------------------------------
(* Built-in functions *)

(* The code's two ways of adding a waiting task. *)
LEMMA EnqueueOwn ==
  ASSUME NoOrphans, IInv, OwnInv, NEW t \in Task, t.progr \in Programmers,
         HasRoomFor(Heap, t.progr), NEW i \in WaitingPlaces(Heap, t)
  PROVE  LET s == enqueue_waiting(Heap, t, i)
         IN HeapOK(s) /\ OwnersOK(s) /\ KeepsPlayers(Heap, s)
<1>1. t.progr # NOTHING
  BY DEF NoOrphans
<1> QED BY <1>1, EnqueueWaitingOwners DEF IInv, OwnInv

(* The running code forks a task. *)
LEMMA ForkOwn ==
  ASSUME NoOrphans, IInv, OwnInv, NEW p \in Programmers, NEW i \in Places, fork(p, i)
  PROVE  OwnInv'
<1> DEFINE t == [id |-> NewId, progr |-> p, kind |-> "forked", forever |-> FALSE]
           s == enqueue_waiting(Heap, t, i)
<1>1. t \in Task /\ t.progr = p
  <2>1. NewId \in TaskIds
    BY DEF fork, NewId, FreshIds
  <2> QED BY <2>1, ConstantsAssumption DEF Task
<1>2. /\ HasRoomFor(Heap, t.progr) /\ i \in WaitingPlaces(Heap, t)
      /\ HeapBecomes(s) /\ nextConn' = nextConn /\ cpu' = cpu
  BY <1>1 DEF fork
<1> HIDE DEF t
<1>3. HeapOK(s) /\ OwnersOK(s) /\ KeepsPlayers(Heap, s)
  BY <1>1, <1>2, EnqueueOwn
<1> HIDE DEF s
<1> QED BY <1>2, <1>3, KeepingOwn

(* kill_task() of a waiting task takes one from its owner's count; that of a
   background task, from its queue's; and that of a reader, from none. *)
LEMMA KillTaskOwn ==
  ASSUME IInv, OwnInv, NEW id \in TaskIds, kill_task(id)
  PROVE  OwnInv'
<1>1. HeapOK(Heap) /\ OwnersOK(Heap) /\ nextConn' = nextConn /\ cpu' = cpu
  BY DEF IInv, OwnInv, kill_task
<1>2. CASE \E i \in DOMAIN waiting :
             LET p == waiting[i].progr
                 s == [Heap EXCEPT !.waiting = RemoveAt(@, i)]
             IN HeapBecomes(IF HasTQueue(s, p)
                            THEN [s EXCEPT !.tq[TQueueOf(s, p)].num_bg = @ - 1]
                            ELSE s)
  <2> PICK i \in DOMAIN waiting :
             LET p == waiting[i].progr
                 s == [Heap EXCEPT !.waiting = RemoveAt(@, i)]
             IN HeapBecomes(IF HasTQueue(s, p)
                            THEN [s EXCEPT !.tq[TQueueOf(s, p)].num_bg = @ - 1]
                            ELSE s)
    BY <1>2
  <2> DEFINE p == Heap.waiting[i].progr
             s0 == [Heap EXCEPT !.waiting = RemoveAt(@, i)]
             s == IF HasTQueue(s0, p)
                  THEN [s0 EXCEPT !.tq[TQueueOf(s0, p)].num_bg = @ - 1] ELSE s0
  <2>1. HeapBecomes(s)
    BY HeapFields
  <2>2. HeapOK(s) /\ OwnersOK(s) /\ KeepsPlayers(Heap, s)
    BY <1>1, HeapFields, KillWaitingOwners
  <2> HIDE DEF s
  <2> QED BY <1>1, <2>1, <2>2, KeepingOwn
<1>3. CASE \E q \in Live(Heap) : HeapBecomes([Heap EXCEPT !.tq[q].reading = NoTask])
  <2> PICK q \in Live(Heap) : HeapBecomes([Heap EXCEPT !.tq[q].reading = NoTask])
    BY <1>3
  <2> DEFINE s == [Heap EXCEPT !.tq[q].reading = NoTask]
  <2>1. HeapOK(s) /\ SameOwners(Heap, s) /\ HeapBecomes(s)
    BY <1>1, LiveType, NoMoreReading, SetFieldOwners DEF Preserves
  <2> HIDE DEF s
  <2> QED BY <1>1, <2>1, SameOwnersStep
<1>4. CASE \E q \in Elems(active) : \E i \in DOMAIN tq[q].bg :
             HeapBecomes([Heap EXCEPT !.tq[q].bg = RemoveAt(@, i), !.tq[q].num_bg = @ - 1])
  <2> PICK q \in Elems(active) : \E i \in DOMAIN tq[q].bg :
             HeapBecomes([Heap EXCEPT !.tq[q].bg = RemoveAt(@, i), !.tq[q].num_bg = @ - 1])
    BY <1>4
  <2> PICK i \in DOMAIN tq[q].bg :
             HeapBecomes([Heap EXCEPT !.tq[q].bg = RemoveAt(@, i), !.tq[q].num_bg = @ - 1])
    OBVIOUS
  <2> DEFINE s == WithoutBg(Heap, q, i)
  <2>1. HeapBecomes(s) /\ q \in Live(Heap) /\ i \in DOMAIN Heap.tq[q].bg
    BY HeapFields DEF WithoutBg, Live
  <2>2. HeapOK(s) /\ OwnersOK(s) /\ KeepsPlayers(Heap, s)
    BY <1>1, <2>1, RemoveBgOwners
  <2> HIDE DEF s
  <2> QED BY <1>1, <2>1, <2>2, KeepingOwn
<1> QED BY <1>2, <1>3, <1>4 DEF kill_task

(* do_resume() *)
LEMMA DoResumeOwn ==
  ASSUME IInv, OwnInv, NEW id \in TaskIds, do_resume(id)
  PROVE  OwnInv'
<1> PICK i \in DOMAIN waiting : HeapBecomes(make_ready(Heap, i, waiting[i]))
  BY DEF do_resume
<1> DEFINE s == make_ready(Heap, i, Heap.waiting[i])
<1>1. /\ i \in DOMAIN Heap.waiting /\ HeapBecomes(s)
      /\ nextConn' = nextConn /\ cpu' = cpu
  BY HeapFields DEF do_resume
<1>2. HeapOK(s) /\ OwnersOK(s) /\ KeepsPlayers(Heap, s)
  BY <1>1, MakeReadyOwners DEF IInv, OwnInv
<1> HIDE DEF s
<1> QED BY <1>1, <1>2, KeepingOwn

(* force_input() may make a queue, and adds a line to it. *)
LEMMA ForceInputOwn ==
  ASSUME IInv, OwnInv, NEW p \in Targets, NEW line \in Lines, NEW at_front \in BOOLEAN,
         force_input(p, line, at_front)
  PROVE  OwnInv'
<1> DEFINE s == find_tqueue(Heap, p)
           q == TQueueOf(s, p)
           t == enqueue_input_task(s, q, line, at_front)
<1>1. /\ HeapBecomes(t) /\ HasRoomFor(Heap, p) /\ p \in Int /\ line \in LineKinds
      /\ nextConn' = nextConn /\ cpu' = cpu
  BY ConstantsAssumption DEF force_input
<1>2. HeapOK(s) /\ OwnersOK(s) /\ KeepsPlayers(Heap, s) /\ q \in Live(s)
  BY <1>1, FindTQueueOwners DEF IInv, OwnInv
<1> HIDE DEF s, q
<1>3. q \in QueueIds /\ Reachable(s, q)
  BY <1>2, LiveType, OwnersReachable
<1>4. HeapOK(t) /\ SameOwners(s, t)
  BY <1>1, <1>2, <1>3, EnqueueInputOwners, EnqueueInputTask DEF Preserves
<1> HIDE DEF t
<1>5. OwnersOK(t) /\ KeepsPlayers(s, t)
  BY <1>2, <1>4, SameOwnersOK, SameOwnersSameFinds
<1>6. KeepsPlayers(Heap, t)
  BY <1>2, <1>5 DEF KeepsPlayers
<1> QED BY <1>1, <1>4, <1>5, <1>6, KeepingOwn

(* flush_input() may make a queue, and empties one. *)
LEMMA FlushInputOwn ==
  ASSUME IInv, OwnInv, NEW p \in Targets, flush_input(p)
  PROVE  OwnInv'
<1> DEFINE s == find_tqueue(Heap, p)
           q == TQueueOf(s, p)
           t == dequeue_all_input(s, q)
<1>1. /\ HeapBecomes(t) /\ HasRoomFor(Heap, p) /\ p \in Int
      /\ nextConn' = nextConn /\ cpu' = cpu
  BY ConstantsAssumption DEF flush_input
<1>2. HeapOK(s) /\ OwnersOK(s) /\ KeepsPlayers(Heap, s) /\ q \in Live(s)
  BY <1>1, FindTQueueOwners DEF IInv, OwnInv
<1> HIDE DEF s, q
<1>3. q \in QueueIds /\ Reachable(s, q)
  BY <1>2, LiveType, OwnersReachable
<1>4. HeapOK(t) /\ SameOwners(s, t)
  BY <1>2, <1>3, DequeueAllOwners, DequeueAllInput DEF Preserves
<1> HIDE DEF t
<1>5. OwnersOK(t) /\ KeepsPlayers(s, t)
  BY <1>2, <1>4, SameOwnersOK, SameOwnersSameFinds
<1>6. KeepsPlayers(Heap, t)
  BY <1>2, <1>5 DEF KeepsPlayers
<1> QED BY <1>1, <1>4, <1>5, <1>6, KeepingOwn

(* read_input_now() takes a line. *)
LEMMA ReadInputNowOwn ==
  ASSUME IInv, OwnInv, NEW p \in Targets, read_input_now(p)
  PROVE  OwnInv'
<1> DEFINE q == TQueueOf(Heap, p)
           s == dequeue_input_task(Heap, q, "DQ_INBAND")
<1>1. /\ HeapBecomes(s) /\ HasTQueue(Heap, p) /\ HasInput(Heap.tq[q], "DQ_INBAND")
      /\ nextConn' = nextConn /\ cpu' = cpu
  BY HeapFields DEF read_input_now
<1>2. HeapOK(Heap) /\ OwnersOK(Heap) /\ q \in Live(Heap) /\ q \in QueueIds
  BY <1>1, TQueueOfLive DEF IInv, OwnInv
<1> HIDE DEF q
<1>3. HeapOK(s) /\ SameOwners(Heap, s)
  BY <1>1, <1>2, OwnersReachable, DequeueInputOwners, DequeueInputTask DEF Preserves
<1> HIDE DEF s
<1> QED BY <1>1, <1>3, SameOwnersStep

(* boot_player() *)
LEMMA BootPlayerOwn ==
  ASSUME IInv, OwnInv, NEW p \in Targets, boot_player(p)
  PROVE  OwnInv'
<1> DEFINE h == find_shandle(Heap, p)
<1>1. h \in ConnIds
  BY FindShandleOpen DEF IInv, boot_player
<1>2. /\ handles' = [handles EXCEPT ![h].disconnect_me = TRUE]
      /\ UNCHANGED <<tq, active, idle, waiting, nextConn, panic, cpu>>
  BY DEF boot_player
<1> HIDE DEF h
<1> QED BY <1>1, <1>2, MarkOwn

(* The connection options: a field of the queue is set, and it may become
   active. *)
LEMMA SetOptionOwn ==
  ASSUME IInv, OwnInv, NEW q \in Live(Heap), NEW STATE s, HeapOK(s), SameOwners(Heap, s),
         HeapBecomes(s) \/ HeapBecomes(ensure_usage(s, q)),
         nextConn' = nextConn, cpu' = cpu
  PROVE  OwnInv'
<1> DEFINE t == ensure_usage(s, q)
<1>1. q \in Live(s) /\ q \in QueueIds
  BY LiveType DEF IInv, SameOwners
<1>2. HeapOK(t) /\ SameOwners(s, t)
  BY <1>1, EnsureUsage, EnsureUsageOwners DEF Preserves
<1> HIDE DEF t
<1>3. SameOwners(Heap, t)
  BY <1>2, SameOwnersChain
<1> QED BY <1>2, <1>3, SameOwnersStep DEF t

(* The queue of an open connection is a live one. *)
LEMMA OptionQueueLive ==
  ASSUME IInv, OwnInv, NEW p, MaySetOption(p)
  PROVE  OptionQueue(p) \in Live(Heap) /\ OptionQueue(p) \in QueueIds
<1>1. /\ find_shandle(Heap, p) \in ConnIds
      /\ Heap.handles[find_shandle(Heap, p)].open
  BY FindShandleOpen DEF IInv, MaySetOption
<1>2. OptionQueue(p) \in Live(Heap)
  BY <1>1, HeapFields DEF OptionQueue, OwnInv, OwnersOK, ConnectionsOK
<1> QED BY <1>2, LiveType DEF IInv

(* set_connection_option("hold-input") *)
LEMMA SetHoldInputOwn ==
  ASSUME IInv, OwnInv, NEW p \in Targets, NEW b \in BOOLEAN, set_hold_input(p, b)
  PROVE  OwnInv'
<1> DEFINE q == OptionQueue(p)
           s == [Heap EXCEPT !.tq[q].hold = b]
<1>1. HeapBecomes(s) \/ HeapBecomes(ensure_usage(s, q))
  BY DEF set_hold_input
<1>2. q \in Live(Heap) /\ q \in QueueIds
  BY OptionQueueLive DEF set_hold_input
<1> HIDE DEF q
<1>3. HeapOK(s) /\ SameOwners(Heap, s)
  BY <1>2, SetOption, SetFieldOwners DEF IInv, Preserves
<1> HIDE DEF s
<1> QED BY <1>1, <1>2, <1>3, SetOptionOwn DEF set_hold_input

(* set_connection_option("disable-oob") *)
LEMMA SetDisableOobOwn ==
  ASSUME IInv, OwnInv, NEW p \in Targets, NEW b \in BOOLEAN, set_disable_oob(p, b)
  PROVE  OwnInv'
<1> DEFINE q == OptionQueue(p)
           s == [Heap EXCEPT !.tq[q].no_oob = b]
<1>1. HeapBecomes(s) \/ HeapBecomes(ensure_usage(s, q))
  BY DEF set_disable_oob
<1>2. q \in Live(Heap) /\ q \in QueueIds
  BY OptionQueueLive DEF set_disable_oob
<1> HIDE DEF q
<1>3. HeapOK(s) /\ SameOwners(Heap, s)
  BY <1>2, SetOption, SetFieldOwners DEF IInv, Preserves
<1> HIDE DEF s
<1> QED BY <1>1, <1>2, <1>3, SetOptionOwn DEF set_disable_oob
-----------------------------------------------------------------------------
(* Logins, and the end of a task *)

(* The running code stops: a notifier's caller closes the connection that it
   was about, or gives it back to its listener. *)
LEMMA ReturnOwn ==
  ASSUME NEW STATE s, IInv, OwnInv, InMoo, HeapOK(s), StayOpen(Heap, s), OwnersOK(s),
         KeepsPlayers(Heap, s), Return(s), nextConn' = nextConn
  PROVE  OwnInv'
<1>1. \A h \in ConnIds : s.handles[h].open <=> handles[h].open
  BY HeapFields DEF StayOpen, KeepsPlayers, HeapOK, HeapType, Handle, IInv
<1>2. CASE HeapBecomes(s) /\ cpu'.at \in {"bump", "io"}
  BY <1>1, <1>2, MovingOwn
<1>3. CASE /\ cpu.at = "notify" /\ cpu.then \in {"close", "reap"}
           /\ HeapBecomes(free_shandle(s, cpu.h)) /\ cpu'.at \in {"io", "reap"}
  <2> DEFINE t == free_shandle(s, cpu.h)
  <2>1. cpu.h \in ConnIds /\ s.handles[cpu.h].open
    BY <1>1, <1>3 DEF IInv, CpuOK
  <2>2. HeapOK(t) /\ OwnersOK(t) /\ KeepsPlayers(s, t)
    BY <2>1, FreeShandle, FreeShandleOwners
  <2>3. HeapBecomes(t)
    BY <1>3
  <2> HIDE DEF t
  <2>4. \A h \in ConnIds : t.handles[h].open => handles[h].open
    BY <1>1, <2>2 DEF KeepsPlayers
  <2> QED BY <1>3, <2>2, <2>3, <2>4, MovingOwn
<1>4. CASE /\ cpu.at = "notify" /\ cpu.then = "relisten"
           /\ HeapBecomes([s EXCEPT !.handles[cpu.h].disconnect_me = FALSE])
           /\ cpu'.at = "notify"
  <2> DEFINE t == [s EXCEPT !.handles[cpu.h].disconnect_me = FALSE]
  <2>1. cpu.h \in ConnIds
    BY <1>4 DEF IInv, CpuOK
  <2>2. HeapOK(t) /\ SameOwners(s, t) /\ HeapBecomes(t)
    BY <1>4, <2>1, MarkHandle, MarkHandleOwners DEF Preserves
  <2> HIDE DEF t
  <2>3. OwnersOK(t) /\ KeepsPlayers(s, t)
    BY <2>2, SameOwnersOK, SameOwnersSameFinds
  <2>4. \A h \in ConnIds : t.handles[h].open => handles[h].open
    BY <1>1, <2>3 DEF KeepsPlayers
  <2> QED BY <1>4, <2>2, <2>3, <2>4, MovingOwn
<1>5. /\ [Idle("bump") EXCEPT !.q = cpu.q].at = "bump" /\ Idle("io").at = "io"
      /\ [Idle("reap") EXCEPT !.todo = cpu.todo].at = "reap"
      /\ [cpu EXCEPT !.then = "login", !.id = NoTask].at = cpu.at
  BY DEF Idle, IInv, CpuOK, CPU
<1> QED BY <1>2, <1>3, <1>4, <1>5 DEF Return

(* The task finishes. *)
LEMMA FinishOwn ==
  ASSUME IInv, OwnInv, Finish
  PROVE  OwnInv'
<1>1. KeepsPlayers(Heap, Heap) /\ StayOpen(Heap, Heap) /\ HeapOK(Heap) /\ OwnersOK(Heap)
  BY DEF KeepsPlayers, StayOpen, IInv, OwnInv
<1> QED BY <1>1, ReturnOwn DEF Finish

(* The task suspends. *)
LEMMA SuspendOwn ==
  ASSUME NoOrphans, IInv, OwnInv, NEW p \in Programmers, NEW forever \in BOOLEAN,
         NEW i \in Places, suspend(p, forever, i)
  PROVE  OwnInv'
<1> DEFINE t == [id |-> MyId, progr |-> p, kind |-> "suspended", forever |-> forever]
           s == enqueue_waiting(Heap, t, i)
<1>1. t \in Task /\ t.progr = p
  <2>1. MyId \in TaskIds
    BY MyIdType DEF suspend
  <2> QED BY <2>1, ConstantsAssumption DEF Task
<1>2. /\ HasRoomFor(Heap, t.progr) /\ i \in WaitingPlaces(Heap, t)
      /\ Return(s) /\ InMoo /\ nextConn' = nextConn
  BY <1>1 DEF suspend, Calls
<1> HIDE DEF t
<1>3. HeapOK(s) /\ OwnersOK(s) /\ KeepsPlayers(Heap, s)
  BY <1>1, <1>2, EnqueueOwn
<1>4. StayOpen(Heap, s)
  BY <1>1, <1>2, EnqueueWaiting DEF IInv, Preserves
<1> HIDE DEF s
<1> QED BY <1>2, <1>3, <1>4, ReturnOwn

(* The task reads. *)
LEMMA ReadOwn ==
  ASSUME IInv, OwnInv, NEW p \in Targets, read(p)
  PROVE  OwnInv'
<1> DEFINE q == TQueueOf(Heap, p)
           s == [Heap EXCEPT !.tq[q].reading = MyId]
           t == IF tq[q].input # <<>> THEN ensure_usage(s, q) ELSE s
<1>1. HasTQueue(Heap, p) /\ MyId \in TaskIds
  BY MyIdType DEF read
<1>2. HeapOK(Heap) /\ OwnersOK(Heap) /\ q \in Live(Heap) /\ q \in QueueIds
  BY <1>1, TQueueOfLive DEF IInv, OwnInv
<1>3. Return(t) /\ InMoo /\ nextConn' = nextConn
  BY HeapFields DEF read, Calls
<1> HIDE DEF q
<1>4. HeapOK(s) /\ StayOpen(Heap, s) /\ SameOwners(Heap, s)
  BY <1>1, <1>2, SetReading, SetFieldOwners
<1> HIDE DEF s
<1>5. HeapOK(t) /\ StayOpen(s, t) /\ SameOwners(s, t)
  <2>1. q \in Live(s)
    BY <1>2, <1>4 DEF SameOwners
  <2>2. HeapOK(ensure_usage(s, q)) /\ StayOpen(s, ensure_usage(s, q))
    BY <1>2, <1>4, EnsureUsage DEF Preserves
  <2>3. SameOwners(s, ensure_usage(s, q))
    BY <1>4, <2>1, EnsureUsageOwners
  <2> QED BY <1>4, <2>2, <2>3, SameOwnersItself DEF StayOpen
<1> HIDE DEF t
<1>6. SameOwners(Heap, t) /\ StayOpen(Heap, t)
  BY <1>4, <1>5, SameOwnersChain DEF StayOpen
<1>7. OwnersOK(t) /\ KeepsPlayers(Heap, t)
  BY <1>2, <1>6, SameOwnersOK, SameOwnersSameFinds
<1> QED BY <1>3, <1>5, <1>6, <1>7, ReturnOwn

(* A login: do_login_task() finds the connection of the queue, so that nothing
   is dereferenced that is not there. *)
LEMMA LoginOwn ==
  ASSUME IInv, OwnInv, NEW p \in Players, Login(p)
  PROVE  OwnInv'
<1> DEFINE q == cpu.q
           old == Heap.tq[q].player
           s1 == leave_own_tasks([Heap EXCEPT !.tq[q].player = p], q, old)
           s2 == IF HasTQueue(Heap, p) THEN merge_dead_tqueue(s1, q, TQueueOf(Heap, p))
                 ELSE s1
           h == find_shandle(s2, old)
           s3 == player_connected(s2, h, p)
           s4 == [s3 EXCEPT !.handles[h].disconnect_me = TRUE]
<1>1. /\ HeapOK(Heap) /\ OwnersOK(Heap) /\ p \in Nat
      /\ q \in Live(Heap) /\ Heap.tq[q].player < 0
      /\ Heap.tq[q].connected /\ (Heap.tq[q].num_bg = 0 \/ Live(Heap) # QueueIds)
  BY ConstantsAssumption, LoginQueue, HeapFields DEF IInv, OwnInv, Login
<1>2. /\ HasHandle(s2, old) => /\ HeapBecomes(s3) \/ HeapBecomes(s4)
                               /\ cpu'.at = "notify"
      /\ nextConn' = nextConn
  <2>1. cpu \in CPU
    BY DEF IInv, CpuOK
  <2> QED BY <2>1, HeapFields DEF Login, CPU
<1>3. HeapOK(s2) /\ TakesOver(Heap, s2, q, p)
  BY <1>1, TakesOverEffect
<1> HIDE DEF s2
<1>4. /\ HasHandle(s2, old) /\ h \in ConnIds
      /\ Heap.handles[h].open /\ Heap.handles[h].queue = q
  BY <1>1, <1>3, LoginConnection DEF TakesOver
<1> HIDE DEF h
<1>5. /\ HeapOK(s3) /\ OwnersOK(s3)
      /\ \A k \in ConnIds : s3.handles[k].open => Heap.handles[k].open
  BY <1>1, <1>3, <1>4, PlayerConnected, PlayerConnectedOwners
<1> HIDE DEF s3
<1>6. HeapOK(s4) /\ SameOwners(s3, s4)
  BY <1>4, <1>5, MarkHandle, MarkHandleOwners DEF Preserves
<1> HIDE DEF s4
<1>7. OwnersOK(s4) /\ KeepsPlayers(s3, s4)
  BY <1>5, <1>6, SameOwnersOK, SameOwnersSameFinds
<1>8. CASE HeapBecomes(s3)
  BY <1>2, <1>4, <1>5, <1>8, HeapFields, MovingOwn
<1>9. CASE HeapBecomes(s4)
  <2>1. \A k \in ConnIds : s4.handles[k].open => handles[k].open
    BY <1>5, <1>7, HeapFields DEF KeepsPlayers
  <2> QED BY <1>2, <1>4, <1>6, <1>7, <1>9, <2>1, MovingOwn
<1> QED BY <1>2, <1>4, <1>8, <1>9

(* The connection of a recycled player is closed. *)
LEMMA ReapRecycledOwn ==
  ASSUME IInv, OwnInv, NEW h \in ConnIds, ReapRecycled(h)
  PROVE  OwnInv'
<1> DEFINE s == free_shandle(Heap, h)
<1>1. /\ HeapBecomes(s) /\ Heap.handles[h].open /\ nextConn' = nextConn
      /\ cpu'.at = "reap"
  BY HeapFields DEF ReapRecycled, Reaping, IInv, CpuOK, CPU
<1>2. HeapOK(s) /\ OwnersOK(s) /\ KeepsPlayers(Heap, s)
  BY <1>1, FreeShandle, FreeShandleOwners DEF IInv, OwnInv
<1> HIDE DEF s
<1>3. \A k \in ConnIds : s.handles[k].open => handles[k].open
  BY <1>2, HeapFields DEF KeepsPlayers
<1> QED BY <1>1, <1>2, <1>3, MovingOwn

-----------------------------------------------------------------------------
(* Theorems *)

(* Every step keeps the agreement. *)
LEMMA NextOwnInv == NoOrphans /\ IInv /\ OwnInv /\ [Next]_vars => OwnInv'
<1> SUFFICES ASSUME NoOrphans, IInv, OwnInv, [Next]_vars PROVE OwnInv'
  OBVIOUS
<1>1. CASE Network
  <2>1. CASE EndIO
    BY <2>1, SameHeapOwn DEF EndIO, Idle
  <2>2. CASE \E l \in Listeners : Accept(l)
    BY <2>2, NewConnectionOwn DEF Accept
  <2>3. CASE \E h \in ConnIds : \E burst \in Bursts : ReceiveLines(h, burst)
    BY <2>3, ReceiveLinesOwn
  <2>4. CASE \E h \in ConnIds : ClientCloses(h)
    <3> PICK h \in ConnIds : ClientCloses(h)
      BY <2>4
    <3>1. cpu'.at = "notify"
      BY DEF ClientCloses, IInv, CpuOK, CPU
    <3> QED BY <3>1, MarkOwn DEF ClientCloses
  <2> QED BY <1>1, <2>1, <2>2, <2>3, <2>4 DEF Network
<1>2. CASE Ready
  <2>1. CASE StartPicking
    BY <2>1, SameHeapOwn DEF StartPicking, Idle
  <2> QED BY <1>2, <2>1, WakeOwn, ResumeReaderWithErrorOwn, RunInputOwn,
             RunBackgroundOwn, DeactivateOwn, NothingReadyOwn, BumpOwn DEF Ready
<1>3. CASE Moo
  <2>1. CASE \E p \in Programmers, i \in Places :
               \/ fork(p, i)
               \/ \E forever \in BOOLEAN : suspend(p, forever, i)
    BY <2>1, ForkOwn, SuspendOwn
  <2>2. CASE \E id \in TaskIds : kill_task(id) \/ do_resume(id)
    BY <2>2, KillTaskOwn, DoResumeOwn
  <2>3. CASE \E p \in Targets :
               \/ \E line \in Lines \ {"flush"}, at_front \in BOOLEAN :
                    force_input(p, line, at_front)
               \/ flush_input(p) \/ read_input_now(p) \/ read(p) \/ boot_player(p)
               \/ \E b \in BOOLEAN : set_hold_input(p, b) \/ set_disable_oob(p, b)
    BY <2>3, ForceInputOwn, FlushInputOwn, ReadInputNowOwn, ReadOwn, BootPlayerOwn,
       SetHoldInputOwn, SetDisableOobOwn
  <2>4. CASE \E l \in Listeners, greet \in BOOLEAN : open_network_connection(l, greet)
    BY <2>4, NewConnectionOwn DEF open_network_connection
  <2>5. CASE \E p \in Players : Login(p)
    BY <2>5, LoginOwn
  <2>6. CASE \E p \in Players : recycle(p)
    BY <2>6, SameHeapOwn DEF recycle
  <2>7. CASE Finish
    BY <2>7, FinishOwn
  <2> QED BY <1>3, <2>1, <2>2, <2>3, <2>4, <2>5, <2>6, <2>7 DEF Moo
<1>4. CASE Reap
  <2>1. CASE LoopAgain
    BY <2>1, SameHeapOwn DEF LoopAgain, Idle, ServerVerb
  <2>2. CASE \E h \in ConnIds : ReapTimedOut(h) \/ ReapBooted(h)
    BY <2>2, SameHeapOwn DEF ReapTimedOut, ReapBooted, Notify, IInv, CpuOK, CPU
  <2>3. CASE \E h \in ConnIds : ReapRecycled(h)
    BY <2>3, ReapRecycledOwn
  <2>4. CASE \E h \in ConnIds : Spare(h)
    BY <2>4, SameHeapOwn DEF Spare, IInv, CpuOK, CPU
  <2> QED BY <1>4, <2>1, <2>2, <2>3, <2>4 DEF Reap
<1>5. CASE UNCHANGED vars
  BY <1>5, SameHeapOwn DEF vars
<1> QED BY <1>1, <1>2, <1>3, <1>4, <1>5 DEF Next

(* The queues, the tasks and the connections always agree. *)
THEOREM AlwaysOwnInv == ASSUME NoOrphans PROVE Spec => [](IInv /\ OwnInv)
<1>1. IInv /\ OwnInv /\ [Next]_vars => (IInv /\ OwnInv)'
  BY NextIInv, NextOwnInv
<1> QED BY <1>1, InitIInv, InitOwnInv, PTL DEF Spec

(* server_suspend_input(), server_resume_input() and do_login_task() never use
   a NULL shandle, in whatever order input is dequeued, queues are merged and
   connections are closed and redirected. *)
THEOREM NeverPanics == ASSUME NoOrphans PROVE Spec => []NoPanic
<1>1. OwnInv => NoPanic
  BY HeapFields DEF OwnInv, OwnersOK, NoPanic
<1> QED BY <1>1, AlwaysOwnInv, PTL

(* find_tqueue() finds the player's queue whichever list it looks through
   first: there is only one. *)
THEOREM OneQueueEach == ASSUME NoOrphans PROVE Spec => []OneQueuePerPlayer
<1>1. OwnInv => OneQueuePerPlayer
  BY HeapFields DEF OwnInv, OwnersOK, QueuesOK, OneQueuePerPlayer
<1> QED BY <1>1, AlwaysOwnInv, PTL

(* num_bg_tasks is the number of the player's tasks, here and in waiting_tasks:
   a quota neither leaks nor is overdrawn, and no queue is freed under a task. *)
THEOREM TasksAccounted == ASSUME NoOrphans PROVE Spec => []BgAccounting
<1>1. OwnInv => BgAccounting
  <2>1. \A p : OwnTasks(p) = Own(Heap.waiting, p)
    BY HeapFields DEF OwnTasks, Own
  <2> QED BY <2>1, HeapFields DEF OwnInv, OwnersOK, TasksOK, Counted, BgAccounting
<1> QED BY <1>1, AlwaysOwnInv, PTL

(* Every background task is on a queue of the programmer it runs as, logins and
   the merging of queues notwithstanding. *)
THEOREM TasksStayWithOwner == ASSUME NoOrphans PROVE Spec => []BgTasksWithTheirOwner
<1>1. OwnInv => BgTasksWithTheirOwner
  BY HeapFields DEF OwnInv, OwnersOK, TasksOK, BgTasksWithTheirOwner
<1> QED BY <1>1, AlwaysOwnInv, PTL

(* A queue is connected iff a connection, and only one, is open on it, and they
   agree on the player. *)
THEOREM ConnectionsAgree == ASSUME NoOrphans PROVE Spec => []ConnectedIffHandle
<1>1. OwnInv => ConnectedIffHandle
  <2> SUFFICES ASSUME OwnInv PROVE ConnectedIffHandle
    OBVIOUS
  <2>1. ConnectionsOK(Heap)
    BY DEF OwnInv, OwnersOK
  <2>2. \A q \in Live(Heap) : tq[q].connected =>
          \E h \in ConnIds : /\ handles[h].open /\ handles[h].queue = q
                             /\ \A k \in ConnIds \ {h} :
                                  handles[k].open => handles[k].queue # q
    BY <2>1, HeapFields DEF ConnectionsOK
  <2> QED BY <2>1, <2>2, HeapFields DEF ConnectionsOK, ConnectedIffHandle
<1> QED BY <1>1, AlwaysOwnInv, PTL

=============================================================================
