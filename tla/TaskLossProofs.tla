--------------------------- MODULE TaskLossProofs ---------------------------
(***************************************************************************)
(* Proofs about TaskQueues, continued: its two action properties.  Only    *)
(* MOO code ends a task, and a read() ends by a line, an error or a kill.  *)
(*                                                                         *)
(* A task is waiting, in the background tasks of a live queue, reading on  *)
(* one, or running.  For every helper it is shown that no task leaves the  *)
(* heap but for the one that is dispatched (Keeps).  Two facts are needed  *)
(* beside the invariants: that no reader is left on a queue that is in     *)
(* neither list, whose address find_tqueue() may take, and that the server *)
(* has no task's id at hand when it begins another.                        *)
(***************************************************************************)
EXTENDS WorkProofs

(* No queue that is free has a reader. *)
Vacant(s) == \A q \in QueueIds \ Live(s) : s.tq[q].reading = NoTask

(* Only a task that MOO code runs in has an id outside the queues. *)
RunningInv == cpu.id # NoTask => cpu.at = "task"

(* From s to t no reader, and no task, is lost, except those of I. *)
KeepsReaders(s, t, I) ==
  /\ Vacant(t)
  /\ \A q \in QueueIds : s.tq[q].reading # NoTask =>
       t.tq[q].reading = s.tq[q].reading \/ s.tq[q].reading \in I

Keeps(s, t, I) == KeepsReaders(s, t, I) /\ IdsIn(s) \subseteq IdsIn(t) \cup I

(* The same tasks are where they were. *)
SameTask(r, u) == u.bg = r.bg /\ u.reading = r.reading

SameTasks(s, t) ==
  /\ Live(s) \subseteq Live(t) /\ t.waiting = s.waiting
  /\ \A q \in QueueIds : SameTask(s.tq[q], t.tq[q])

(* Where a task is. *)
Waits(s, id) == \E i \in DOMAIN s.waiting : s.waiting[i].id = id
InBg(s, q, id) == \E i \in DOMAIN s.tq[q].bg : s.tq[q].bg[i].id = id
Reads(s, q, id) == s.tq[q].reading = id /\ id # NoTask

(* Where the tasks with an id are. *)
LEMMA IdsInThese ==
  ASSUME NEW s, NEW id
  PROVE  id \in IdsIn(s) <=>
           Waits(s, id) \/ \E q \in Live(s) : InBg(s, q, id) \/ Reads(s, q, id)
<1> DEFINE W == {s.waiting[i].id : i \in DOMAIN s.waiting}
           B(q) == {s.tq[q].bg[i].id : i \in DOMAIN s.tq[q].bg}
           R == {s.tq[q].reading : q \in Live(s)} \ {NoTask}
<1>1. id \in W <=> Waits(s, id)
  BY DEF Waits
<1>2. \A q : id \in B(q) <=> InBg(s, q, id)
  BY DEF InBg
<1>3. id \in R <=> \E q \in Live(s) : Reads(s, q, id)
  BY DEF Reads
<1> DEFINE U == UNION {B(q) : q \in Live(s)}
<1>4. IdsIn(s) = W \cup U \cup R
  BY DEF IdsIn
<1> HIDE DEF W, B, R
<1>5. id \in U <=> \E q \in Live(s) : id \in B(q)
  OBVIOUS
<1> HIDE DEF U
<1> QED BY <1>1, <1>2, <1>3, <1>4, <1>5

-----------------------------------------------------------------------------
(* Helpers that move no task *)

(* Where no task moves, none is lost. *)
LEMMA SameTasksKeeps ==
  ASSUME NEW s, HeapOK(s), Vacant(s), NEW t, SameTasks(s, t)
  PROVE  Keeps(s, t, {})
<1>1. Live(s) \subseteq QueueIds
  BY LiveType
<1>2. Vacant(t)
  BY <1>1 DEF Vacant, SameTasks, SameTask
<1>3. IdsIn(s) \subseteq IdsIn(t)
  BY <1>1 DEF SameTasks, SameTask, IdsIn
<1> QED BY <1>2, <1>3 DEF Keeps, KeepsReaders, SameTasks, SameTask

(* What is kept twice is kept; the helpers that come second lose nothing. *)
LEMMA KeepsChain ==
  ASSUME NEW s, NEW t, NEW u, NEW I, Keeps(s, t, I), Keeps(t, u, {}), NoTask \notin I
  PROVE  Keeps(s, u, I)
BY DEF Keeps, KeepsReaders

(* A heap loses nothing to itself. *)
LEMMA KeepsItself ==
  ASSUME NEW s, Vacant(s), NEW I
  PROVE  Keeps(s, s, I)
BY DEF Keeps, KeepsReaders

(* Two changes that move no task, one after the other. *)
LEMMA SameTasksChain ==
  ASSUME NEW s, NEW t, NEW u, SameTasks(s, t), SameTasks(t, u)
  PROVE  SameTasks(s, u)
BY DEF SameTasks, SameTask

(* A heap has the same tasks as itself. *)
LEMMA SameTasksItself ==
  ASSUME NEW s
  PROVE  SameTasks(s, s)
BY DEF SameTasks, SameTask

(* A queue is changed, but not what tasks it has. *)
LEMMA SetQueueTasks ==
  ASSUME NEW s, HeapOK(s), NEW q \in QueueIds, NEW r, SameTask(s.tq[q], r)
  PROVE  SameTasks(s, [s EXCEPT !.tq[q] = r])
<1> DEFINE t == [s EXCEPT !.tq[q] = r]
<1>1. /\ t.active = s.active /\ t.idle = s.idle /\ t.waiting = s.waiting
      /\ t.tq = [s.tq EXCEPT ![q] = r]
  BY DEF HeapOK, HeapType
<1>2. \A k \in QueueIds : t.tq[k] = IF k = q THEN r ELSE s.tq[k]
  BY <1>1 DEF HeapOK, HeapType
<1> HIDE DEF t
<1>3. SameTasks(s, t)
  BY <1>1, <1>2 DEF SameTasks, SameTask, Live
<1> QED BY <1>3 DEF t

(* Fields of a queue that say nothing of its tasks. *)
LEMMA SetFieldTasks ==
  ASSUME NEW s, HeapOK(s), NEW q \in QueueIds, NEW v
  PROVE  /\ SameTasks(s, [s EXCEPT !.tq[q].suspended = v])
         /\ SameTasks(s, [s EXCEPT !.tq[q].connected = v])
         /\ SameTasks(s, [s EXCEPT !.tq[q].hold = v])
         /\ SameTasks(s, [s EXCEPT !.tq[q].no_oob = v])
         /\ SameTasks(s, [s EXCEPT !.tq[q].player = v])
<1> DEFINE r1 == [s.tq[q] EXCEPT !.suspended = v]
           r2 == [s.tq[q] EXCEPT !.connected = v]
           r3 == [s.tq[q] EXCEPT !.hold = v]
           r4 == [s.tq[q] EXCEPT !.no_oob = v]
           r5 == [s.tq[q] EXCEPT !.player = v]
<1>1. s.tq[q] \in TQueue
  BY DEF HeapOK, HeapType
<1>2. /\ SameTask(s.tq[q], r1) /\ SameTask(s.tq[q], r2) /\ SameTask(s.tq[q], r3)
      /\ SameTask(s.tq[q], r4) /\ SameTask(s.tq[q], r5)
  BY <1>1 DEF SameTask, TQueue
<1>3. /\ [s EXCEPT !.tq[q].suspended = v] = [s EXCEPT !.tq[q] = r1]
      /\ [s EXCEPT !.tq[q].connected = v] = [s EXCEPT !.tq[q] = r2]
      /\ [s EXCEPT !.tq[q].hold = v] = [s EXCEPT !.tq[q] = r3]
      /\ [s EXCEPT !.tq[q].no_oob = v] = [s EXCEPT !.tq[q] = r4]
      /\ [s EXCEPT !.tq[q].player = v] = [s EXCEPT !.tq[q] = r5]
  OBVIOUS
<1> HIDE DEF r1, r2, r3, r4, r5
<1> QED BY ZenonT(40), <1>2, <1>3, SetQueueTasks

(* ensure_usage() takes a queue from the idle list to the active one. *)
LEMMA EnsureUsageTasks ==
  ASSUME NEW s, HeapOK(s), NEW q \in QueueIds
  PROVE  SameTasks(s, ensure_usage(s, q))
<1> DEFINE t == ensure_usage(s, q)
<1>1. CASE s.tq[q].usage # NO_USAGE
  BY <1>1, SameTasksItself DEF ensure_usage
<1>2. CASE s.tq[q].usage = NO_USAGE
  <2> DEFINE n == IF s.active = <<>> THEN 0 ELSE s.tq[s.active[1]].usage
             r == [s.tq[q] EXCEPT !.usage = n]
             u == [s EXCEPT !.tq[q] = r, !.idle = s.idle \ {q}]
  <2>1. t = activate_tqueue(u, q)
    BY <1>2 DEF ensure_usage
  <2>2. q \notin Elems(s.active)
    BY <1>2 DEF Elems, HeapOK
  <2>3. n \in Nat /\ n # NO_USAGE
    <3>1. CASE s.active = <<>> BY <3>1 DEF NO_USAGE
    <3>2. CASE s.active # <<>>
      <4>1. 1 \in DOMAIN s.active /\ s.active[1] \in QueueIds
        BY <3>2 DEF HeapOK, HeapType
      <4>2. s.tq[s.active[1]].usage # NO_USAGE
        BY <4>1 DEF HeapOK
      <4>3. s.tq[s.active[1]] \in TQueue
        BY <4>1 DEF HeapOK, HeapType
      <4> QED BY <3>2, <4>2, <4>3 DEF TQueue
    <3> QED BY <3>1, <3>2
  <2>4. s.tq[q] \in TQueue
    BY DEF HeapOK, HeapType
  <2>5. r \in TQueue /\ r.usage = n /\ SameTask(s.tq[q], r)
    BY <2>3, <2>4 DEF TQueue, SameTask
  <2> HIDE DEF n, r
  <2>6. /\ u \in HeapType /\ u.active = s.active /\ u.idle = s.idle \ {q}
        /\ u.tq = [s.tq EXCEPT ![q] = r]
        /\ u.waiting = s.waiting /\ u.handles = s.handles
    BY <2>5 DEF HeapOK, HeapType
  <2> HIDE DEF u
  <2>7. \A k \in QueueIds : u.tq[k] = IF k = q THEN r ELSE s.tq[k]
    BY <2>6 DEF HeapOK, HeapType
  <2>8. HeapOK(u)
    <3>1. \A i \in DOMAIN s.active : s.active[i] \in QueueIds /\ s.active[i] # q
      BY <2>2 DEF Elems, HeapOK, HeapType
    <3>2. \A k \in s.idle : k \in QueueIds
      BY DEF HeapOK, HeapType
    <3> QED BY <2>6, <2>7, <3>1, <3>2 DEF HeapOK
  <2>9. /\ t = [u EXCEPT !.active = t.active]
        /\ \E i \in 1 .. Len(u.active) + 1 : t.active = InsertAt(u.active, i, q)
    <3>1. q \notin u.idle /\ q \notin Elems(u.active) /\ u.tq[q].usage # NO_USAGE
      BY <2>2, <2>3, <2>5, <2>6, <2>7
    <3> QED BY <2>1, <2>8, <3>1, ActivateTQueue
  <2> HIDE DEF t
  <2>10. t.tq = u.tq /\ t.idle = u.idle /\ t.waiting = u.waiting
    BY <2>6, <2>9 DEF HeapType
  <2>11. Elems(t.active) = Elems(s.active) \cup {q}
    <3>1. u.active \in Seq(QueueIds)
      BY <2>6 DEF HeapType
    <3> QED BY <2>6, <2>9, <3>1, InsertAtElems
  <2>12. SameTasks(s, t)
    BY <2>5, <2>6, <2>7, <2>10, <2>11 DEF SameTasks, SameTask, Live
  <2> QED BY <2>12 DEF t
<1> QED BY <1>1, <1>2

(* server_set_paused() changes a connection, or ends the server. *)
LEMMA SetPausedTasks ==
  ASSUME NEW s, HeapOK(s), NEW p, NEW b \in BOOLEAN
  PROVE  SameTasks(s, server_set_paused(s, p, b))
<1> DEFINE t == server_set_paused(s, p, b)
<1>1. /\ t.active = s.active /\ t.idle = s.idle /\ t.waiting = s.waiting
      /\ t.tq = s.tq
  BY DEF server_set_paused, HeapOK, HeapType
<1> HIDE DEF t
<1>2. SameTasks(s, t)
  BY <1>1 DEF SameTasks, SameTask, Live
<1> QED BY <1>2 DEF t

(* Pausing and resuming a connection moves no task. *)
LEMMA SuspendInputTasks ==
  ASSUME NEW s, HeapOK(s), NEW q \in QueueIds
  PROVE  SameTasks(s, task_suspend_input(s, q)) /\ SameTasks(s, resume_if_low(s, q))
<1> DEFINE t(b) == server_set_paused(s, s.tq[q].player, b)
<1>1. \A b \in BOOLEAN : HeapOK(t(b)) /\ SameTasks(s, t(b))
  BY SetPaused, SetPausedTasks DEF Preserves
<1> HIDE DEF t
<1>2. \A b \in BOOLEAN : SameTasks(s, [t(b) EXCEPT !.tq[q].suspended = b])
  BY <1>1, SetFieldTasks, SameTasksChain
<1> QED BY <1>2, SameTasksItself DEF task_suspend_input, resume_if_low, t

(* Input is no task that has an id. *)
LEMMA SetInputTasks ==
  ASSUME NEW s, HeapOK(s), NEW q \in QueueIds, NEW l, NEW n
  PROVE  SameTasks(s, [s EXCEPT !.tq[q].input = l, !.tq[q].len = n])
<1> DEFINE r == [s.tq[q] EXCEPT !.input = l, !.len = n]
<1>1. s.tq[q] \in TQueue
  BY DEF HeapOK, HeapType
<1>2. SameTask(s.tq[q], r)
  BY <1>1 DEF SameTask, TQueue
<1>3. [s EXCEPT !.tq[q].input = l, !.tq[q].len = n] = [s EXCEPT !.tq[q] = r]
  BY DEF HeapOK, HeapType
<1> HIDE DEF r
<1> QED BY <1>2, <1>3, SetQueueTasks

(* enqueue_input_task() *)
LEMMA EnqueueInputTasks ==
  ASSUME NEW s, HeapOK(s), NEW q \in QueueIds, NEW line \in LineKinds,
         NEW at_front \in BOOLEAN
  PROVE  SameTasks(s, enqueue_input_task(s, q, line, at_front))
<1> DEFINE l == IF at_front THEN InsertAt(s.tq[q].input, 1, line)
                ELSE Append(s.tq[q].input, line)
           n == s.tq[q].len + Length(line)
           s1 == [s EXCEPT !.tq[q].input = l, !.tq[q].len = n]
           C == ~s1.tq[q].hold \/ s1.tq[q].reading # NoTask
                  \/ (~s1.tq[q].no_oob /\ line = "oob")
           s2 == IF C THEN ensure_usage(s1, q) ELSE s1
<1>1. l \in Seq(LineKinds) /\ n \in Int
  <2>1. s.tq[q] \in TQueue BY DEF HeapOK, HeapType
  <2>2. s.tq[q].input \in Seq(LineKinds) /\ s.tq[q].len \in Int
    BY <2>1 DEF TQueue
  <2>3. InsertAt(s.tq[q].input, 1, line) \in Seq(LineKinds)
    <3>1. 1 \in 1 .. Len(s.tq[q].input) + 1 BY <2>2
    <3> QED BY <2>2, <3>1, InsertAtType
  <2> QED BY <2>2, <2>3, LengthType
<1>2. enqueue_input_task(s, q, line, at_front)
        = IF s2.tq[q].len > INPUT_HIWAT THEN task_suspend_input(s2, q) ELSE s2
  BY DEF enqueue_input_task
<1> HIDE DEF l, n
<1>3. SameTasks(s, s1) /\ HeapOK(s1)
  BY <1>1, SetInput, SetInputTasks DEF Preserves
<1> HIDE DEF s1, C
<1>4. SameTasks(s1, s2) /\ HeapOK(s2)
  <2>1. SameTasks(s1, ensure_usage(s1, q)) /\ HeapOK(ensure_usage(s1, q))
    BY <1>3, EnsureUsage, EnsureUsageTasks DEF Preserves
  <2> QED BY <1>3, <2>1, SameTasksItself
<1> HIDE DEF s2
<1>5. SameTasks(s2, task_suspend_input(s2, q)) /\ SameTasks(s2, s2)
  BY <1>4, SuspendInputTasks, SameTasksItself
<1> QED BY <1>2, <1>3, <1>4, <1>5, SameTasksChain

(* dequeue_input_task(), dequeueing everything, and a line of input that arrives. *)
LEMMA DequeueInputTasks ==
  ASSUME NEW s, HeapOK(s), NEW q \in QueueIds, NEW how, HasInput(s.tq[q], how)
  PROVE  SameTasks(s, dequeue_input_task(s, q, how))
<1> DEFINE i == InputIndex(s.tq[q], how)
           l == RemoveAt(s.tq[q].input, i)
           n == s.tq[q].len - Length(s.tq[q].input[i])
           t == [s EXCEPT !.tq[q].input = l, !.tq[q].len = n]
<1>1. s.tq[q].input \in Seq(LineKinds) /\ s.tq[q].len \in Int
  <2>1. s.tq[q] \in TQueue BY DEF HeapOK, HeapType
  <2> QED BY <2>1 DEF TQueue
<1>2. i \in DOMAIN s.tq[q].input
  BY InputIndexIn
<1>3. l \in Seq(LineKinds) /\ n \in Int
  BY <1>1, <1>2, RemoveAtType, LengthType
<1>4. dequeue_input_task(s, q, how) = resume_if_low(t, q)
  BY DEF dequeue_input_task
<1> HIDE DEF l, n
<1>5. HeapOK(t) /\ SameTasks(s, t)
  BY <1>3, SetInput, SetInputTasks DEF Preserves
<1> HIDE DEF t
<1> QED BY <1>4, <1>5, SuspendInputTasks, SameTasksChain

(* dequeue_all_input() loses typed-ahead lines only. *)
LEMMA DequeueAllTasks ==
  ASSUME NEW s, HeapOK(s), NEW q \in QueueIds
  PROVE  SameTasks(s, dequeue_all_input(s, q))
<1> DEFINE t == [s EXCEPT !.tq[q].input = <<>>, !.tq[q].len = 0]
<1>1. dequeue_all_input(s, q) = IF s.tq[q].input = <<>> THEN s ELSE resume_if_low(t, q)
  BY DEF dequeue_all_input
<1>2. <<>> \in Seq(LineKinds) /\ 0 \in Int
  OBVIOUS
<1>3. HeapOK(t) /\ SameTasks(s, t)
  BY <1>2, SetInput, SetInputTasks DEF Preserves
<1> HIDE DEF t
<1> QED BY <1>1, <1>3, SuspendInputTasks, SameTasksChain, SameTasksItself

(* new_input_task() moves no task. *)
LEMMA NewInputTasks ==
  ASSUME NEW s, HeapOK(s), NEW q \in QueueIds, NEW line \in LineKinds
  PROVE  SameTasks(s, new_input_task(s, q, line))
BY EnqueueInputTasks, DequeueAllTasks DEF new_input_task

(* A mark on a connection. *)
LEMMA MarkHandleTasks ==
  ASSUME NEW s, HeapOK(s), NEW h \in ConnIds, NEW g
  PROVE  SameTasks(s, [s EXCEPT !.handles[h] = g])
<1> DEFINE t == [s EXCEPT !.handles[h] = g]
<1>1. t.active = s.active /\ t.idle = s.idle /\ t.waiting = s.waiting /\ t.tq = s.tq
  BY DEF HeapOK, HeapType
<1> HIDE DEF t
<1>2. SameTasks(s, t)
  BY <1>1 DEF SameTasks, SameTask, Live
<1> QED BY <1>2 DEF t

(* A connection is forgotten; its reader keeps the queue active. *)
LEMMA FreeTaskQueueTasks ==
  ASSUME NEW s, HeapOK(s), NEW q \in QueueIds
  PROVE  SameTasks(s, free_task_queue(s, q))
<1> DEFINE s1 == [s EXCEPT !.tq[q].connected = FALSE]
<1>1. HeapOK(s1) /\ SameTasks(s, s1)
  BY SetConnected, SetFieldTasks
<1>2. free_task_queue(s, q) = IF s1.tq[q].reading # NoTask THEN ensure_usage(s1, q) ELSE s1
  BY DEF free_task_queue
<1> HIDE DEF s1
<1> QED BY <1>1, <1>2, EnsureUsageTasks, SameTasksChain

(* free_shandle() leaves the tasks of the connection's queue on it. *)
LEMMA FreeShandleTasks ==
  ASSUME NEW s, HeapOK(s), NEW h \in ConnIds, s.handles[h].open
  PROVE  SameTasks(s, free_shandle(s, h))
<1> DEFINE g == ClosedHandle(h)
           t == [s EXCEPT !.handles[h] = g]
           q == s.handles[h].queue
<1>1. free_shandle(s, h) = free_task_queue(t, q)
  BY DEF free_shandle
<1>2. q \in QueueIds
  BY DEF HeapOK
<1>3. g \in Handle /\ ~g.open
  BY ConnIdsType, ClosedHandleType
<1> HIDE DEF g, q
<1>4. HeapOK(t) /\ SameTasks(s, t)
  BY <1>3, SetHandle, MarkHandleTasks
<1> HIDE DEF t
<1> QED BY <1>1, <1>2, <1>4, FreeTaskQueueTasks, SameTasksChain

(* find_tqueue() takes the address of a queue that has no reader. *)
LEMMA FindTQueueTasks ==
  ASSUME NEW s, HeapOK(s), Vacant(s), NEW p \in Int, HasRoomFor(s, p)
  PROVE  LET t == find_tqueue(s, p)
         IN /\ HeapOK(t) /\ Vacant(t) /\ Keeps(s, t, {})
            /\ TQueueOf(t, p) \in Live(t) /\ t.tq[TQueueOf(t, p)].player = p
            /\ Live(s) \subseteq Live(t) /\ t.waiting = s.waiting
            /\ \A q \in Live(s) : t.tq[q] = s.tq[q]
            /\ \A q \in QueueIds : t.tq[q].reading = s.tq[q].reading
<1> DEFINE t == find_tqueue(s, p)
           u == TQueueOf(t, p)
<1>1. HeapOK(t) /\ HasTQueue(t, p) /\ t.waiting = s.waiting
  BY FindTQueue DEF Preserves
<1>2. u \in Live(t) /\ t.tq[u].player = p
  BY <1>1, TQueueOfLive
<1>3. CASE HasTQueue(s, p)
  <2>1. t = s
    BY <1>3 DEF find_tqueue
  <2> QED BY <1>1, <1>2, <2>1, SameTasksItself, SameTasksKeeps
<1>4. CASE ~HasTQueue(s, p)
  <2>1. /\ u \in QueueIds \ Live(s) /\ Live(t) = Live(s) \cup {u}
        /\ t.tq = [s.tq EXCEPT ![u] = FreshQueue(p)]
    BY <1>4, FindTQueueNew
  <2> HIDE DEF u, t
  <2>2. \A k \in QueueIds : t.tq[k] = IF k = u THEN FreshQueue(p) ELSE s.tq[k]
    BY <2>1 DEF HeapOK, HeapType
  <2>3. \A k \in Live(s) : k \in QueueIds /\ t.tq[k] = s.tq[k]
    BY <2>1, <2>2, LiveType
  <2>4. \A k \in QueueIds : t.tq[k].reading = s.tq[k].reading
    BY <2>1, <2>2 DEF FreshQueue, Vacant
  <2>5. Vacant(t)
    BY <2>1, <2>4 DEF Vacant
  <2>6. IdsIn(s) \subseteq IdsIn(t)
    BY <1>1, <2>1, <2>3 DEF IdsIn
  <2>7. Keeps(s, t, {})
    BY <2>4, <2>5, <2>6 DEF Keeps, KeepsReaders
  <2> QED BY <1>1, <1>2, <2>1, <2>3, <2>4, <2>5, <2>7 DEF t, u
<1> QED BY <1>3, <1>4

-----------------------------------------------------------------------------
(* Helpers that move tasks *)

(* The tasks of one queue and the waiting ones change; a task that was in either
   place is still in one of them, or in I. *)
LEMMA WithTasksKeeps ==
  ASSUME NEW s, HeapOK(s), Vacant(s), NEW q \in Live(s), NEW b, NEW n, NEW w, NEW I,
         \A i \in DOMAIN s.waiting : \/ \E j \in DOMAIN w : w[j].id = s.waiting[i].id
                                     \/ \E j \in DOMAIN b : b[j].id = s.waiting[i].id,
         \A i \in DOMAIN s.tq[q].bg : \/ \E j \in DOMAIN b : b[j].id = s.tq[q].bg[i].id
                                      \/ s.tq[q].bg[i].id \in I
  PROVE  Keeps(s, WithTasks(s, q, b, n, w), I)
<1> DEFINE r == [s.tq[q] EXCEPT !.bg = b, !.num_bg = n]
           t == WithTasks(s, q, b, n, w)
<1>0. q \in QueueIds
  BY LiveType
<1>1. s.tq[q] \in TQueue
  BY <1>0 DEF HeapOK, HeapType
<1>2. r.bg = b /\ r.reading = s.tq[q].reading
  BY <1>1 DEF TQueue
<1>3. t = [s EXCEPT !.tq[q] = r, !.waiting = w]
  BY DEF WithTasks
<1> HIDE DEF r, t
<1>4. /\ t.active = s.active /\ t.idle = s.idle /\ t.waiting = w
      /\ t.tq = [s.tq EXCEPT ![q] = r]
  BY <1>3 DEF HeapOK, HeapType
<1>5. \A k \in QueueIds : t.tq[k] = IF k = q THEN r ELSE s.tq[k]
  BY <1>4 DEF HeapOK, HeapType
<1>6. Live(t) = Live(s)
  BY <1>4 DEF Live
<1>7. \A k \in QueueIds : t.tq[k].reading = s.tq[k].reading
  BY <1>2, <1>5
<1>8. KeepsReaders(s, t, I)
  BY <1>6, <1>7 DEF KeepsReaders, Vacant
<1>9. ASSUME NEW id \in IdsIn(s) PROVE id \in IdsIn(t) \cup I
  <2>0. \A k \in Live(s) : k \in QueueIds
    BY LiveType
  <2>1. (\E j \in DOMAIN b : b[j].id = id) => id \in IdsIn(t)
    <3>1. (\E j \in DOMAIN b : b[j].id = id) => InBg(t, q, id)
      BY <1>0, <1>2, <1>5 DEF InBg
    <3> QED BY <1>6, <3>1, IdsInThese
  <2>2. (\E j \in DOMAIN w : w[j].id = id) => id \in IdsIn(t)
    <3>1. (\E j \in DOMAIN w : w[j].id = id) => Waits(t, id)
      BY <1>4 DEF Waits
    <3> QED BY <3>1, IdsInThese
  <2>3. CASE Waits(s, id)
    BY <2>1, <2>2, <2>3 DEF Waits
  <2>4. ASSUME NEW k \in Live(s), InBg(s, k, id) PROVE id \in IdsIn(t) \cup I
    <3>1. CASE k = q
      BY <2>1, <2>4, <3>1 DEF InBg
    <3>2. CASE k # q
      <4>1. InBg(t, k, id)
        BY <1>5, <2>0, <2>4, <3>2 DEF InBg
      <4> QED BY <1>6, <4>1, IdsInThese
    <3> QED BY <3>1, <3>2
  <2>5. ASSUME NEW k \in Live(s), Reads(s, k, id) PROVE id \in IdsIn(t)
    <3>1. Reads(t, k, id)
      BY <1>7, <2>0, <2>5 DEF Reads
    <3> QED BY <1>6, <3>1, IdsInThese
  <2> QED BY <2>3, <2>4, <2>5, IdsInThese
<1> QED BY <1>8, <1>9 DEF Keeps, t

(* enqueue_waiting() *)
LEMMA EnqueueWaitingKeeps ==
  ASSUME NEW s, HeapOK(s), Vacant(s), NEW t \in Task,
         HasRoomFor(s, t.progr), NEW i \in WaitingPlaces(s, t)
  PROVE  LET u == enqueue_waiting(s, t, i)
         IN HeapOK(u) /\ Keeps(s, u, {}) /\ t.id \in IdsIn(u)
<1> DEFINE p == t.progr
           s1 == find_tqueue(s, p)
           q == TQueueOf(s1, p)
           b == s1.tq[q].bg
           n == s1.tq[q].num_bg + 1
           w == InsertAt(s1.waiting, i, t)
           u == enqueue_waiting(s, t, i)
<1>1. /\ HeapOK(s1) /\ Vacant(s1) /\ Keeps(s, s1, {})
      /\ q \in Live(s1) /\ s1.waiting = s.waiting
  <2>1. p \in Int BY DEF Task
  <2> QED BY <2>1, FindTQueueTasks
<1>2. HeapOK(u)
  BY EnqueueWaiting DEF Preserves
<1>3. u = [s1 EXCEPT !.tq[q].num_bg = @ + 1, !.waiting = InsertAt(@, i, t)]
  BY DEF enqueue_waiting
<1> HIDE DEF s1, q, u, p
<1>4. q \in QueueIds /\ s1.tq[q] \in TQueue
  BY <1>1, LiveType DEF HeapOK, HeapType
<1>5. u = WithTasks(s1, q, b, n, w)
  <2>1. [s1.tq[q] EXCEPT !.bg = b, !.num_bg = n] = [s1.tq[q] EXCEPT !.num_bg = n]
    BY <1>4 DEF TQueue
  <2> QED BY <1>3, <2>1 DEF WithTasks
<1>6. s1.waiting \in Seq(Task) /\ i \in 1 .. Len(s1.waiting) + 1
  <2>1. s1.waiting \in Seq(Task) BY <1>1 DEF HeapOK, HeapType
  <2> QED BY <1>1, <2>1 DEF WaitingPlaces
<1>7. Elems(w) = Elems(s1.waiting) \cup {t}
  BY <1>6, InsertAtElems
<1>8. u.waiting = w
  <2> HIDE DEF b, n, w
  <2> QED BY <1>1, <1>4, <1>5, SetTasks
<1>9. Keeps(s1, u, {})
  <2>1. \A j \in DOMAIN s1.waiting : \E k \in DOMAIN w : w[k].id = s1.waiting[j].id
    <3> HIDE DEF w
    <3> QED BY <1>7 DEF Elems
  <2> HIDE DEF w, n, b
  <2>2. \A j \in DOMAIN s1.tq[q].bg : \E k \in DOMAIN b : b[k].id = s1.tq[q].bg[j].id
    BY DEF b
  <2> QED BY <1>1, <1>5, <2>1, <2>2, WithTasksKeeps
<1>10. t.id \in IdsIn(u)
  <2> HIDE DEF w
  <2>1. \E k \in DOMAIN w : w[k] = t
    BY <1>7 DEF Elems
  <2> QED BY <1>8, <2>1 DEF IdsIn
<1>11. Keeps(s, u, {})
  BY <1>1, <1>9, KeepsChain
<1> QED BY <1>2, <1>10, <1>11 DEF u

(* What is appended to is still there. *)
LEMMA AppendElems ==
  ASSUME NEW S, NEW l \in Seq(S), NEW e \in S
  PROVE  /\ \A j \in DOMAIN l : j \in DOMAIN Append(l, e) /\ Append(l, e)[j] = l[j]
         /\ \E j \in DOMAIN Append(l, e) : Append(l, e)[j] = e
<1>1. /\ DOMAIN l = 1 .. Len(l) /\ DOMAIN Append(l, e) = 1 .. Len(l) + 1
      /\ Append(l, e)[Len(l) + 1] = e /\ Len(l) \in Nat
      /\ \A j \in 1 .. Len(l) : Append(l, e)[j] = l[j]
  OBVIOUS
<1>2. Len(l) + 1 \in DOMAIN Append(l, e) /\ \A j \in 1 .. Len(l) : j \in 1 .. Len(l) + 1
  BY <1>1
<1> QED BY <1>1, <1>2

(* make_ready(): a waiting task goes to the background tasks of its owner. *)
LEMMA MakeReadyKeeps ==
  ASSUME NEW s, HeapOK(s), Vacant(s), NEW i \in DOMAIN s.waiting,
         HasRoomFor(s, s.waiting[i].progr)
  PROVE  LET u == make_ready(s, i, s.waiting[i])
         IN HeapOK(u) /\ Keeps(s, u, {})
<1> DEFINE t == s.waiting[i]
           p == t.progr
           w == RemoveAt(s.waiting, i)
           s0 == [s EXCEPT !.waiting = w]
           s1 == find_tqueue(s0, p)
           q == TQueueOf(s1, p)
           s2 == ensure_usage(s1, q)
           u == make_ready(s, i, t)
<1>1. HeapOK(u) /\ HasRoomFor(s, p)
  BY MakeReady DEF Preserves
<1>2. s.waiting \in Seq(Task) /\ w \in Seq(Task) /\ t \in Task
  <2>1. s.waiting \in Seq(Task) BY DEF HeapOK, HeapType
  <2> QED BY <2>1, RemoveAtType
<1>3. u = enqueue_bg_task(s2, q, t)
  BY DEF make_ready
<1>4. \A j \in DOMAIN s.waiting : j = i \/ \E k \in DOMAIN w : w[k] = s.waiting[j]
  <2>1. /\ w \in Seq(Task) /\ i \in 1 .. Len(w) + 1
        /\ InsertAt(w, i, t) = s.waiting
    BY <1>2, RemoveInsert
  <2> HIDE DEF w, t
  <2> DEFINE v == InsertAt(w, i, t)
  <2>2. /\ DOMAIN v = 1 .. Len(w) + 1
        /\ \A j \in 1 .. Len(w) + 1 :
             v[j] = IF j < i THEN w[j] ELSE IF j = i THEN t ELSE w[j - 1]
    BY <2>1, <1>2, InsertAtType
  <2> HIDE DEF v
  <2>3. v = s.waiting
    BY <2>1 DEF v
  <2> SUFFICES ASSUME NEW j \in 1 .. Len(w) + 1, j # i
               PROVE  \E k \in DOMAIN w : w[k] = s.waiting[j]
    BY <2>2, <2>3
  <2>4. CASE j < i
    BY <2>1, <2>2, <2>3, <2>4
  <2>5. CASE j > i
    <3>1. j - 1 \in DOMAIN w /\ w[j - 1] = s.waiting[j]
      BY <2>1, <2>2, <2>3, <2>5
    <3> QED BY <3>1
  <2> QED BY <2>1, <2>4, <2>5
<1> HIDE DEF w, t, u
<1>5. /\ HeapOK(s0) /\ s0.waiting = w /\ s0.tq = s.tq /\ s0.active = s.active
      /\ s0.idle = s.idle
  <2>1. HeapOK(s0)
    BY <1>2, SetWaiting DEF Preserves
  <2> QED BY <2>1 DEF HeapOK, HeapType
<1> HIDE DEF s0, p
<1>6. Live(s0) = Live(s) /\ Vacant(s0) /\ HasRoomFor(s0, p)
  BY <1>1, <1>5 DEF HasTQueue, HasRoomFor, Live, Vacant
<1>7. /\ HeapOK(s1) /\ Vacant(s1) /\ Live(s) \subseteq Live(s1)
      /\ q \in Live(s1) /\ s1.waiting = w
      /\ \A k \in Live(s) : s1.tq[k] = s.tq[k]
      /\ \A k \in QueueIds : s1.tq[k].reading = s.tq[k].reading
  <2>1. p \in Int BY <1>2 DEF Task, p
  <2> QED BY <1>5, <1>6, <2>1, FindTQueueTasks
<1> HIDE DEF s1, q
<1>8. q \in QueueIds
  BY <1>7, LiveType
<1>9. HeapOK(s2) /\ SameTasks(s1, s2)
  BY <1>7, <1>8, EnsureUsage, EnsureUsageTasks DEF Preserves
<1> HIDE DEF s2
<1>10. /\ Live(s1) \subseteq Live(s2) /\ s2.waiting = w /\ Vacant(s2)
       /\ \A k \in QueueIds : s2.tq[k].bg = s1.tq[k].bg /\ s2.tq[k].reading = s1.tq[k].reading
  BY <1>7, <1>9, SameTasksKeeps DEF SameTasks, SameTask, Keeps, KeepsReaders
<1> DEFINE b == Append(s2.tq[q].bg, t)
           n == s2.tq[q].num_bg
<1>11. s2.tq[q] \in TQueue /\ s2.tq[q].bg \in Seq(Task)
  BY <1>8, <1>9, QueueFields DEF HeapOK, HeapType
<1>12. u = WithTasks(s2, q, b, n, w)
  <2>1. [s2.tq[q] EXCEPT !.bg = b, !.num_bg = n] = [s2.tq[q] EXCEPT !.bg = b]
    BY <1>11 DEF TQueue
  <2>2. u = [s2 EXCEPT !.tq[q] = [s2.tq[q] EXCEPT !.bg = b]]
    BY <1>3 DEF enqueue_bg_task
  <2> HIDE DEF b, n
  <2> QED BY <1>9, <1>10, <2>1, <2>2 DEF HeapOK, HeapType, WithTasks
<1>13. /\ \A j \in DOMAIN s2.tq[q].bg : j \in DOMAIN b /\ b[j] = s2.tq[q].bg[j]
       /\ \E j \in DOMAIN b : b[j] = t
  <2> DEFINE l == s2.tq[q].bg
  <2>1. l \in Seq(Task) /\ t \in Task
    BY <1>2, <1>11
  <2> HIDE DEF l
  <2>2. /\ \A j \in DOMAIN l : j \in DOMAIN Append(l, t) /\ Append(l, t)[j] = l[j]
        /\ \E j \in DOMAIN Append(l, t) : Append(l, t)[j] = t
    BY <2>1, AppendElems
  <2> QED BY <2>2 DEF l
<1>14. Keeps(s2, u, {}) /\ \E j \in DOMAIN u.tq[q].bg : u.tq[q].bg[j] = t
  <2> HIDE DEF b, n
  <2>1. \A j \in DOMAIN s2.waiting : \E k \in DOMAIN w : w[k].id = s2.waiting[j].id
    BY <1>10
  <2>2. \A j \in DOMAIN s2.tq[q].bg : \E k \in DOMAIN b : b[k].id = s2.tq[q].bg[j].id
    BY <1>13
  <2>3. q \in Live(s2)
    BY <1>7, <1>10
  <2>4. u.tq[q].bg = b
    BY <1>8, <1>9, <1>12, SetTasks
  <2> QED BY <1>9, <1>10, <1>12, <1>13, <2>1, <2>2, <2>3, <2>4, WithTasksKeeps
<1>15. KeepsReaders(s, u, {})
  BY <1>7, <1>10, <1>14 DEF Keeps, KeepsReaders
<1>16. ASSUME NEW id \in IdsIn(s) PROVE id \in IdsIn(u)
  <2>0. \A k \in Live(s) : k \in QueueIds /\ k \in Live(s2)
    BY <1>7, <1>10, LiveType
  <2>1. CASE Waits(s, id)
    <3>1. t.id = id \/ \E k \in DOMAIN w : w[k].id = id
      BY <1>4, <2>1 DEF Waits, t
    <3>2. t.id \in IdsIn(u)
      <4>1. InBg(u, q, t.id)
        BY <1>14 DEF InBg
      <4>2. q \in Live(u)
        BY <1>7, <1>8, <1>10, <1>12, <1>9, SetTasks DEF TasksChange
      <4> QED BY <4>1, <4>2, IdsInThese
    <3>3. (\E k \in DOMAIN w : w[k].id = id) => id \in IdsIn(s2)
      BY <1>10, IdsInThese DEF Waits
    <3> QED BY <1>14, <3>1, <3>2, <3>3 DEF Keeps
  <2>2. CASE \E k \in Live(s) : InBg(s, k, id) \/ Reads(s, k, id)
    <3>1. PICK k \in Live(s) : InBg(s, k, id) \/ Reads(s, k, id)
      BY <2>2
    <3>2. s2.tq[k].bg = s.tq[k].bg /\ s2.tq[k].reading = s.tq[k].reading
      BY <1>7, <1>10, <2>0
    <3>3. InBg(s2, k, id) \/ Reads(s2, k, id)
      BY <3>1, <3>2 DEF InBg, Reads
    <3>4. id \in IdsIn(s2)
      BY <2>0, <3>3, IdsInThese
    <3> QED BY <1>14, <3>4 DEF Keeps
  <2> QED BY <2>1, <2>2, IdsInThese
<1>17. Keeps(s, u, {})
  BY <1>15, <1>16 DEF Keeps
<1> QED BY <1>1, <1>17 DEF u, t

(* dequeue_bg_task(): the first background task is run. *)
LEMMA DequeueBgKeeps ==
  ASSUME NEW s, HeapOK(s), Vacant(s), NEW q \in Live(s), s.tq[q].bg # <<>>
  PROVE  Keeps(s, dequeue_bg_task(s, q), {s.tq[q].bg[1].id})
<1> DEFINE b == Tail(s.tq[q].bg)
           n == s.tq[q].num_bg - 1
           w == s.waiting
           I == {s.tq[q].bg[1].id}
           u == dequeue_bg_task(s, q)
<1>0. q \in QueueIds
  BY LiveType
<1>1. s.tq[q] \in TQueue /\ s.tq[q].bg \in Seq(Task)
  BY <1>0, QueueFields DEF HeapOK, HeapType
<1>2. u = WithTasks(s, q, b, n, w)
  <2>1. [[s.tq[q] EXCEPT !.bg = b] EXCEPT !.num_bg = n] = [s.tq[q] EXCEPT !.bg = b, !.num_bg = n]
    BY <1>1 DEF TQueue
  <2>2. u = [s EXCEPT !.tq[q] = [s.tq[q] EXCEPT !.bg = b, !.num_bg = n]]
    BY <1>0, <1>1 DEF dequeue_bg_task, HeapOK, HeapType
  <2> HIDE DEF u, b, n
  <2> QED BY <2>2 DEF WithTasks, HeapOK, HeapType
<1>3. \A i \in DOMAIN s.tq[q].bg : i = 1 \/ \E j \in DOMAIN b : b[j] = s.tq[q].bg[i]
  <2> TAKE i \in DOMAIN s.tq[q].bg
  <2>1. CASE i # 1
    <3>1. i - 1 \in DOMAIN b /\ b[i - 1] = s.tq[q].bg[i]
      BY SMTT(30), <1>1, <2>1
    <3> QED BY <3>1
  <2> QED BY <2>1
<1> HIDE DEF b, n, u
<1>4. \A i \in DOMAIN s.tq[q].bg :
        (\E j \in DOMAIN b : b[j].id = s.tq[q].bg[i].id) \/ s.tq[q].bg[i].id \in I
  BY <1>3
<1>5. \A i \in DOMAIN s.waiting : \E j \in DOMAIN w : w[j].id = s.waiting[i].id
  OBVIOUS
<1> HIDE DEF w, I
<1>6. Keeps(s, u, I)
  BY <1>2, <1>4, <1>5, WithTasksKeeps
<1> QED BY <1>6 DEF u, I
(* server_new_connection(): the connection's queue is found or made. *)
LEMMA ServerNewConnectionKeeps ==
  ASSUME NEW s, HeapOK(s), Vacant(s), NEW h \in ConnIds, HasRoomFor(s, h),
         NEW l \in Listeners, NEW outbound \in BOOLEAN, NEW greet \in BOOLEAN
  PROVE  Keeps(s, server_new_connection(s, h, l, outbound, greet), {})
<1> DEFINE s1 == find_tqueue(s, h)
           q == TQueueOf(s1, h)
           sc == [s1 EXCEPT !.tq[q].connected = TRUE]
           g == [open |-> TRUE, player |-> h, queue |-> q, listener |-> l,
                 logged |-> FALSE, disconnect_me |-> FALSE,
                 outbound |-> outbound, paused |-> FALSE]
           s2 == [sc EXCEPT !.handles[h] = g]
           s3 == enqueue_input_task(s2, q, "blank", FALSE)
           s4 == task_suspend_input(s3, q)
           t == server_new_connection(s, h, l, outbound, greet)
<1>1. t = IF greet THEN s4 ELSE s2
  BY DEF server_new_connection
<1>2. h \in Int
  BY ConnIdsType
<1>3. HeapOK(s1) /\ Vacant(s1) /\ Keeps(s, s1, {}) /\ q \in Live(s1)
  BY <1>2, FindTQueueTasks
<1> HIDE DEF s1, q
<1>4. q \in QueueIds
  BY <1>3, LiveType
<1>5. g \in Handle /\ g.open /\ g.queue = q
  BY <1>2, <1>4 DEF Handle
<1> HIDE DEF g
<1>6. HeapOK(sc) /\ SameTasks(s1, sc)
  BY <1>3, <1>4, SetConnected, SetFieldTasks
<1> HIDE DEF sc
<1>7. HeapOK(s2) /\ SameTasks(sc, s2)
  BY <1>4, <1>5, <1>6, SetHandle, MarkHandleTasks
<1> HIDE DEF s2, t
<1>8. HeapOK(s3) /\ SameTasks(s2, s3)
  BY <1>4, <1>7, EnqueueInputTask, EnqueueInputTasks DEF LineKinds, Preserves
<1> HIDE DEF s3
<1>9. SameTasks(s3, s4)
  BY <1>4, <1>8, SuspendInputTasks
<1> HIDE DEF s4
<1>10. SameTasks(s1, s2)
  BY <1>6, <1>7, SameTasksChain
<1>11. SameTasks(s1, s4)
  BY <1>8, <1>9, <1>10, SameTasksChain
<1>12. Keeps(s1, t, {})
  BY <1>1, <1>3, <1>10, <1>11, SameTasksKeeps
<1>13. Keeps(s, t, {})
  BY <1>3, <1>12, KeepsChain
<1> QED BY <1>13 DEF t

(* What is the same for all owners is so for all tasks, readers apart. *)
LEMMA OwnersTasks ==
  ASSUME NEW s, NEW t, SameOwners(s, t),
         \A q \in QueueIds : t.tq[q].reading = s.tq[q].reading
  PROVE  SameTasks(s, t)
BY DEF SameOwners, SameOwner, SameTasks, SameTask

(* The first active queue becomes idle. *)
LEMMA DeactivateTasks ==
  ASSUME NEW s, HeapOK(s), s.active # <<>>
  PROVE  SameTasks(s, deactivate_tqueue([s EXCEPT !.active = Tail(@)], s.active[1]))
<1> DEFINE q == s.active[1]
           r == [s.tq[q] EXCEPT !.usage = NO_USAGE]
           t == deactivate_tqueue([s EXCEPT !.active = Tail(@)], q)
<1>1. SameOwners(s, t)
  BY DeactivateOwners
<1>2. q \in QueueIds
  BY TailElems DEF HeapOK, HeapType
<1>3. t = [s EXCEPT !.tq[q] = r, !.active = Tail(s.active), !.idle = s.idle \cup {q}]
  BY DEF deactivate_tqueue
<1>4. r.reading = s.tq[q].reading
  <2>1. s.tq[q] \in TQueue BY <1>2 DEF HeapOK, HeapType
  <2> QED BY <2>1 DEF TQueue
<1> HIDE DEF q, r, t
<1>5. t.tq = [s.tq EXCEPT ![q] = r]
  BY <1>3 DEF HeapOK, HeapType
<1>6. \A k \in QueueIds : t.tq[k].reading = s.tq[k].reading
  BY <1>4, <1>5 DEF HeapOK, HeapType
<1>7. SameTasks(s, t)
  BY <1>1, <1>6, OwnersTasks
<1> QED BY <1>7 DEF t, q

(* The first active queue is charged, and goes where its usage puts it. *)
LEMMA ChargeFirstTasks ==
  ASSUME NEW s, HeapOK(s), s.active # <<>>, NEW e \in Nat
  PROVE  LET q == s.active[1]
             t == [s EXCEPT !.active = RestAfter(@, q), !.tq[q].usage = @ + e]
         IN SameTasks(s, activate_tqueue(t, q))
<1> DEFINE q == s.active[1]
           r == [s.tq[q] EXCEPT !.usage = @ + e]
           a == RestAfter(s.active, q)
           t == [s EXCEPT !.active = RestAfter(@, q), !.tq[q].usage = @ + e]
           u == activate_tqueue(t, q)
<1>1. SameOwners(s, u)
  BY ChargeFirstOwners
<1>2. /\ HeapOK(t) /\ q \in QueueIds /\ q \notin t.idle /\ q \notin Elems(t.active)
      /\ t.tq[q].usage # NO_USAGE
  BY ChargeFirst
<1>3. r.reading = s.tq[q].reading
  <2>1. s.tq[q] \in TQueue BY <1>2 DEF HeapOK, HeapType
  <2> QED BY <2>1 DEF TQueue
<1>4. t = [s EXCEPT !.active = a, !.tq[q] = r]
  OBVIOUS
<1> HIDE DEF q, r, a, t
<1>5. t.tq = [s.tq EXCEPT ![q] = r]
  BY <1>4 DEF HeapOK, HeapType
<1>6. u = [t EXCEPT !.active = u.active]
  BY <1>2, ActivateTQueue
<1> HIDE DEF u
<1>7. u.tq = t.tq
  BY <1>2, <1>6 DEF HeapOK, HeapType
<1>8. \A k \in QueueIds : u.tq[k].reading = s.tq[k].reading
  BY <1>3, <1>5, <1>7 DEF HeapOK, HeapType
<1>9. SameTasks(s, u)
  BY <1>1, <1>8, OwnersTasks
<1> QED BY <1>9 DEF u, t, q

(* The queues that are freed have no reader, for it would keep them active, and
   no task, if the accounts are right. *)
LEMMA FreeIdleTQueuesKeeps ==
  ASSUME NEW s, HeapOK(s), Vacant(s), \A q \in QueueIds : SafeReader(s, q)
  PROVE  LET t == free_idle_tqueues(s)
         IN KeepsReaders(s, t, {}) /\ (OwnersOK(s) => Keeps(s, t, {}))
<1> DEFINE dead == {q \in s.idle : ~s.tq[q].connected /\ s.tq[q].input = <<>>
                                   /\ s.tq[q].num_bg = 0}
           f == [q \in QueueIds |-> IF q \in dead THEN FreshQueue(NOTHING) ELSE s.tq[q]]
           t == free_idle_tqueues(s)
<1>1. t = [s EXCEPT !.idle = s.idle \ dead, !.tq = f]
  BY DEF free_idle_tqueues
<1>2. /\ dead \subseteq s.idle
      /\ \A q \in dead : ~s.tq[q].connected /\ s.tq[q].num_bg = 0
      /\ \A q \in QueueIds \ dead : f[q] = s.tq[q]
      /\ \A q \in QueueIds : q \in dead => f[q].reading = NoTask
  BY DEF FreshQueue
<1> HIDE DEF dead, f, t
<1>3. /\ t.tq = f /\ t.active = s.active /\ t.idle = s.idle \ dead
      /\ t.waiting = s.waiting
  BY <1>1 DEF HeapOK, HeapType
<1>4. Live(t) = Live(s) \ dead
  BY <1>2, <1>3 DEF HeapOK, Live, Elems
<1>5. \A q \in dead : q \in QueueIds /\ s.tq[q].reading = NoTask
  BY <1>2 DEF SafeReader, HeapOK, HeapType
<1>6. \A q \in QueueIds : t.tq[q].reading = s.tq[q].reading
  BY <1>2, <1>3, <1>5
<1>7. KeepsReaders(s, t, {})
  BY <1>4, <1>5, <1>6 DEF KeepsReaders, Vacant
<1>8. ASSUME OwnersOK(s) PROVE Keeps(s, t, {})
  <2>1. \A q \in dead : s.tq[q].bg = <<>>
    <3> TAKE q \in dead
    <3>1. q \in Live(s) /\ q \in QueueIds
      BY <1>2, <1>5 DEF Live
    <3>2. 0 = Counted(s, q)
      BY <1>2, <1>8, <3>1 DEF OwnersOK, TasksOK
    <3>3. s.tq[q].bg \in Seq(Task) /\ s.waiting \in Seq(Task)
      BY <3>1, QueueFields DEF HeapOK, HeapType
    <3>4. Cardinality(Own(s.waiting, s.tq[q].player)) \in Nat
      BY <3>3, OwnFinite
    <3>5. Len(s.tq[q].bg) = 0
      BY <3>2, <3>3, <3>4 DEF Counted
    <3> QED BY <3>3, <3>5
  <2>2. ASSUME NEW id \in IdsIn(s) PROVE id \in IdsIn(t)
    <3>1. CASE Waits(s, id)
      BY <1>3, <3>1, IdsInThese DEF Waits
    <3>2. CASE \E q \in Live(s) : InBg(s, q, id) \/ Reads(s, q, id)
      <4>1. PICK q \in Live(s) : InBg(s, q, id) \/ Reads(s, q, id)
        BY <3>2
      <4>2. q \notin dead
        BY <1>5, <2>1, <4>1 DEF InBg, Reads
      <4>3. q \in Live(t) /\ t.tq[q] = s.tq[q]
        BY <1>2, <1>3, <1>4, <4>2, LiveType
      <4>4. InBg(t, q, id) \/ Reads(t, q, id)
        BY <4>1, <4>3 DEF InBg, Reads
      <4> QED BY <4>3, <4>4, IdsInThese
    <3> QED BY <3>1, <3>2, IdsInThese
  <2> QED BY <1>7, <2>2 DEF Keeps
<1> QED BY <1>7, <1>8 DEF t
-----------------------------------------------------------------------------
(* Readers *)

(* A reader is resumed or killed. *)
LEMMA DropReaderKeeps ==
  ASSUME NEW s, HeapOK(s), Vacant(s), NEW q \in QueueIds
  PROVE  Keeps(s, [s EXCEPT !.tq[q].reading = NoTask], {s.tq[q].reading})
<1> DEFINE r == [s.tq[q] EXCEPT !.reading = NoTask]
           t == [s EXCEPT !.tq[q] = r]
<1>1. r.reading = NoTask /\ r.bg = s.tq[q].bg
  <2>1. s.tq[q] \in TQueue BY DEF HeapOK, HeapType
  <2> QED BY <2>1 DEF TQueue
<1>2. [s EXCEPT !.tq[q].reading = NoTask] = t
  OBVIOUS
<1> HIDE DEF r
<1>3. /\ t.active = s.active /\ t.idle = s.idle /\ t.waiting = s.waiting
      /\ t.tq = [s.tq EXCEPT ![q] = r]
  BY DEF HeapOK, HeapType
<1> HIDE DEF t
<1>4. \A k \in QueueIds : t.tq[k] = IF k = q THEN r ELSE s.tq[k]
  BY <1>3 DEF HeapOK, HeapType
<1>5. Live(t) = Live(s) /\ \A k \in Live(s) : k \in QueueIds
  BY <1>3, LiveType DEF Live
<1>6. KeepsReaders(s, t, {s.tq[q].reading})
  BY <1>1, <1>4, <1>5 DEF KeepsReaders, Vacant
<1>7. ASSUME NEW id \in IdsIn(s), id # s.tq[q].reading PROVE id \in IdsIn(t)
  <2>1. CASE Waits(s, id)
    BY <1>3, <2>1, IdsInThese DEF Waits
  <2>2. CASE \E k \in Live(s) : InBg(s, k, id) \/ Reads(s, k, id)
    <3>1. PICK k \in Live(s) : InBg(s, k, id) \/ Reads(s, k, id)
      BY <2>2
    <3>2. t.tq[k].bg = s.tq[k].bg
      BY <1>1, <1>4, <1>5
    <3>3. k # q => t.tq[k].reading = s.tq[k].reading
      BY <1>4, <1>5
    <3>4. InBg(t, k, id) \/ Reads(t, k, id)
      BY <1>7, <3>1, <3>2, <3>3 DEF InBg, Reads
    <3> QED BY <1>5, <3>4, IdsInThese
  <2> QED BY <2>1, <2>2, IdsInThese
<1> QED BY <1>2, <1>6, <1>7 DEF Keeps

(* read() leaves a task where there was no reader. *)
LEMMA NewReaderKeeps ==
  ASSUME NEW s, HeapOK(s), Vacant(s), NEW q \in Live(s), s.tq[q].reading = NoTask,
         NEW id \in TaskIds
  PROVE  LET t == [s EXCEPT !.tq[q].reading = id]
         IN Keeps(s, t, {}) /\ id \in IdsIn(t)
<1> DEFINE r == [s.tq[q] EXCEPT !.reading = id]
           t == [s EXCEPT !.tq[q].reading = id]
<1>0. q \in QueueIds /\ \A k \in Live(s) : k \in QueueIds
  BY LiveType
<1>1. r.reading = id /\ r.bg = s.tq[q].bg
  <2>1. s.tq[q] \in TQueue BY <1>0 DEF HeapOK, HeapType
  <2> QED BY <2>1 DEF TQueue
<1>2. t = [s EXCEPT !.tq[q] = r]
  OBVIOUS
<1> HIDE DEF r, t
<1>3. /\ t.active = s.active /\ t.idle = s.idle /\ t.waiting = s.waiting
      /\ t.tq = [s.tq EXCEPT ![q] = r]
  BY <1>2 DEF HeapOK, HeapType
<1>4. \A k \in QueueIds : t.tq[k] = IF k = q THEN r ELSE s.tq[k]
  BY <1>3 DEF HeapOK, HeapType
<1>5. Live(t) = Live(s)
  BY <1>3 DEF Live
<1>6. KeepsReaders(s, t, {})
  BY <1>4, <1>5 DEF KeepsReaders, Vacant
<1>7. ASSUME NEW i \in IdsIn(s) PROVE i \in IdsIn(t)
  <2>1. CASE Waits(s, i)
    BY <1>3, <2>1, IdsInThese DEF Waits
  <2>2. CASE \E k \in Live(s) : InBg(s, k, i) \/ Reads(s, k, i)
    <3>1. PICK k \in Live(s) : InBg(s, k, i) \/ Reads(s, k, i)
      BY <2>2
    <3>2. t.tq[k].bg = s.tq[k].bg /\ (k # q => t.tq[k].reading = s.tq[k].reading)
      BY <1>0, <1>1, <1>4
    <3>3. InBg(t, k, i) \/ Reads(t, k, i)
      BY <3>1, <3>2 DEF InBg, Reads
    <3> QED BY <1>5, <3>3, IdsInThese
  <2> QED BY <2>1, <2>2, IdsInThese
<1>8. id \in IdsIn(t)
  <2>1. Reads(t, q, id)
    BY <1>0, <1>1, <1>4, ConstantsAssumption DEF Reads
  <2> QED BY <1>5, <2>1, IdsInThese
<1> QED BY <1>6, <1>7, <1>8 DEF Keeps, t

-----------------------------------------------------------------------------
(* Login *)

(* The same tasks are reading where they were. *)
SameReaders(s, t) ==
  /\ Live(s) \subseteq Live(t)
  /\ \A q \in QueueIds : t.tq[q].reading = s.tq[q].reading

(* Where no task moves, every reader stays. *)
LEMMA SameTasksReaders ==
  ASSUME NEW s, NEW t, SameTasks(s, t)
  PROVE  SameReaders(s, t)
BY DEF SameTasks, SameTask, SameReaders

(* Two changes that leave the readers, one after the other. *)
LEMMA SameReadersChain ==
  ASSUME NEW s, NEW t, NEW u, SameReaders(s, t), SameReaders(t, u)
  PROVE  SameReaders(s, u)
BY DEF SameReaders

(* The background tasks of a queue, or their number, are replaced. *)
LEMMA SetBgReaders ==
  ASSUME NEW s, HeapOK(s), NEW q \in QueueIds, NEW v
  PROVE  /\ SameReaders(s, [s EXCEPT !.tq[q].bg = v])
         /\ SameReaders(s, [s EXCEPT !.tq[q].num_bg = v])
<1> DEFINE r1 == [s.tq[q] EXCEPT !.bg = v]
           r2 == [s.tq[q] EXCEPT !.num_bg = v]
<1>1. r1.reading = s.tq[q].reading /\ r2.reading = s.tq[q].reading
  <2>1. s.tq[q] \in TQueue BY DEF HeapOK, HeapType
  <2> QED BY <2>1 DEF TQueue
<1>2. ASSUME NEW r, r.reading = s.tq[q].reading
      PROVE  SameReaders(s, [s EXCEPT !.tq[q] = r])
  <2> DEFINE t == [s EXCEPT !.tq[q] = r]
  <2>1. /\ t.active = s.active /\ t.idle = s.idle
        /\ t.tq = [s.tq EXCEPT ![q] = r]
    BY DEF HeapOK, HeapType
  <2> HIDE DEF t
  <2>2. SameReaders(s, t)
    BY <1>2, <2>1 DEF SameReaders, Live, HeapOK, HeapType
  <2> QED BY <2>2 DEF t
<1>3. /\ [s EXCEPT !.tq[q].bg = v] = [s EXCEPT !.tq[q] = r1]
      /\ [s EXCEPT !.tq[q].num_bg = v] = [s EXCEPT !.tq[q] = r2]
  OBVIOUS
<1> HIDE DEF r1, r2
<1> QED BY <1>1, <1>2, <1>3

(* The connection's own tasks move to a queue of its own. *)
LEMMA LeaveOwnTasksReaders ==
  ASSUME NEW s, HeapOK(s), Vacant(s), NEW q \in QueueIds, NEW old \in Int,
         s.tq[q].num_bg = 0 \/ HasRoomFor(s, old)
  PROVE  SameReaders(s, leave_own_tasks(s, q, old))
<1>1. CASE s.tq[q].num_bg = 0
  BY <1>1 DEF leave_own_tasks, SameReaders
<1>2. CASE s.tq[q].num_bg # 0
  <2> DEFINE s1 == find_tqueue(s, old)
             o == TQueueOf(s1, old)
             n == s.tq[q].num_bg
             c == s.tq[q].bg
             s2 == [s1 EXCEPT !.tq[o].num_bg = n]
             s3 == [s2 EXCEPT !.tq[o].bg = s2.tq[o].bg \o c]
             s4 == [s3 EXCEPT !.tq[q].bg = <<>>]
             s5 == [s4 EXCEPT !.tq[q].num_bg = 0]
  <2>1. HeapOK(s1) /\ o \in Live(s1) /\ SameReaders(s, s1)
    BY <1>2, FindTQueueTasks DEF SameReaders
  <2>2. leave_own_tasks(s, q, old)
          = [s1 EXCEPT !.tq[o].num_bg = s.tq[q].num_bg,
                       !.tq[o].bg = @ \o s.tq[q].bg,
                       !.tq[q].bg = <<>>, !.tq[q].num_bg = 0]
    BY <1>2 DEF leave_own_tasks
  <2>3. n \in Int /\ c \in Seq(Task)
    BY QueueFields
  <2> HIDE DEF s1, o
  <2>4. o \in QueueIds
    BY <2>1, LiveType
  <2> HIDE DEF n, c
  <2>5. leave_own_tasks(s, q, old) = s5
    <3>1. s1.tq \in [QueueIds -> TQueue] /\ s1.tq[o] \in TQueue /\ s1 \in HeapType
      BY <2>1, <2>4 DEF HeapOK, HeapType
    <3>2. s2.tq[o].bg = s1.tq[o].bg
      BY <2>4, <3>1 DEF TQueue, HeapType
    <3>3. leave_own_tasks(s, q, old)
            = [s1 EXCEPT !.tq[o].num_bg = n, !.tq[o].bg = s1.tq[o].bg \o c,
                         !.tq[q].bg = <<>>, !.tq[q].num_bg = 0]
      BY <2>4, <2>2, <3>1 DEF n, c, TQueue, HeapType
    <3>4. s3 = [s1 EXCEPT !.tq[o].num_bg = n, !.tq[o].bg = s1.tq[o].bg \o c]
      BY <3>2
    <3>5. s5 = [s3 EXCEPT !.tq[q].bg = <<>>, !.tq[q].num_bg = 0]
      OBVIOUS
    <3> QED BY <3>3, <3>4, <3>5
  <2>6. HeapOK(s2) /\ SameReaders(s1, s2)
    BY <2>1, <2>3, <2>4, SetNumBg, SetBgReaders DEF Preserves
  <2> HIDE DEF s2
  <2>7. s2.tq[o].bg \o c \in Seq(Task)
    BY <2>3, <2>4, <2>6, QueueFields
  <2>8. HeapOK(s3) /\ SameReaders(s2, s3)
    BY <2>4, <2>6, <2>7, SetBg, SetBgReaders DEF Preserves
  <2> HIDE DEF s3
  <2>9. <<>> \in Seq(Task) /\ 0 \in Int
    OBVIOUS
  <2>10. HeapOK(s4) /\ SameReaders(s3, s4)
    BY <2>8, <2>9, SetBg, SetBgReaders DEF Preserves
  <2> HIDE DEF s4
  <2>11. SameReaders(s4, s5)
    BY <2>10, SetBgReaders
  <2> HIDE DEF s5
  <2>12. SameReaders(s, s3)
    BY <2>1, <2>6, <2>8, SameReadersChain
  <2>13. SameReaders(s, s5)
    BY <2>10, <2>11, <2>12, SameReadersChain
  <2> QED BY <2>5, <2>13
<1> QED BY <1>1, <1>2

(* The player's old queue is emptied, but for its reader. *)
LEMMA MergeReaders ==
  ASSUME NEW s, HeapOK(s), NEW q \in QueueIds, NEW dead \in QueueIds
  PROVE  SameReaders(s, merge_dead_tqueue(s, q, dead))
<1> DEFINE n == s.tq[dead].num_bg
           s0 == [s EXCEPT !.tq[q].num_bg = n]
           s1 == dequeue_all_input(s0, dead)
           s2 == [s1 EXCEPT !.tq[q].bg = s1.tq[q].bg \o s1.tq[dead].bg]
           s3 == [s2 EXCEPT !.tq[dead].bg = <<>>]
           s4 == [s3 EXCEPT !.tq[dead].player = NOTHING]
           s5 == [s4 EXCEPT !.tq[dead].num_bg = 0]
<1>1. n \in Int /\ <<>> \in Seq(Task) /\ NOTHING \in Int
  BY QueueFields DEF NOTHING
<1>2. merge_dead_tqueue(s, q, dead)
        = [s1 EXCEPT !.tq[q].bg = @ \o s1.tq[dead].bg, !.tq[dead].bg = <<>>,
                     !.tq[dead].player = NOTHING, !.tq[dead].num_bg = 0]
  BY DEF merge_dead_tqueue
<1> HIDE DEF n
<1>3. HeapOK(s0) /\ SameReaders(s, s0)
  BY <1>1, SetNumBg, SetBgReaders DEF Preserves
<1> HIDE DEF s0
<1>4. HeapOK(s1) /\ SameReaders(s0, s1)
  BY <1>3, DequeueAllInput, DequeueAllTasks, SameTasksReaders DEF Preserves
<1> HIDE DEF s1
<1>5. merge_dead_tqueue(s, q, dead) = s5
  BY <1>2
<1>6. s1.tq[q].bg \o s1.tq[dead].bg \in Seq(Task)
  BY <1>4, QueueFields
<1>7. HeapOK(s2) /\ SameReaders(s1, s2)
  BY <1>1, <1>4, <1>6, SetBg, SetBgReaders DEF Preserves
<1> HIDE DEF s2
<1>8. HeapOK(s3) /\ SameReaders(s2, s3)
  BY <1>1, <1>7, SetBg, SetBgReaders DEF Preserves
<1> HIDE DEF s3
<1>9. HeapOK(s4) /\ SameReaders(s3, s4)
  BY <1>1, <1>8, SetPlayer, SetFieldTasks, SameTasksReaders DEF Preserves
<1> HIDE DEF s4
<1>10. SameReaders(s4, s5)
  BY <1>9, SetBgReaders
<1> HIDE DEF s5
<1>11. SameReaders(s, s2)
  BY <1>3, <1>4, <1>7, SameReadersChain
<1>12. SameReaders(s2, s5)
  BY <1>8, <1>9, <1>10, SameReadersChain
<1> QED BY <1>5, <1>11, <1>12, SameReadersChain
(* player_connected() may close the connection that the player has. *)
LEMMA PlayerConnectedTasks ==
  ASSUME NEW s, HeapOK(s), NEW h \in ConnIds, NEW p \in Int
  PROVE  SameTasks(s, player_connected(s, h, p))
<1> DEFINE u == WithPlayer(s, h, p)
           g == [s.handles[h] EXCEPT !.player = p, !.logged = TRUE]
           k == find_shandle(s, p)
           t == player_connected(s, h, p)
<1>1. t = IF HasHandle(s, p) THEN free_shandle(u, k) ELSE u
  BY DEF player_connected, WithPlayer
<1>2. /\ HeapOK(u) /\ u.handles[h].open = s.handles[h].open
      /\ \A j \in ConnIds \ {h} : u.handles[j] = s.handles[j]
  BY SetHandlePlayer
<1>3. SameTasks(s, u)
  <2>1. s.handles[h] \in Handle
    BY DEF HeapOK, HeapType
  <2>2. u = [s EXCEPT !.handles[h] = g]
    BY <2>1 DEF HeapOK, HeapType, WithPlayer
  <2> HIDE DEF u, g
  <2> QED BY <2>2, MarkHandleTasks
<1> HIDE DEF u, t
<1>4. CASE HasHandle(s, p)
  <2>1. k \in ConnIds /\ s.handles[k].open
    BY <1>4, FindShandleOpen
  <2> HIDE DEF k
  <2>2. u.handles[k].open
    BY <1>2, <2>1
  <2>3. SameTasks(u, free_shandle(u, k))
    BY <1>2, <2>1, <2>2, FreeShandleTasks
  <2>4. SameTasks(s, t)
    BY <1>1, <1>3, <1>4, <2>3, SameTasksChain
  <2> QED BY <2>4 DEF t
<1>5. CASE ~HasHandle(s, p)
  BY <1>1, <1>3, <1>5 DEF t
<1> QED BY <1>4, <1>5

(* The queues after a login, before the connection is redirected. *)
LEMMA LoginReaders ==
  ASSUME NEW s, HeapOK(s), Vacant(s), NEW q \in QueueIds, NEW p \in Int,
         s.tq[q].num_bg = 0 \/ Live(s) # QueueIds
  PROVE  LET old == s.tq[q].player
             s1 == leave_own_tasks([s EXCEPT !.tq[q].player = p], q, old)
             s2 == IF HasTQueue(s, p) THEN merge_dead_tqueue(s1, q, TQueueOf(s, p)) ELSE s1
         IN HeapOK(s2) /\ SameReaders(s, s2)
<1> DEFINE old == s.tq[q].player
           s0 == [s EXCEPT !.tq[q].player = p]
           s1 == leave_own_tasks(s0, q, old)
           d == TQueueOf(s, p)
           s2 == IF HasTQueue(s, p) THEN merge_dead_tqueue(s1, q, d) ELSE s1
<1>1. old \in Int
  BY QueueFields
<1> HIDE DEF old
<1>2. HeapOK(s0) /\ Live(s0) = Live(s) /\ SameTasks(s, s0)
  BY SetPlayer, SetFieldTasks DEF Preserves
<1>3. s0.tq[q].num_bg = s.tq[q].num_bg
  BY DEF HeapOK, HeapType, TQueue
<1> HIDE DEF s0
<1>4. SameReaders(s, s0) /\ Vacant(s0)
  BY <1>2, SameTasksReaders, SameTasksKeeps DEF Keeps, KeepsReaders
<1>5. s0.tq[q].num_bg = 0 \/ HasRoomFor(s0, old)
  BY <1>2, <1>3 DEF HasRoomFor
<1>6. HeapOK(s1) /\ SameReaders(s0, s1)
  BY <1>1, <1>2, <1>4, <1>5, LeaveOwnTasks, LeaveOwnTasksReaders DEF Preserves
<1> HIDE DEF s1
<1>7. SameReaders(s, s1)
  BY <1>4, <1>6, SameReadersChain
<1>8. HeapOK(s2) /\ SameReaders(s, s2)
  <2>1. CASE HasTQueue(s, p)
    <3>1. d \in QueueIds
      BY <2>1, TQueueOfLive
    <3> HIDE DEF d
    <3>2. /\ HeapOK(merge_dead_tqueue(s1, q, d))
          /\ SameReaders(s1, merge_dead_tqueue(s1, q, d))
      BY <1>6, <3>1, MergeDeadTQueue, MergeReaders DEF Preserves
    <3> QED BY <1>7, <2>1, <3>2, SameReadersChain
  <2>2. CASE ~HasTQueue(s, p)
    BY <1>6, <1>7, <2>2
  <2> QED BY <2>1, <2>2
<1> QED BY <1>8 DEF s1, s0, old, d

(* A login moves background tasks between queues, and loses none. *)
LEMMA TakesOverIds ==
  ASSUME NEW s, HeapOK(s), OwnersOK(s), NEW q \in Live(s), s.tq[q].player < 0,
         NEW p \in Nat, NEW t, TakesOver(s, t, q, p), SameReaders(s, t),
         NEW id \in IdsIn(s)
  PROVE  id \in IdsIn(t)
<1>0. q \in Live(t) /\ q \in QueueIds
  BY LiveType DEF SameReaders
<1>1. CASE Waits(s, id)
  BY <1>1, IdsInThese DEF Waits, TakesOver
<1>2. CASE \E k \in Live(s) : Reads(s, k, id)
  <2>1. PICK k \in Live(s) : Reads(s, k, id)
    BY <1>2
  <2>2. k \in Live(t) /\ Reads(t, k, id)
    BY <2>1, LiveType DEF Reads, SameReaders
  <2> QED BY <2>2, IdsInThese
<1>3. CASE \E k \in Live(s) : InBg(s, k, id)
  <2>1. PICK k \in Live(s) : InBg(s, k, id)
    BY <1>3
  <2>2. CASE k = q
    <3>1. s.tq[q].num_bg # 0
      <4>1. s.tq[q].bg \in Seq(Task) /\ s.waiting \in Seq(Task)
        BY <1>0, QueueFields DEF HeapOK, HeapType
      <4>2. Cardinality(Own(s.waiting, s.tq[q].player)) \in Nat
        BY <4>1, OwnFinite
      <4>3. Len(s.tq[q].bg) > 0
        BY <2>1, <2>2, <4>1 DEF InBg
      <4>4. s.tq[q].num_bg = Counted(s, q)
        BY DEF OwnersOK, TasksOK
      <4>5. Counted(s, q) > 0
        BY <4>1, <4>2, <4>3 DEF Counted
      <4> QED BY <4>4, <4>5
    <3>2. Live(t) # Live(s)
      BY <3>1 DEF TakesOver
    <3>3. PICK j \in Live(t) : j \notin Live(s)
      BY <3>2 DEF TakesOver
    <3>4. t.tq[j].bg = s.tq[q].bg
      BY <3>3 DEF TakesOver
    <3>5. InBg(t, j, id)
      BY <2>1, <2>2, <3>4 DEF InBg
    <3> QED BY <3>5, IdsInThese
  <2>3. CASE k # q /\ s.tq[k].player # p
    <3>1. k \in Live(t) /\ t.tq[k].bg = s.tq[k].bg
      BY <2>3 DEF TakesOver, SameOwner
    <3>2. InBg(t, k, id)
      BY <2>1, <3>1 DEF InBg
    <3> QED BY <3>1, <3>2, IdsInThese
  <2>4. CASE s.tq[k].player = p
    <3>1. t.tq[q].bg = s.tq[k].bg
      BY <2>4 DEF TakesOver
    <3>2. InBg(t, q, id)
      BY <2>1, <3>1 DEF InBg
    <3> QED BY <1>0, <3>2, IdsInThese
  <2> QED BY <2>2, <2>3, <2>4
<1> QED BY <1>1, <1>2, <1>3, IdsInThese
-----------------------------------------------------------------------------
(* Steps in general *)

TasksInv == Vacant(Heap) /\ RunningInv

(* The bodies of ReadEndsByDispatch and NoTaskLost. *)
ReadersStep ==
  \A q \in QueueIds :
    tq[q].reading # NoTask /\ tq'[q].reading # tq[q].reading
      => cpu'.id = tq[q].reading \/ (InMoo /\ cpu' = cpu)

IdsStep ==
  \A id \in LiveIds \ LiveIds' :
    InMoo /\ (id = cpu.id \/ (cpu' = cpu /\ handles' = handles))

(* That no background task is lost relies on the queues' counts. *)
StepOK == TasksInv' /\ ReadersStep /\ (OwnInv => IdsStep)

(* No task is lost but the one that runs next, or the one that ran. *)
LEMMA LosingStep ==
  ASSUME NEW STATE s, HeapOK(s), HeapBecomes(s),
         KeepsReaders(Heap, s, {cpu'.id} \ {NoTask}),
         OwnInv => IdsIn(Heap) \subseteq IdsIn(s) \cup ({cpu'.id} \ {NoTask}),
         RunningInv', cpu.id = NoTask \/ cpu'.id = cpu.id \/ InMoo
  PROVE  StepOK
<1>1. Heap' = s /\ tq' = s.tq
  BY HeapBecomesThat DEF HeapBecomes
<1>2. TasksInv'
  BY <1>1 DEF TasksInv, KeepsReaders
<1>3. ReadersStep
  BY <1>1, HeapFields DEF ReadersStep, KeepsReaders
<1>4. ASSUME OwnInv PROVE IdsStep
  <2>1. LiveIds' = IdsIn(s) \cup ({cpu'.id} \ {NoTask})
    BY <1>1 DEF LiveIds
  <2> QED BY <1>4, <2>1 DEF LiveIds, IdsStep
<1> QED BY <1>2, <1>3, <1>4 DEF StepOK

(* No task is lost from the heap. *)
LEMMA KeepingStep ==
  ASSUME NEW STATE s, HeapOK(s), HeapBecomes(s), Keeps(Heap, s, {}),
         RunningInv', cpu.id = NoTask \/ cpu'.id = cpu.id \/ InMoo
  PROVE  StepOK
<1>1. KeepsReaders(Heap, s, {cpu'.id} \ {NoTask})
  BY DEF Keeps, KeepsReaders
<1>2. IdsIn(Heap) \subseteq IdsIn(s) \cup ({cpu'.id} \ {NoTask})
  BY DEF Keeps
<1> QED BY <1>1, <1>2, LosingStep

(* No task moves. *)
LEMMA QuietStep ==
  ASSUME NEW STATE s, IInv, TasksInv, HeapOK(s), HeapBecomes(s), SameTasks(Heap, s),
         RunningInv', cpu.id = NoTask \/ cpu'.id = cpu.id \/ InMoo
  PROVE  StepOK
<1>1. Keeps(Heap, s, {})
  BY SameTasksKeeps DEF IInv, TasksInv
<1> QED BY <1>1, KeepingStep

(* A step that changes nothing but where the main loop is. *)
LEMMA SameHeapStep ==
  ASSUME IInv, TasksInv, UNCHANGED <<tq, active, idle, waiting, handles, panic>>,
         RunningInv', cpu.id = NoTask \/ cpu'.id = cpu.id \/ InMoo
  PROVE  StepOK
<1>1. HeapOK(Heap) /\ HeapBecomes(Heap) /\ SameTasks(Heap, Heap)
  BY SameTasksItself DEF IInv, HeapBecomes, Heap
<1> QED BY <1>1, QuietStep

(* Outside a task there is no task's id. *)
LEMMA NotRunning ==
  ASSUME TasksInv, cpu.at # "task"
  PROVE  cpu.id = NoTask
BY DEF TasksInv, RunningInv

(* The thread goes on to something that is not a task. *)
LEMMA IdleRuns ==
  ASSUME NEW at, cpu' = Idle(at) \/ StartReaping
  PROVE  RunningInv'
<1>1. cpu'.id = NoTask
  BY DEF Idle, StartReaping
<1> QED BY <1>1 DEF RunningInv

-----------------------------------------------------------------------------
(* The actions *)

(* At first there is no task. *)
LEMMA InitTasksInv == Init => TasksInv
<1> SUFFICES ASSUME Init PROVE TasksInv
  OBVIOUS
<1>1. \A q \in QueueIds : Heap.tq[q].reading = NoTask
  BY HeapFields DEF Init, FreshQueue
<1>2. cpu.id = NoTask
  BY DEF Init, ServerVerb, Idle
<1> QED BY <1>1, <1>2 DEF TasksInv, Vacant, RunningInv

(* A connection is made, by a client or by open_network_connection(). *)
LEMMA NewConnectionStep ==
  ASSUME IInv, TasksInv, nextConn \in ConnIds, HasRoomFor(Heap, nextConn),
         NEW l \in Listeners, NEW outbound \in BOOLEAN, NEW greet \in BOOLEAN,
         HeapBecomes(server_new_connection(Heap, nextConn, l, outbound, greet)),
         cpu' = cpu
  PROVE  StepOK
<1> DEFINE s == server_new_connection(Heap, nextConn, l, outbound, greet)
<1>1. HeapOK(s) /\ Keeps(Heap, s, {})
  BY ServerNewConnection, ServerNewConnectionKeeps DEF IInv, TasksInv, Preserves
<1>2. HeapBecomes(s) /\ RunningInv'
  BY DEF TasksInv, RunningInv
<1> HIDE DEF s
<1> QED BY <1>1, <1>2, KeepingStep

(* Lines arrive on a connection. *)
LEMMA ReceiveLinesStep ==
  ASSUME IInv, TasksInv, NEW h \in ConnIds, NEW burst \in Bursts, ReceiveLines(h, burst)
  PROVE  StepOK
<1> DEFINE q == handles[h].queue
           s1 == new_input_task(Heap, q, burst[1])
           s2 == IF Len(burst) = 1 THEN s1 ELSE new_input_task(s1, q, burst[2])
<1>1. HeapBecomes(s2) /\ handles[h].open /\ cpu' = cpu
  BY DEF ReceiveLines
<1>2. HeapOK(Heap) /\ q \in QueueIds
  BY <1>1, HeapFields DEF IInv, HeapOK
<1>3. burst[1] \in LineKinds /\ (Len(burst) # 1 => burst[2] \in LineKinds)
  BY ConstantsAssumption DEF Bursts
<1> HIDE DEF q
<1>4. HeapOK(s1) /\ SameTasks(Heap, s1)
  BY <1>2, <1>3, NewInputTasks, NewInputTask DEF Preserves
<1> HIDE DEF s1
<1>5. HeapOK(s2) /\ SameTasks(Heap, s2)
  <2>1. CASE Len(burst) = 1
    BY <1>4, <2>1
  <2>2. CASE Len(burst) # 1
    <3>1. /\ HeapOK(new_input_task(s1, q, burst[2]))
          /\ SameTasks(s1, new_input_task(s1, q, burst[2]))
      BY <1>2, <1>3, <1>4, <2>2, NewInputTasks, NewInputTask DEF Preserves
    <3> QED BY <1>4, <2>2, <3>1, SameTasksChain
  <2> QED BY <2>1, <2>2
<1> HIDE DEF s2
<1>6. RunningInv'
  BY <1>1 DEF TasksInv, RunningInv
<1> QED BY <1>1, <1>5, <1>6, QuietStep

(* A client goes away, or a connection is booted: it is marked. *)
LEMMA MarkStep ==
  ASSUME IInv, TasksInv, NEW h \in ConnIds,
         handles' = [handles EXCEPT ![h].disconnect_me = TRUE],
         UNCHANGED <<tq, active, idle, waiting, panic>>,
         RunningInv', cpu.id = NoTask \/ cpu'.id = cpu.id
  PROVE  StepOK
<1> DEFINE g == [Heap.handles[h] EXCEPT !.disconnect_me = TRUE]
           s == [Heap EXCEPT !.handles[h].disconnect_me = TRUE]
<1>1. HeapBecomes(s) /\ s = [Heap EXCEPT !.handles[h] = g]
  BY DEF HeapBecomes, Heap
<1>2. HeapOK(s)
  BY MarkHandle DEF IInv, Preserves
<1> HIDE DEF g, s
<1>3. SameTasks(Heap, s)
  BY <1>1, MarkHandleTasks DEF IInv
<1> QED BY <1>1, <1>2, <1>3, QuietStep

(* A waiting task comes due, or is resumed. *)
LEMMA MakeReadyStep ==
  ASSUME IInv, TasksInv, NEW i \in DOMAIN waiting, HasRoomFor(Heap, waiting[i].progr),
         HeapBecomes(make_ready(Heap, i, waiting[i])), cpu' = cpu
  PROVE  StepOK
<1> DEFINE s == make_ready(Heap, i, Heap.waiting[i])
<1>1. HeapOK(s) /\ Keeps(Heap, s, {}) /\ HeapBecomes(s)
  BY HeapFields, MakeReadyKeeps DEF IInv, TasksInv
<1>2. RunningInv'
  BY DEF TasksInv, RunningInv
<1> HIDE DEF s
<1> QED BY <1>1, <1>2, KeepingStep
(* The reader of the first queue gets an error: it runs. *)
LEMMA ResumeReaderWithErrorStep ==
  ASSUME IInv, TasksInv, ResumeReaderWithError
  PROVE  StepOK
<1> DEFINE q == active[1]
           s == [Heap EXCEPT !.tq[q].reading = NoTask]
<1>1. /\ HeapBecomes(s) /\ cpu'.at = "task" /\ cpu'.id = Heap.tq[q].reading
      /\ Heap.tq[q].reading # NoTask /\ active # <<>> /\ cpu.at = "pick"
  BY DEF ResumeReaderWithError, ReaderStranded, HeapBecomes, Heap, Dispatch, Idle, Picking
<1>2. q \in QueueIds
  BY <1>1, FirstQueue
<1> HIDE DEF q
<1>3. HeapOK(s) /\ Keeps(Heap, s, {Heap.tq[q].reading})
  BY <1>2, NoMoreReading, DropReaderKeeps DEF IInv, TasksInv, Preserves
<1> HIDE DEF s
<1>4. RunningInv' /\ cpu.id = NoTask
  BY <1>1, NotRunning DEF RunningInv
<1>5. {cpu'.id} \ {NoTask} = {Heap.tq[q].reading}
  BY <1>1
<1> QED BY <1>1, <1>3, <1>4, <1>5, LosingStep DEF Keeps

(* An input task runs: a reader's line, or a task that has no id yet. *)
LEMMA RunInputStep ==
  ASSUME IInv, TasksInv, RunInput
  PROVE  StepOK
<1> DEFINE q == active[1]
           r == Heap.tq[q]
           s == dequeue_input_task(Heap, q, How(r))
           t == [s EXCEPT !.tq[q].reading = NoTask]
<1>1. /\ active # <<>> /\ HasInput(r, How(r)) /\ cpu.at = "pick"
  BY HeapFields DEF RunInput, Picking
<1>2. \/ HeapBecomes(s) /\ cpu'.id = NoTask
      \/ HeapBecomes(s) /\ cpu' = cpu
      \/ /\ HeapBecomes(t) /\ cpu'.at = "task" /\ cpu'.id = r.reading
         /\ r.reading # NoTask
  BY HeapFields DEF RunInput, Dispatch, Idle
<1>3. q \in QueueIds /\ HeapOK(Heap)
  BY <1>1, FirstQueue DEF IInv
<1> HIDE DEF q
<1>4. HeapOK(s) /\ SameTasks(Heap, s)
  BY <1>1, <1>3, DequeueInputTask, DequeueInputTasks DEF Preserves
<1> HIDE DEF s
<1>5. cpu.id = NoTask
  BY <1>1, NotRunning
<1>6. CASE HeapBecomes(s) /\ (cpu'.id = NoTask \/ cpu' = cpu)
  <2>1. RunningInv'
    BY <1>5, <1>6 DEF RunningInv
  <2> QED BY <1>4, <1>5, <1>6, <2>1, QuietStep
<1>7. CASE /\ HeapBecomes(t) /\ cpu'.at = "task" /\ cpu'.id = r.reading
           /\ r.reading # NoTask
  <2>1. Keeps(Heap, s, {}) /\ Vacant(s)
    BY <1>3, <1>4, SameTasksKeeps DEF TasksInv, Keeps, KeepsReaders
  <2>2. s.tq[q].reading = r.reading
    BY <1>3, <1>4 DEF SameTasks, SameTask
  <2>3. HeapOK(t) /\ Keeps(s, t, {r.reading})
    <3>1. HeapOK(t) /\ Keeps(s, t, {s.tq[q].reading})
      BY <1>3, <1>4, <2>1, NoMoreReading, DropReaderKeeps DEF Preserves
    <3> QED BY <2>2, <3>1
  <2> HIDE DEF t, r
  <2>4. Keeps(Heap, t, {r.reading})
    BY <2>1, <2>3 DEF Keeps, KeepsReaders
  <2>5. {cpu'.id} \ {NoTask} = {r.reading} /\ RunningInv'
    BY <1>7 DEF RunningInv
  <2> QED BY <1>5, <1>7, <2>3, <2>4, <2>5, LosingStep DEF Keeps
<1> QED BY <1>2, <1>6, <1>7

(* A background task runs. *)
LEMMA RunBackgroundStep ==
  ASSUME IInv, TasksInv, RunBackground
  PROVE  StepOK
<1> DEFINE q == active[1]
           id == Heap.tq[q].bg[1].id
           s == dequeue_bg_task(Heap, q)
<1>1. /\ HeapBecomes(s) /\ Heap.tq[q].bg # <<>> /\ active # <<>>
      /\ cpu'.at = "task" /\ cpu'.id = id /\ cpu.at = "pick"
  BY HeapFields DEF RunBackground, Dispatch, Idle, Picking
<1>2. q \in Live(Heap) /\ q \in QueueIds /\ HeapOK(Heap)
  BY <1>1, FirstQueue DEF IInv
<1> HIDE DEF q
<1>3. id # NoTask
  <2>1. Heap.tq[q].bg \in Seq(Task)
    BY <1>2, QueueFields
  <2>2. Heap.tq[q].bg[1] \in Task
    BY <1>1, <2>1
  <2> QED BY <2>2, ConstantsAssumption DEF Task
<1>4. HeapOK(s) /\ Keeps(Heap, s, {id})
  BY <1>1, <1>2, DequeueBgTask, DequeueBgKeeps DEF TasksInv, Preserves
<1> HIDE DEF s, id
<1>5. RunningInv' /\ cpu.id = NoTask /\ {cpu'.id} \ {NoTask} = {id}
  BY <1>1, <1>3, NotRunning DEF RunningInv
<1> QED BY <1>1, <1>4, <1>5, LosingStep DEF Keeps

(* The first queue has nothing to do. *)
LEMMA DeactivateStep ==
  ASSUME IInv, TasksInv, Deactivate
  PROVE  StepOK
<1> DEFINE q == Heap.active[1]
           s == deactivate_tqueue([Heap EXCEPT !.active = Tail(@)], q)
<1>1. /\ HeapBecomes(s) /\ active # <<>> /\ cpu' = cpu
      /\ ~ReaderStranded(Heap.tq[q]) /\ ~HasInput(Heap.tq[q], How(Heap.tq[q]))
  BY HeapFields DEF Deactivate, Picking
<1>2. HeapOK(Heap) /\ Heap.active # <<>>
  BY <1>1, FirstQueue DEF IInv
<1>3. Heap.tq[q].reading # NoTask => Heap.tq[q].connected
  <2> SUFFICES ASSUME Heap.tq[q].reading # NoTask PROVE Heap.tq[q].connected
    OBVIOUS
  <2>1. How(Heap.tq[q]) = "DQ_FIRST"
    BY DEF How
  <2>2. q \in QueueIds
    BY <1>2, TailElems DEF HeapOK, HeapType
  <2> HIDE DEF q
  <2>3. Heap.tq[q].input \in Seq(LineKinds)
    BY <1>2, <2>2, QueueFields
  <2>4. Heap.tq[q].input = <<>>
    <3>1. \A r, i : Wanted(r, "DQ_FIRST", i)
      BY DEF Wanted
    <3>2. \A i \in DOMAIN Heap.tq[q].input : FALSE
      BY <1>1, <2>1, <3>1 DEF HasInput
    <3>3. Len(Heap.tq[q].input) = 0
      <4> DEFINE l == Heap.tq[q].input
      <4>1. DOMAIN l = 1 .. Len(l) /\ Len(l) \in Nat
        BY <2>3
      <4>2. 1 \notin DOMAIN l
        BY <3>2
      <4> HIDE DEF l
      <4>3. Len(l) = 0
        BY <4>1, <4>2
      <4> QED BY <4>3 DEF l
    <3> QED BY <2>3, <3>3
  <2>5. Heap.tq[q].connected \in BOOLEAN
    BY <1>2, <2>2 DEF HeapOK, HeapType, TQueue
  <2> QED BY <1>1, <2>4, <2>5 DEF ReaderStranded, is_out_of_input
<1>4. HeapOK(s) /\ SameTasks(Heap, s)
  BY <1>2, <1>3, DeactivateFirst, DeactivateTasks
<1> HIDE DEF s, q
<1>5. RunningInv'
  BY <1>1 DEF TasksInv, RunningInv
<1> QED BY <1>1, <1>4, <1>5, QuietStep

(* Nothing is ready: dead queues are freed. *)
LEMMA NothingReadyStep ==
  ASSUME IInv, TasksInv, NothingReady
  PROVE  StepOK
<1> DEFINE s == free_idle_tqueues(Heap)
<1>1. HeapBecomes(s) /\ StartReaping /\ cpu.at = "pick"
  BY DEF NothingReady
<1>2. HeapOK(s) /\ KeepsReaders(Heap, s, {}) /\ (OwnInv => Keeps(Heap, s, {}))
  BY FreeIdleTQueues, FreeIdleTQueuesKeeps DEF IInv, TasksInv, OwnInv, Preserves
<1> HIDE DEF s
<1>3. RunningInv' /\ cpu.id = NoTask
  BY <1>1, IdleRuns, NotRunning
<1>4. KeepsReaders(Heap, s, {cpu'.id} \ {NoTask})
  BY <1>2 DEF KeepsReaders
<1> QED BY <1>1, <1>2, <1>3, <1>4, LosingStep DEF Keeps

(* The queue that ran is charged, and dead queues are freed. *)
LEMMA BumpStep ==
  ASSUME IInv, TasksInv, NEW e \in 0 .. 1, Bump(e)
  PROVE  StepOK
<1> DEFINE q == Heap.active[1]
           s == [Heap EXCEPT !.active = RestAfter(@, q), !.tq[q].usage = @ + e]
           u == activate_tqueue(s, q)
           t == free_idle_tqueues(u)
<1>1. active # <<>> /\ active[1] = cpu.q /\ cpu.at = "bump"
  BY DEF Bump, IInv, CpuOK, DispatchedHere
<1>2. HeapBecomes(t) /\ StartReaping
  BY <1>1, HeapFields DEF Bump
<1>3. HeapOK(Heap) /\ Heap.active # <<>> /\ e \in Nat
  BY <1>1, HeapFields DEF IInv
<1>4. SameTasks(Heap, u) /\ SameOwners(Heap, u)
  BY <1>3, ChargeFirstTasks, ChargeFirstOwners
<1>5. /\ HeapOK(s) /\ q \in QueueIds /\ q \notin s.idle /\ q \notin Elems(s.active)
      /\ s.tq[q].usage # NO_USAGE /\ ReadersStaySafe(Heap, s)
  BY <1>3, ChargeFirst
<1> HIDE DEF q
<1>6. u = [s EXCEPT !.active = u.active] /\ HeapOK(u)
  BY <1>5, ActivateTQueue
<1>7. u.tq = s.tq
  <2> HIDE DEF u, s
  <2> QED BY <1>5, <1>6 DEF HeapOK, HeapType
<1> HIDE DEF s, u
<1>8. \A k \in QueueIds : SafeReader(u, k)
  BY <1>5, <1>7 DEF IInv, ReadersStaySafe, SafeReader
<1>9. Keeps(Heap, u, {}) /\ Vacant(u)
  BY <1>3, <1>4, SameTasksKeeps DEF TasksInv, Keeps, KeepsReaders
<1>10. OwnInv => OwnersOK(u)
  BY <1>3, <1>4, SameOwnersOK DEF OwnInv
<1>11. HeapOK(t) /\ KeepsReaders(u, t, {}) /\ (OwnInv => Keeps(u, t, {}))
  BY <1>6, <1>8, <1>9, <1>10, FreeIdleTQueues, FreeIdleTQueuesKeeps DEF Preserves
<1> HIDE DEF t
<1>12. RunningInv' /\ cpu.id = NoTask
  BY <1>1, <1>2, IdleRuns, NotRunning
<1>13. KeepsReaders(Heap, t, {cpu'.id} \ {NoTask})
  BY <1>9, <1>11 DEF Keeps, KeepsReaders
<1>14. OwnInv => IdsIn(Heap) \subseteq IdsIn(t)
  BY <1>9, <1>11 DEF Keeps
<1> QED BY <1>2, <1>11, <1>12, <1>13, <1>14, LosingStep
(* The running code forks a task. *)
LEMMA ForkStep ==
  ASSUME IInv, TasksInv, NEW p \in Programmers, NEW i \in Places, fork(p, i)
  PROVE  StepOK
<1> DEFINE t == [id |-> NewId, progr |-> p, kind |-> "forked", forever |-> FALSE]
           s == enqueue_waiting(Heap, t, i)
<1>1. t \in Task /\ t.progr = p
  <2>1. NewId \in TaskIds
    BY DEF fork, NewId, FreshIds
  <2> QED BY <2>1, ConstantsAssumption DEF Task
<1>2. /\ HasRoomFor(Heap, t.progr) /\ i \in WaitingPlaces(Heap, t)
      /\ HeapBecomes(s) /\ cpu' = cpu
  BY <1>1 DEF fork
<1> HIDE DEF t
<1>3. HeapOK(s) /\ Keeps(Heap, s, {})
  BY <1>1, <1>2, EnqueueWaitingKeeps DEF IInv, TasksInv
<1> HIDE DEF s
<1>4. RunningInv'
  BY <1>2 DEF TasksInv, RunningInv
<1> QED BY <1>2, <1>3, <1>4, KeepingStep

(* Running code may kill any task, so long as no reader is left behind. *)
LEMMA KillingStep ==
  ASSUME NEW STATE s, IInv, TasksInv, InMoo, HeapOK(s), HeapBecomes(s), Vacant(s),
         s.handles = Heap.handles, cpu' = cpu
  PROVE  StepOK
<1>1. Heap' = s /\ handles' = handles
  BY HeapBecomesThat, HeapFields DEF HeapBecomes
<1> QED BY <1>1 DEF StepOK, TasksInv, RunningInv, ReadersStep, IdsStep

(* kill_task() of a waiting, a reading and a background task. *)
LEMMA KillTaskStep ==
  ASSUME IInv, TasksInv, NEW id \in TaskIds, kill_task(id)
  PROVE  StepOK
<1>0. HeapOK(Heap) /\ Vacant(Heap) /\ InMoo /\ cpu' = cpu
  BY DEF IInv, TasksInv, kill_task, Calls
<1>1. CASE \E i \in DOMAIN waiting :
             LET p == waiting[i].progr
                 s == [Heap EXCEPT !.waiting = RemoveAt(@, i)]
             IN HeapBecomes(IF HasTQueue(s, p)
                            THEN [s EXCEPT !.tq[TQueueOf(s, p)].num_bg = @ - 1]
                            ELSE s)
  <2> PICK i \in DOMAIN waiting :
             LET p == waiting[i].progr
                 s == [Heap EXCEPT !.waiting = RemoveAt(@, i)]
             IN HeapBecomes(IF HasTQueue(s, p)
                            THEN [s EXCEPT !.tq[TQueueOf(s, p)].num_bg = @ - 1]
                            ELSE s)
    BY <1>1
  <2> DEFINE w == RemoveAt(Heap.waiting, i)
             p == waiting[i].progr
             s == [Heap EXCEPT !.waiting = w]
             q == TQueueOf(s, p)
             n == s.tq[q].num_bg - 1
             t == IF HasTQueue(s, p) THEN [s EXCEPT !.tq[q].num_bg = n] ELSE s
  <2>1. w \in Seq(Task)
    BY <1>0, HeapFields, RemoveAtType DEF HeapOK, HeapType
  <2>2. HeapBecomes(t)
    OBVIOUS
  <2> HIDE DEF w, p
  <2>3. HeapOK(s)
    BY <1>0, <2>1, SetWaiting DEF Preserves
  <2>4. SameReaders(Heap, s) /\ s.handles = Heap.handles
    BY <1>0 DEF HeapOK, HeapType, SameReaders, Live
  <2> HIDE DEF s
  <2>5. HeapOK(t) /\ SameReaders(Heap, t) /\ t.handles = Heap.handles
    <3>1. CASE HasTQueue(s, p)
      <4>1. q \in QueueIds
        BY <2>3, <3>1, TQueueOfLive
      <4> HIDE DEF q
      <4>2. n \in Int
        BY <2>3, <4>1, QueueFields
      <4> HIDE DEF n
      <4>3. HeapOK(t) /\ SameReaders(s, t)
        BY <2>3, <3>1, <4>1, <4>2, SetNumBg, SetBgReaders DEF Preserves
      <4>4. t.handles = s.handles
        BY <2>3, <3>1 DEF HeapOK, HeapType
      <4> HIDE DEF t
      <4> QED BY <2>4, <4>3, <4>4, SameReadersChain
    <3>2. CASE ~HasTQueue(s, p)
      BY <2>3, <2>4, <3>2
    <3> QED BY <3>1, <3>2
  <2> HIDE DEF t
  <2>6. Vacant(t)
    BY <1>0, <2>5 DEF Vacant, SameReaders
  <2> QED BY <1>0, <2>2, <2>5, <2>6, KillingStep
<1>2. CASE \E q \in Live(Heap) : HeapBecomes([Heap EXCEPT !.tq[q].reading = NoTask])
  <2> PICK q \in Live(Heap) : HeapBecomes([Heap EXCEPT !.tq[q].reading = NoTask])
    BY <1>2
  <2> DEFINE t == [Heap EXCEPT !.tq[q].reading = NoTask]
  <2>1. q \in QueueIds /\ HeapBecomes(t) /\ t.handles = Heap.handles
    BY <1>0, LiveType DEF HeapOK, HeapType
  <2>2. HeapOK(t) /\ Vacant(t)
    BY <1>0, <2>1, NoMoreReading, DropReaderKeeps DEF Preserves, Keeps, KeepsReaders
  <2> HIDE DEF t
  <2> QED BY <1>0, <2>1, <2>2, KillingStep
<1>3. CASE \E q \in Elems(active) : \E i \in DOMAIN tq[q].bg :
             HeapBecomes([Heap EXCEPT !.tq[q].bg = RemoveAt(@, i),
                                      !.tq[q].num_bg = @ - 1])
  <2> PICK q \in Elems(active) : \E i \in DOMAIN tq[q].bg :
             HeapBecomes([Heap EXCEPT !.tq[q].bg = RemoveAt(@, i),
                                      !.tq[q].num_bg = @ - 1])
    BY <1>3
  <2> PICK i \in DOMAIN tq[q].bg :
             HeapBecomes([Heap EXCEPT !.tq[q].bg = RemoveAt(@, i),
                                      !.tq[q].num_bg = @ - 1])
    OBVIOUS
  <2> DEFINE b == RemoveAt(Heap.tq[q].bg, i)
             s == [Heap EXCEPT !.tq[q].bg = b]
             n == s.tq[q].num_bg - 1
             t == [s EXCEPT !.tq[q].num_bg = n]
  <2>1. q \in QueueIds
    BY <1>0, HeapFields DEF Elems, HeapOK, HeapType
  <2>2. b \in Seq(Task)
    <3>1. Heap.tq[q].bg \in Seq(Task)
      BY <1>0, <2>1, QueueFields
    <3> QED BY <3>1, HeapFields, RemoveAtType
  <2>3. HeapBecomes(t)
    OBVIOUS
  <2> HIDE DEF b
  <2>0. 0 \in Int
    OBVIOUS
  <2>4. HeapOK(s) /\ SameReaders(Heap, s)
    BY <1>0, <2>0, <2>1, <2>2, SetBg, SetBgReaders DEF Preserves
  <2>5. s.handles = Heap.handles
    BY <1>0 DEF HeapOK, HeapType
  <2> HIDE DEF s
  <2>6. n \in Int
    BY <2>1, <2>4, QueueFields
  <2> HIDE DEF n
  <2>7. HeapOK(t) /\ SameReaders(s, t)
    BY <2>1, <2>4, <2>6, SetNumBg, SetBgReaders DEF Preserves
  <2>8. t.handles = s.handles
    BY <2>4 DEF HeapOK, HeapType
  <2> HIDE DEF t
  <2>9. Vacant(t)
    BY <1>0, <2>4, <2>7 DEF Vacant, SameReaders
  <2> QED BY <1>0, <2>3, <2>5, <2>7, <2>8, <2>9, KillingStep
<1> QED BY <1>1, <1>2, <1>3 DEF kill_task

(* force_input() and flush_input() may make a queue. *)
LEMMA ForceInputStep ==
  ASSUME IInv, TasksInv, NEW p \in Targets, NEW line \in Lines, NEW at_front \in BOOLEAN,
         force_input(p, line, at_front)
  PROVE  StepOK
<1> DEFINE s == find_tqueue(Heap, p)
           q == TQueueOf(s, p)
           t == enqueue_input_task(s, q, line, at_front)
<1>1. HeapBecomes(t) /\ HasRoomFor(Heap, p) /\ p \in Int /\ line \in LineKinds /\ cpu' = cpu
  BY ConstantsAssumption DEF force_input
<1>2. HeapOK(s) /\ Vacant(s) /\ Keeps(Heap, s, {}) /\ q \in Live(s)
  BY <1>1, FindTQueueTasks DEF IInv, TasksInv
<1> HIDE DEF s, q
<1>3. q \in QueueIds
  BY <1>2, LiveType
<1>4. HeapOK(t) /\ SameTasks(s, t)
  BY <1>1, <1>2, <1>3, EnqueueInputTask, EnqueueInputTasks DEF Preserves
<1> HIDE DEF t
<1>5. Keeps(s, t, {})
  BY <1>2, <1>4, SameTasksKeeps
<1>6. Keeps(Heap, t, {}) /\ RunningInv'
  BY <1>1, <1>2, <1>5, KeepsChain DEF TasksInv, RunningInv
<1> QED BY <1>1, <1>4, <1>6, KeepingStep

(* flush_input() *)
LEMMA FlushInputStep ==
  ASSUME IInv, TasksInv, NEW p \in Targets, flush_input(p)
  PROVE  StepOK
<1> DEFINE s == find_tqueue(Heap, p)
           q == TQueueOf(s, p)
           t == dequeue_all_input(s, q)
<1>1. HeapBecomes(t) /\ HasRoomFor(Heap, p) /\ p \in Int /\ cpu' = cpu
  BY ConstantsAssumption DEF flush_input
<1>2. HeapOK(s) /\ Vacant(s) /\ Keeps(Heap, s, {}) /\ q \in Live(s)
  BY <1>1, FindTQueueTasks DEF IInv, TasksInv
<1> HIDE DEF s, q
<1>3. q \in QueueIds
  BY <1>2, LiveType
<1>4. HeapOK(t) /\ SameTasks(s, t)
  BY <1>2, <1>3, DequeueAllInput, DequeueAllTasks DEF Preserves
<1> HIDE DEF t
<1>5. Keeps(s, t, {})
  BY <1>2, <1>4, SameTasksKeeps
<1>6. Keeps(Heap, t, {}) /\ RunningInv'
  BY <1>1, <1>2, <1>5, KeepsChain DEF TasksInv, RunningInv
<1> QED BY <1>1, <1>4, <1>6, KeepingStep

(* read_input_now() takes a line. *)
LEMMA ReadInputNowStep ==
  ASSUME IInv, TasksInv, NEW p \in Targets, read_input_now(p)
  PROVE  StepOK
<1> DEFINE q == TQueueOf(Heap, p)
           s == dequeue_input_task(Heap, q, "DQ_INBAND")
<1>1. /\ HeapBecomes(s) /\ HasTQueue(Heap, p) /\ HasInput(Heap.tq[q], "DQ_INBAND")
      /\ cpu' = cpu
  BY HeapFields DEF read_input_now
<1>2. HeapOK(Heap) /\ q \in QueueIds
  BY <1>1, TQueueOfLive DEF IInv
<1> HIDE DEF q
<1>3. HeapOK(s) /\ SameTasks(Heap, s)
  BY <1>1, <1>2, DequeueInputTask, DequeueInputTasks DEF Preserves
<1> HIDE DEF s
<1>4. RunningInv'
  BY <1>1 DEF TasksInv, RunningInv
<1> QED BY <1>1, <1>3, <1>4, QuietStep

(* boot_player() *)
LEMMA BootPlayerStep ==
  ASSUME IInv, TasksInv, NEW p \in Targets, boot_player(p)
  PROVE  StepOK
<1> DEFINE h == find_shandle(Heap, p)
<1>1. h \in ConnIds
  BY FindShandleOpen DEF IInv, boot_player
<1>2. /\ handles' = [handles EXCEPT ![h].disconnect_me = TRUE]
      /\ UNCHANGED <<tq, active, idle, waiting, panic, cpu>>
  BY DEF boot_player
<1> HIDE DEF h
<1>3. RunningInv'
  BY <1>2 DEF TasksInv, RunningInv
<1> QED BY <1>1, <1>2, <1>3, MarkStep

(* The connection options. *)
LEMMA SetOptionStep ==
  ASSUME IInv, TasksInv, NEW p, MaySetOption(p), NEW b \in BOOLEAN, cpu' = cpu,
         NEW STATE s, \/ s = [Heap EXCEPT !.tq[OptionQueue(p)].hold = b]
                      \/ s = [Heap EXCEPT !.tq[OptionQueue(p)].no_oob = b],
         HeapBecomes(s) \/ HeapBecomes(ensure_usage(s, OptionQueue(p)))
  PROVE  StepOK
<1> DEFINE q == OptionQueue(p)
           t == ensure_usage(s, q)
<1>1. q \in QueueIds
  BY FindShandleOpen, HeapFields DEF IInv, MaySetOption, OptionQueue
<1>0. s = [Heap EXCEPT !.tq[q].hold = b] \/ s = [Heap EXCEPT !.tq[q].no_oob = b]
  OBVIOUS
<1> HIDE DEF q
<1>2. HeapOK(s) /\ SameTasks(Heap, s)
  <2>1. HeapOK(Heap)
    BY DEF IInv
  <2>2. CASE s = [Heap EXCEPT !.tq[q].hold = b]
    BY <1>1, <2>1, <2>2, SetOption, SetFieldTasks DEF Preserves
  <2>3. CASE s = [Heap EXCEPT !.tq[q].no_oob = b]
    BY <1>1, <2>1, <2>3, SetOption, SetFieldTasks DEF Preserves
  <2> QED BY <1>0, <2>2, <2>3
<1>3. HeapOK(t) /\ SameTasks(s, t)
  BY <1>1, <1>2, EnsureUsage, EnsureUsageTasks DEF Preserves
<1>4. SameTasks(Heap, t) /\ RunningInv'
  BY <1>2, <1>3, SameTasksChain DEF TasksInv, RunningInv
<1>5. CASE HeapBecomes(s)
  BY <1>2, <1>4, <1>5, QuietStep
<1>6. CASE HeapBecomes(t)
  <2> HIDE DEF t
  <2> QED BY <1>3, <1>4, <1>6, QuietStep
<1> QED BY <1>5, <1>6 DEF q

(* set_connection_option("hold-input") *)
LEMMA SetHoldInputStep ==
  ASSUME IInv, TasksInv, NEW p \in Targets, NEW b \in BOOLEAN, set_hold_input(p, b)
  PROVE  StepOK
<1> DEFINE s == [Heap EXCEPT !.tq[OptionQueue(p)].hold = b]
<1>1. /\ MaySetOption(p) /\ cpu' = cpu
      /\ HeapBecomes(s) \/ HeapBecomes(ensure_usage(s, OptionQueue(p)))
  BY DEF set_hold_input
<1> QED BY <1>1, SetOptionStep

(* set_connection_option("disable-oob") *)
LEMMA SetDisableOobStep ==
  ASSUME IInv, TasksInv, NEW p \in Targets, NEW b \in BOOLEAN, set_disable_oob(p, b)
  PROVE  StepOK
<1> DEFINE s == [Heap EXCEPT !.tq[OptionQueue(p)].no_oob = b]
<1>1. /\ MaySetOption(p) /\ cpu' = cpu
      /\ HeapBecomes(s) \/ HeapBecomes(ensure_usage(s, OptionQueue(p)))
  BY DEF set_disable_oob
<1> QED BY <1>1, SetOptionStep
-----------------------------------------------------------------------------
(* Logins, and the end of a task *)

(* The running code stops: a notifier's caller closes the connection that it
   was about, or gives it back to its listener. *)
LEMMA ReturnStep ==
  ASSUME NEW STATE s, IInv, TasksInv, InMoo, HeapOK(s), StayOpen(Heap, s),
         Keeps(Heap, s, {}), Return(s)
  PROVE  StepOK
<1>1. \A h \in ConnIds : handles[h].open => s.handles[h].open
  BY HeapFields DEF StayOpen
<1>2. Vacant(s)
  BY DEF Keeps, KeepsReaders
<1>3. RunningInv'
  <2>1. /\ [Idle("bump") EXCEPT !.q = cpu.q].id = NoTask /\ Idle("io").id = NoTask
        /\ [Idle("reap") EXCEPT !.todo = cpu.todo].id = NoTask
        /\ [cpu EXCEPT !.then = "login", !.id = NoTask].id = NoTask
    BY DEF Idle, IInv, CpuOK, CPU
  <2>2. cpu'.id = NoTask
    BY <2>1 DEF Return
  <2> QED BY <2>2 DEF RunningInv
<1>4. CASE HeapBecomes(s)
  BY <1>3, <1>4, KeepingStep
<1>5. CASE /\ cpu.at = "notify" /\ cpu.then \in {"close", "reap"}
           /\ HeapBecomes(free_shandle(s, cpu.h))
  <2> DEFINE t == free_shandle(s, cpu.h)
  <2>1. cpu.h \in ConnIds /\ s.handles[cpu.h].open
    BY <1>1, <1>5 DEF IInv, CpuOK
  <2>2. HeapOK(t) /\ SameTasks(s, t)
    BY <2>1, FreeShandle, FreeShandleTasks
  <2>3. HeapBecomes(t)
    BY <1>5
  <2> HIDE DEF t
  <2>4. Keeps(s, t, {})
    BY <1>2, <2>2, SameTasksKeeps
  <2>5. Keeps(Heap, t, {})
    BY <2>4, KeepsChain
  <2> QED BY <1>3, <2>2, <2>3, <2>5, KeepingStep
<1>6. CASE /\ cpu.at = "notify" /\ cpu.then = "relisten"
           /\ HeapBecomes([s EXCEPT !.handles[cpu.h].disconnect_me = FALSE])
  <2> DEFINE t == [s EXCEPT !.handles[cpu.h].disconnect_me = FALSE]
  <2>1. cpu.h \in ConnIds
    BY <1>6 DEF IInv, CpuOK
  <2>2. HeapOK(t) /\ HeapBecomes(t)
    BY <1>6, <2>1, MarkHandle DEF Preserves
  <2>3. SameTasks(s, t)
    <3> DEFINE g == [s.handles[cpu.h] EXCEPT !.disconnect_me = FALSE]
    <3>1. t = [s EXCEPT !.handles[cpu.h] = g]
      OBVIOUS
    <3> HIDE DEF g, t
    <3> QED BY <2>1, <3>1, MarkHandleTasks
  <2> HIDE DEF t
  <2>4. Keeps(s, t, {})
    BY <1>2, <2>3, SameTasksKeeps
  <2>5. Keeps(Heap, t, {})
    BY <2>4, KeepsChain
  <2> QED BY <1>3, <2>2, <2>5, KeepingStep
<1> QED BY <1>4, <1>5, <1>6 DEF Return

(* The task finishes. *)
LEMMA FinishStep ==
  ASSUME IInv, TasksInv, Finish
  PROVE  StepOK
<1>1. StayOpen(Heap, Heap) /\ HeapOK(Heap) /\ Vacant(Heap)
  BY DEF StayOpen, IInv, TasksInv
<1>2. Keeps(Heap, Heap, {})
  BY <1>1, KeepsItself
<1> QED BY <1>1, <1>2, ReturnStep DEF Finish

(* The task suspends. *)
LEMMA SuspendStep ==
  ASSUME IInv, TasksInv, NEW p \in Programmers, NEW forever \in BOOLEAN,
         NEW i \in Places, suspend(p, forever, i)
  PROVE  StepOK
<1> DEFINE t == [id |-> MyId, progr |-> p, kind |-> "suspended", forever |-> forever]
           s == enqueue_waiting(Heap, t, i)
<1>1. t \in Task /\ t.progr = p
  <2>1. MyId \in TaskIds
    BY MyIdType DEF suspend
  <2> QED BY <2>1, ConstantsAssumption DEF Task
<1>2. /\ HasRoomFor(Heap, t.progr) /\ i \in WaitingPlaces(Heap, t)
      /\ Return(s) /\ InMoo /\ HeapOK(Heap) /\ Vacant(Heap)
  BY <1>1 DEF suspend, Calls, IInv, TasksInv
<1> HIDE DEF t
<1>3. HeapOK(s) /\ Keeps(Heap, s, {})
  BY <1>1, <1>2, EnqueueWaitingKeeps
<1>4. StayOpen(Heap, s)
  BY <1>1, <1>2, EnqueueWaiting DEF Preserves
<1> HIDE DEF s
<1> QED BY <1>2, <1>3, <1>4, ReturnStep

(* The task reads. *)
LEMMA ReadStep ==
  ASSUME IInv, TasksInv, NEW p \in Targets, read(p)
  PROVE  StepOK
<1> DEFINE q == TQueueOf(Heap, p)
           s == [Heap EXCEPT !.tq[q].reading = MyId]
           t == IF tq[q].input # <<>> THEN ensure_usage(s, q) ELSE s
<1>1. HasTQueue(Heap, p) /\ MyId \in TaskIds
  BY MyIdType DEF read
<1>2. HeapOK(Heap) /\ Vacant(Heap) /\ q \in Live(Heap) /\ q \in QueueIds
  BY <1>1, TQueueOfLive DEF IInv, TasksInv
<1>3. Return(t) /\ InMoo /\ Heap.tq[q].reading = NoTask
  BY HeapFields DEF read, Calls
<1> HIDE DEF q
<1>4. HeapOK(s) /\ StayOpen(Heap, s) /\ Keeps(Heap, s, {})
  BY <1>1, <1>2, <1>3, SetReading, NewReaderKeeps
<1> HIDE DEF s
<1>5. HeapOK(t) /\ StayOpen(s, t) /\ SameTasks(s, t)
  <2>1. HeapOK(ensure_usage(s, q)) /\ StayOpen(s, ensure_usage(s, q))
    BY <1>2, <1>4, EnsureUsage DEF Preserves
  <2>2. SameTasks(s, ensure_usage(s, q))
    BY <1>2, <1>4, EnsureUsageTasks
  <2> QED BY <1>4, <2>1, <2>2, SameTasksItself DEF StayOpen
<1> HIDE DEF t
<1>6. Vacant(s)
  BY <1>4 DEF Keeps, KeepsReaders
<1>7. Keeps(s, t, {})
  BY <1>4, <1>5, <1>6, SameTasksKeeps
<1>8. Keeps(Heap, t, {}) /\ StayOpen(Heap, t)
  BY <1>4, <1>5, <1>7, KeepsChain DEF StayOpen
<1> QED BY <1>3, <1>5, <1>8, ReturnStep

(* What a login does after the queues have been merged moves no task. *)
LEMMA MergedStep ==
  ASSUME NEW STATE s, NEW STATE t, IInv, TasksInv, HeapOK(s), SameReaders(Heap, s),
         OwnInv => IdsIn(Heap) \subseteq IdsIn(s),
         HeapOK(t), SameTasks(s, t), HeapBecomes(t), cpu.id = NoTask, cpu'.id = NoTask
  PROVE  StepOK
<1>1. Vacant(s)
  BY DEF TasksInv, Vacant, SameReaders
<1>2. Keeps(s, t, {})
  BY <1>1, SameTasksKeeps
<1>3. KeepsReaders(Heap, t, {})
  BY <1>2 DEF Keeps, KeepsReaders, SameReaders, SameTasks, SameTask
<1>4. OwnInv => IdsIn(Heap) \subseteq IdsIn(t)
  BY <1>2 DEF Keeps
<1>5. RunningInv'
  BY DEF RunningInv
<1> QED BY <1>3, <1>4, <1>5, LosingStep DEF KeepsReaders

(* A login: tasks move between queues, and none is lost. *)
LEMMA LoginStep ==
  ASSUME IInv, TasksInv, NEW p \in Players, Login(p)
  PROVE  StepOK
<1> DEFINE q == cpu.q
           old == Heap.tq[q].player
           s1 == leave_own_tasks([Heap EXCEPT !.tq[q].player = p], q, old)
           s2 == IF HasTQueue(Heap, p) THEN merge_dead_tqueue(s1, q, TQueueOf(Heap, p))
                 ELSE s1
           h == find_shandle(s2, old)
           s3 == player_connected(s2, h, p)
           s4 == [s3 EXCEPT !.handles[h].disconnect_me = TRUE]
           s5 == [s2 EXCEPT !.panic = TRUE]
<1>0. cpu.at = "login"
  BY DEF Login
<1>1. /\ HeapOK(Heap) /\ Vacant(Heap) /\ p \in Nat /\ p \in Int /\ cpu.id = NoTask
      /\ Heap.tq[q].num_bg = 0 \/ Live(Heap) # QueueIds
  <2>1. cpu.id = NoTask
    BY <1>0, NotRunning
  <2>2. p \in Nat /\ p \in Int
    BY ConstantsAssumption
  <2>3. Heap.tq[q].num_bg = 0 \/ Live(Heap) # QueueIds
    BY HeapFields DEF Login
  <2> QED BY <2>1, <2>2, <2>3 DEF IInv, TasksInv
<1>2. q \in QueueIds
  <2>1. active # <<>> /\ active[1] = q
    BY <1>0 DEF IInv, CpuOK, DispatchedHere
  <2> QED BY <1>1, <2>1, HeapFields DEF HeapOK, HeapType
<1>3. /\ \/ HeapBecomes(s5)
         \/ HasHandle(s2, old) /\ (HeapBecomes(s3) \/ HeapBecomes(s4))
      /\ cpu'.id = NoTask
  <2>1. cpu \in CPU
    BY DEF IInv, CpuOK
  <2>2. tq[q].player = old
    BY HeapFields
  <2>3. \/ HeapBecomes(s5) /\ cpu' = Idle("io")
        \/ /\ HasHandle(s2, old)
           /\ HeapBecomes(s4) \/ HeapBecomes(s3)
           /\ \E then \in {"relisten", "login"} :
                cpu' = [cpu EXCEPT !.at = "notify", !.h = h, !.id = NoTask,
                                   !.then = then]
    BY <2>2 DEF Login
  <2>4. cpu'.id = NoTask
    <3>1. ASSUME NEW then,
                 cpu' = [cpu EXCEPT !.at = "notify", !.h = h, !.id = NoTask,
                                    !.then = then]
          PROVE  cpu'.id = NoTask
      <4> HIDE DEF h
      <4> QED BY <2>1, <3>1 DEF CPU
    <3>2. cpu' = Idle("io") => cpu'.id = NoTask
      BY DEF Idle
    <3> HIDE DEF h, s3, s4, s5
    <3> QED BY <2>3, <3>1, <3>2
  <2> QED BY <2>3, <2>4
<1>4. HeapOK(s2) /\ SameReaders(Heap, s2)
  BY <1>1, <1>2, LoginReaders
<1>5. OwnInv => IdsIn(Heap) \subseteq IdsIn(s2)
  <2> SUFFICES ASSUME OwnInv PROVE IdsIn(Heap) \subseteq IdsIn(s2)
    OBVIOUS
  <2>1. OwnersOK(Heap) /\ q \in Live(Heap) /\ Heap.tq[q].player < 0
        /\ Heap.tq[q].connected
    BY LoginQueue, HeapFields DEF OwnInv, Login
  <2>2. TakesOver(Heap, s2, q, p)
    BY <1>1, <2>1, TakesOverEffect
  <2> HIDE DEF s2
  <2> QED BY <1>1, <1>4, <2>1, <2>2, TakesOverIds
<1> HIDE DEF s2
<1>6. CASE HeapBecomes(s5)
  <2>1. s2 \in HeapType
    BY <1>4 DEF HeapOK
  <2>2. /\ s5 \in HeapType /\ s5.active = s2.active /\ s5.idle = s2.idle
        /\ s5.tq = s2.tq /\ s5.handles = s2.handles /\ s5.waiting = s2.waiting
    BY <2>1 DEF HeapType
  <2> HIDE DEF s5
  <2>3. QueuesAgree(s2, s5) /\ HandlesAgree(s2, s5)
    BY <2>2 DEF QueuesAgree, HandlesAgree
  <2>4. HeapOK(s5)
    BY <1>4, <2>2, <2>3, QuietHeap DEF Preserves
  <2>5. SameTasks(s2, s5)
    BY <2>2 DEF SameTasks, SameTask, Live
  <2> QED BY <1>1, <1>3, <1>4, <1>5, <1>6, <2>4, <2>5, MergedStep
<1>7. CASE HasHandle(s2, old) /\ (HeapBecomes(s3) \/ HeapBecomes(s4))
  <2>1. h \in ConnIds
    BY <1>4, <1>7, FindShandleOpen
  <2> HIDE DEF h
  <2>2. HeapOK(s3) /\ SameTasks(s2, s3)
    BY <1>1, <1>4, <2>1, PlayerConnected, PlayerConnectedTasks
  <2> HIDE DEF s3
  <2>3. HeapOK(s4)
    BY <2>1, <2>2, MarkHandle DEF Preserves
  <2>4. SameTasks(s3, s4)
    <3> DEFINE g == [s3.handles[h] EXCEPT !.disconnect_me = TRUE]
    <3>1. s4 = [s3 EXCEPT !.handles[h] = g]
      OBVIOUS
    <3> HIDE DEF g, s4
    <3> QED BY <2>1, <2>2, <3>1, MarkHandleTasks
  <2> HIDE DEF s4
  <2>5. SameTasks(s2, s4)
    BY <2>2, <2>4, SameTasksChain
  <2>6. CASE HeapBecomes(s3)
    BY <1>1, <1>3, <1>4, <1>5, <2>2, <2>6, MergedStep
  <2>7. CASE HeapBecomes(s4)
    BY <1>1, <1>3, <1>4, <1>5, <2>3, <2>5, <2>7, MergedStep
  <2> QED BY <1>7, <2>6, <2>7
<1> QED BY <1>3, <1>6, <1>7

(* The connection of a recycled player is closed. *)
LEMMA ReapRecycledStep ==
  ASSUME IInv, TasksInv, NEW h \in ConnIds, ReapRecycled(h)
  PROVE  StepOK
<1> DEFINE s == free_shandle(Heap, h)
<1>1. /\ HeapBecomes(s) /\ Heap.handles[h].open /\ HeapOK(Heap)
      /\ cpu'.id = cpu.id /\ cpu'.at = cpu.at
  BY HeapFields DEF ReapRecycled, Reaping, IInv, CpuOK, CPU
<1>2. HeapOK(s) /\ SameTasks(Heap, s)
  BY <1>1, FreeShandle, FreeShandleTasks
<1> HIDE DEF s
<1>3. RunningInv'
  BY <1>1 DEF TasksInv, RunningInv
<1> QED BY <1>1, <1>2, <1>3, QuietStep
-----------------------------------------------------------------------------
(* Theorems *)

(* No step loses a task or a reader, except as the two action properties allow. *)
LEMMA NextTasks == IInv /\ TasksInv /\ [Next]_vars => StepOK
<1> SUFFICES ASSUME IInv, TasksInv, [Next]_vars PROVE StepOK
  OBVIOUS
<1>1. CASE Network
  <2>1. CASE EndIO
    <3>1. cpu.id = NoTask
      BY <2>1, NotRunning DEF EndIO
    <3>2. RunningInv'
      BY <2>1, IdleRuns DEF EndIO
    <3> QED BY <2>1, <3>1, <3>2, SameHeapStep DEF EndIO
  <2>2. CASE \E l \in Listeners : Accept(l)
    BY <2>2, NewConnectionStep DEF Accept
  <2>3. CASE \E h \in ConnIds : \E burst \in Bursts : ReceiveLines(h, burst)
    BY <2>3, ReceiveLinesStep
  <2>4. CASE \E h \in ConnIds : ClientCloses(h)
    <3> PICK h \in ConnIds : ClientCloses(h)
      BY <2>4
    <3>1. cpu'.id = cpu.id /\ cpu.id = NoTask
      BY NotRunning DEF ClientCloses, IInv, CpuOK, CPU
    <3>2. RunningInv'
      BY <3>1 DEF RunningInv
    <3> QED BY <3>1, <3>2, MarkStep DEF ClientCloses
  <2> QED BY <1>1, <2>1, <2>2, <2>3, <2>4 DEF Network
<1>2. CASE Ready
  <2>1. CASE StartPicking
    <3>1. cpu.id = NoTask
      BY <2>1, NotRunning DEF StartPicking
    <3>2. RunningInv'
      BY <2>1, IdleRuns DEF StartPicking
    <3> QED BY <2>1, <3>1, <3>2, SameHeapStep DEF StartPicking
  <2>2. CASE Wake
    BY <2>2, MakeReadyStep DEF Wake
  <2> QED BY <1>2, <2>1, <2>2, ResumeReaderWithErrorStep, RunInputStep,
             RunBackgroundStep, DeactivateStep, NothingReadyStep, BumpStep DEF Ready
<1>3. CASE Moo
  <2>1. CASE \E p \in Programmers, i \in Places :
               \/ fork(p, i)
               \/ \E forever \in BOOLEAN : suspend(p, forever, i)
    BY <2>1, ForkStep, SuspendStep
  <2>2. CASE \E id \in TaskIds : kill_task(id) \/ do_resume(id)
    <3>1. ASSUME NEW id \in TaskIds, do_resume(id) PROVE StepOK
      BY <3>1, MakeReadyStep DEF do_resume
    <3> QED BY <2>2, <3>1, KillTaskStep
  <2>3. CASE \E p \in Targets :
               \/ \E line \in Lines \ {"flush"}, at_front \in BOOLEAN :
                    force_input(p, line, at_front)
               \/ flush_input(p) \/ read_input_now(p) \/ read(p) \/ boot_player(p)
               \/ \E b \in BOOLEAN : set_hold_input(p, b) \/ set_disable_oob(p, b)
    BY <2>3, ForceInputStep, FlushInputStep, ReadInputNowStep, ReadStep, BootPlayerStep,
       SetHoldInputStep, SetDisableOobStep
  <2>4. CASE \E l \in Listeners, greet \in BOOLEAN : open_network_connection(l, greet)
    BY <2>4, NewConnectionStep DEF open_network_connection
  <2>5. CASE \E p \in Players : Login(p)
    BY <2>5, LoginStep
  <2>6. CASE \E p \in Players : recycle(p)
    <3>1. cpu' = cpu /\ InMoo /\ UNCHANGED <<tq, active, idle, waiting, handles, panic>>
      BY <2>6 DEF recycle, Calls
    <3>2. RunningInv'
      BY <3>1 DEF TasksInv, RunningInv
    <3> QED BY <3>1, <3>2, SameHeapStep
  <2>7. CASE Finish
    BY <2>7, FinishStep
  <2> QED BY <1>3, <2>1, <2>2, <2>3, <2>4, <2>5, <2>6, <2>7 DEF Moo
<1>4. CASE Reap
  <2>1. CASE LoopAgain
    <3>1. cpu.id = NoTask
      BY <2>1, NotRunning DEF LoopAgain
    <3>2. RunningInv'
      BY <2>1 DEF LoopAgain, Idle, ServerVerb, RunningInv
    <3> QED BY <2>1, <3>1, <3>2, SameHeapStep DEF LoopAgain
  <2>2. CASE \E h \in ConnIds : ReapTimedOut(h) \/ ReapBooted(h) \/ Spare(h)
    <3> PICK h \in ConnIds : ReapTimedOut(h) \/ ReapBooted(h) \/ Spare(h)
      BY <2>2
    <3>1. cpu.id = NoTask
      BY NotRunning DEF ReapTimedOut, ReapBooted, Spare, Reaping
    <3>2. cpu'.id = cpu.id /\ UNCHANGED <<tq, active, idle, waiting, handles, panic>>
      BY DEF ReapTimedOut, ReapBooted, Spare, Notify, IInv, CpuOK, CPU
    <3>3. RunningInv'
      BY <3>1, <3>2 DEF RunningInv
    <3> QED BY <3>1, <3>2, <3>3, SameHeapStep
  <2>3. CASE \E h \in ConnIds : ReapRecycled(h)
    BY <2>3, ReapRecycledStep
  <2> QED BY <1>4, <2>1, <2>2, <2>3 DEF Reap
<1>5. CASE UNCHANGED vars
  <2>1. cpu' = cpu /\ UNCHANGED <<tq, active, idle, waiting, handles, panic>>
    BY <1>5 DEF vars
  <2>2. RunningInv'
    BY <2>1 DEF TasksInv, RunningInv
  <2> QED BY <2>1, <2>2, SameHeapStep
<1> QED BY <1>1, <1>2, <1>3, <1>4, <1>5 DEF Next

(* A queue that is not in use has no reader, and only a task has an id of its own
   while the server runs. *)
THEOREM AlwaysTasksInv == Spec => [](IInv /\ TasksInv)
<1>1. IInv /\ TasksInv /\ [Next]_vars => (IInv /\ TasksInv)'
  BY NextIInv, NextTasks DEF StepOK
<1> QED BY <1>1, InitIInv, InitTasksInv, PTL DEF Spec

(* A read() on a connection ends with a line, an error or kill_task(): no queue
   is freed, merged or reused under a reader. *)
THEOREM ReadsEndByDispatch == Spec => ReadEndsByDispatch
<1> DEFINE A == \A q \in QueueIds :
                  tq[q].reading # NoTask /\ tq'[q].reading # tq[q].reading
                    => cpu'.id = tq[q].reading \/ (InMoo /\ cpu' = cpu)
<1>1. IInv /\ TasksInv /\ [Next]_vars => [A]_vars
  BY NextTasks DEF StepOK, ReadersStep
<1> QED BY <1>1, AlwaysTasksInv, PTL DEF Spec, ReadEndsByDispatch

(* A task is lost only when it finishes or MOO code kills it: not by any network
   event, wake-up or scheduling step, nor by the merging of queues at a login. *)
THEOREM NoTaskIsLost == ASSUME NoOrphans PROVE Spec => NoTaskLost
<1> DEFINE A == \A id \in LiveIds \ LiveIds' :
                  InMoo /\ (id = cpu.id \/ (cpu' = cpu /\ handles' = handles))
<1>1. IInv /\ TasksInv /\ OwnInv /\ [Next]_vars => [A]_vars
  BY NextTasks DEF StepOK, IdsStep
<1> QED BY <1>1, AlwaysTasksInv, AlwaysOwnInv, PTL DEF Spec, NoTaskLost

=============================================================================
