----------------------------- MODULE TaskQueues -----------------------------
(***************************************************************************)
(* The task scheduler of the server (tasks.c) together with the part of    *)
(* server.c that owns the connections: the idle and active task queues,    *)
(* the waiting (forked and suspended) tasks, reading tasks, typed-ahead    *)
(* input and its flow control, login with the merging of queues, booting,  *)
(* timing out and closing connections, and the main loop around them.      *)
(*                                                                         *)
(* The server is one thread.  What interleaves are the built-in functions  *)
(* that the running MOO code calls, in any order and number, and the       *)
(* network events of each pass of the main loop.  MOO code runs in a task  *)
(* dispatched by run_ready_tasks() and also in the notifiers (such as      *)
(* #0:user_disconnected) that the server calls while it closes a           *)
(* connection or completes a login.                                        *)
(*                                                                         *)
(* The C helpers are operators from a heap to a heap, so that an action    *)
(* composes them in the order in which the handler calls them.             *)
(***************************************************************************)
EXTENDS Integers, Sequences, FiniteSets

CONSTANTS
  QueueIds,      \* addresses of task queues (a pool that bounds how many live)
  TaskIds,       \* task ids (a pool that bounds the tasks alive at one time)
  Players,       \* objects that may be users; never negative
  Programmers,   \* whom a task may run as: players, perhaps connections
  MaxConns,      \* bound: connections made in a behaviour
  Listeners,     \* the handler objects that connections come in through
  Lines,         \* kinds of input lines the environment sends or forces
  MaxInput,      \* bound: lines pending on one queue
  MaxUsage,      \* bound: the usage a queue accumulates, in seconds
  TaskLimit,     \* $server_options.queued_task_limit; negative: no limit
  INPUT_HIWAT,   \* MAX_QUEUED_INPUT
  Builtins,      \* the built-in functions that the MOO code calls
  NoTask,        \* where there is no task id
  NoQueue,       \* where there is no queue address
  Targets        \* the connections and players it calls them on

NOTHING == -1
NO_USAGE == -1

ConnIds == {0 - n : n \in 2 .. MaxConns + 1}

(* The kinds of line a queue tells apart.  "inband" stands for TASK_INBAND,
   TASK_QUOTED and TASK_BINARY lines, which are all treated as input for a
   command, a login or a reader; "blank" is one that parses to no command;
   "oob" carries the out-of-band prefix; "flush" is the queue's flush command. *)
LineKinds == {"inband", "blank", "oob", "flush"}

BuiltinNames == {"fork", "suspend", "read", "read_now", "kill", "resume",
                 "force", "flush_input", "boot", "hold", "disable_oob",
                 "open", "recycle"}

ASSUME ConstantsAssumption ==
  /\ Players \subseteq Nat
  /\ Programmers \subseteq Int /\ Targets \subseteq Int
  /\ NoTask \notin TaskIds /\ NoQueue \notin QueueIds
  /\ MaxConns \in Nat /\ MaxInput \in Nat /\ MaxUsage \in Nat
  /\ TaskLimit \in Int
  /\ INPUT_HIWAT \in Nat /\ INPUT_HIWAT >= 2
  /\ Lines \subseteq LineKinds
  /\ Builtins \subseteq BuiltinNames
  /\ Listeners # {}

VARIABLES
  tq,        \* the task queues, by address
  active,    \* active_tqueues: a list sorted by usage
  idle,      \* idle_tqueues: its order is never observed
  waiting,   \* waiting_tasks: a list in order of start time
  handles,   \* the shandles, by the connection number each was made with
  nextConn,  \* next_unconnected_player
  valid,     \* the players that exist
  panic,     \* a NULL shandle was dereferenced or panic() was called
  cpu        \* what the single thread is executing

vars == <<tq, active, idle, waiting, handles, nextConn, valid, panic, cpu>>

-----------------------------------------------------------------------------
(* Types *)

Task == [id : TaskIds, progr : Int, kind : {"forked", "suspended"},
         forever : BOOLEAN]

TQueue == [player : Int, connected : BOOLEAN, input : Seq(LineKinds),
           len : Int, suspended : BOOLEAN, bg : Seq(Task), usage : Nat \cup {NO_USAGE},
           num_bg : Int, hold : BOOLEAN, no_oob : BOOLEAN,
           reading : TaskIds \cup {NoTask}]

Handle == [open : BOOLEAN, player : Int, queue : QueueIds \cup {NoQueue},
           listener : Listeners, logged : BOOLEAN, disconnect_me : BOOLEAN,
           outbound : BOOLEAN, paused : BOOLEAN]

Phases == {"io", "wake", "pick", "task", "login", "notify", "bump", "reap"}
Continuations == {"none", "io", "close", "relisten", "login", "reap"}
CPU == [at : Phases, then : Continuations, q : QueueIds \cup {NoQueue}, h : Int,
        id : TaskIds \cup {NoTask}, todo : SUBSET ConnIds]

(* A queue as find_tqueue() creates it. *)
FreshQueue(p) ==
  [player |-> p, connected |-> FALSE, input |-> <<>>, len |-> 0,
   suspended |-> FALSE, bg |-> <<>>, usage |-> NO_USAGE, num_bg |-> 0,
   hold |-> FALSE, no_oob |-> FALSE, reading |-> NoTask]

(* The heap the helpers work on: every variable but valid, nextConn and cpu. *)
Heap == [tq |-> tq, active |-> active, idle |-> idle, waiting |-> waiting,
         handles |-> handles, panic |-> panic]

HeapBecomes(s) ==
  /\ tq' = s.tq
  /\ active' = s.active
  /\ idle' = s.idle
  /\ waiting' = s.waiting
  /\ handles' = s.handles
  /\ panic' = s.panic

-----------------------------------------------------------------------------
(* Lists *)

Elems(l) == {l[i] : i \in DOMAIN l}
InsertAt(l, i, e) ==
  [j \in 1 .. Len(l) + 1 |->
     IF j < i THEN l[j] ELSE IF j = i THEN e ELSE l[j - 1]]
RemoveAt(l, i) ==
  [j \in 1 .. Len(l) - 1 |-> IF j < i THEN l[j] ELSE l[j + 1]]

Live(s) == Elems(s.active) \cup s.idle
HasTQueue(s, p) == \E q \in Live(s) : s.tq[q].player = p

(* find_tqueue() looks through the active queues, in order, before the idle
   ones; they differ only when two queues belong to the same player. *)
TQueueOf(s, p) ==
  IF \E i \in DOMAIN s.active : s.tq[s.active[i]].player = p
  THEN s.active[CHOOSE i \in DOMAIN s.active :
                  /\ s.tq[s.active[i]].player = p
                  /\ \A j \in 1 .. i - 1 : s.tq[s.active[j]].player # p]
  ELSE CHOOSE q \in s.idle : s.tq[q].player = p

(* find_tqueue(p, 1) allocates only if a queue is left in the pool. *)
HasRoomFor(s, p) == HasTQueue(s, p) \/ Live(s) # QueueIds
Unused(s) == CHOOSE q \in QueueIds \ Live(s) : TRUE

find_tqueue(s, p) ==
  IF HasTQueue(s, p) THEN s
  ELSE [s EXCEPT !.tq[Unused(s)] = FreshQueue(p),
                 !.idle = @ \cup {Unused(s)}]

HasHandle(s, p) == \E h \in ConnIds : s.handles[h].open /\ s.handles[h].player = p
find_shandle(s, p) ==
  CHOOSE h \in ConnIds : s.handles[h].open /\ s.handles[h].player = p

-----------------------------------------------------------------------------
(* Idle and active queues *)

(* Mutant: the queue goes before those of equal usage. *)
activate_tqueue_before_equals(s, q) ==
  LET i == IF \E j \in DOMAIN s.active : s.tq[s.active[j]].usage >= s.tq[q].usage
           THEN CHOOSE j \in DOMAIN s.active :
                  /\ s.tq[s.active[j]].usage >= s.tq[q].usage
                  /\ \A k \in 1 .. j - 1 :
                       s.tq[s.active[k]].usage < s.tq[q].usage
           ELSE Len(s.active) + 1
  IN [s EXCEPT !.active = InsertAt(@, i, q)]

activate_tqueue(s, q) ==
  LET i == IF \E j \in DOMAIN s.active : s.tq[s.active[j]].usage > s.tq[q].usage
           THEN CHOOSE j \in DOMAIN s.active :
                  /\ s.tq[s.active[j]].usage > s.tq[q].usage
                  /\ \A k \in 1 .. j - 1 :
                       s.tq[s.active[k]].usage <= s.tq[q].usage
           ELSE Len(s.active) + 1
  IN [s EXCEPT !.active = InsertAt(@, i, q)]

ensure_usage(s, q) ==
  IF s.tq[q].usage # NO_USAGE THEN s
  ELSE activate_tqueue(
         [s EXCEPT !.tq[q].usage = IF s.active = <<>> THEN 0
                                   ELSE s.tq[s.active[1]].usage,
                   !.idle = @ \ {q}], q)

(* Mutant: the usage is not reset. *)
deactivate_tqueue_keeping_usage(s, q) == [s EXCEPT !.idle = @ \cup {q}]

deactivate_tqueue(s, q) ==
  [s EXCEPT !.tq[q].usage = NO_USAGE, !.idle = @ \cup {q}]

is_out_of_input(r) == ~r.connected /\ r.input = <<>>

-----------------------------------------------------------------------------
(* Input lines and flow control *)

Length(line) == IF line = "inband" THEN INPUT_HIWAT + 1
                ELSE IF line = "blank" THEN 0 ELSE 1
INPUT_LOWAT == INPUT_HIWAT \div 2

(* server_suspend_input() and server_resume_input() dereference whatever
   find_shandle() returns for the player. *)
server_set_paused(s, p, b) ==
  IF HasHandle(s, p) THEN [s EXCEPT !.handles[find_shandle(s, p)].paused = b]
  ELSE [s EXCEPT !.panic = TRUE]

task_suspend_input(s, q) ==
  IF ~s.tq[q].suspended /\ s.tq[q].connected
  THEN [server_set_paused(s, s.tq[q].player, TRUE)
          EXCEPT !.tq[q].suspended = TRUE]
  ELSE s

resume_if_low(s, q) ==
  IF s.tq[q].suspended /\ s.tq[q].connected /\ s.tq[q].len < INPUT_LOWAT
  THEN [server_set_paused(s, s.tq[q].player, FALSE)
          EXCEPT !.tq[q].suspended = FALSE]
  ELSE s

enqueue_input_task(s, q, line, at_front) ==
  LET s1 == [s EXCEPT !.tq[q].input = IF at_front THEN InsertAt(@, 1, line)
                                      ELSE Append(@, line),
                      !.tq[q].len = @ + Length(line)]
      r  == s1.tq[q]
      s2 == IF ~r.hold \/ r.reading # NoTask \/ (~r.no_oob /\ line = "oob")
            THEN ensure_usage(s1, q) ELSE s1
  IN IF s2.tq[q].len > INPUT_HIWAT THEN task_suspend_input(s2, q) ELSE s2

(* The places in the input list that dequeue_input_task(tq, how) may take its
   task from: the first line of the wanted kind, and no out-of-band line if
   the queue does not recognise them. *)
Wanted(r, how, i) ==
  CASE how = "DQ_FIRST"  -> TRUE
    [] how = "DQ_OOB"    -> ~r.no_oob /\ r.input[i] = "oob"
    [] how = "DQ_INBAND" -> r.no_oob \/ r.input[i] # "oob"

HasInput(r, how) == \E i \in DOMAIN r.input : Wanted(r, how, i)

InputIndex(r, how) ==
  CHOOSE i \in DOMAIN r.input :
    Wanted(r, how, i) /\ \A j \in 1 .. i - 1 : ~Wanted(r, how, j)

dequeue_input_task(s, q, how) ==
  LET i == InputIndex(s.tq[q], how)
  IN resume_if_low([s EXCEPT !.tq[q].input = RemoveAt(@, i),
                             !.tq[q].len = @ - Length(s.tq[q].input[i])], q)

(* Mutant: flushing leaves a paused connection paused. *)
dequeue_all_and_stay_paused(s, q) ==
  [s EXCEPT !.tq[q].input = <<>>, !.tq[q].len = 0]

(* Dequeueing everything there is, as flush_input() and do_login_task() do. *)
dequeue_all_input(s, q) ==
  IF s.tq[q].input = <<>> THEN s
  ELSE resume_if_low([s EXCEPT !.tq[q].input = <<>>, !.tq[q].len = 0], q)

new_input_task(s, q, line) ==
  IF line = "flush" THEN dequeue_all_input(s, q)
  ELSE enqueue_input_task(s, q, line, FALSE)

-----------------------------------------------------------------------------
(* Background tasks *)

enqueue_bg_task(s, q, t) == [s EXCEPT !.tq[q].bg = Append(@, t)]

dequeue_bg_task(s, q) ==
  [s EXCEPT !.tq[q].bg = Tail(@), !.tq[q].num_bg = @ - 1]

(* The list is kept in order of start time.  Start times are left out: a task
   is inserted wherever its start time may put it, and a task suspended for
   ever (its start time is the last there is) after all the others. *)
WaitingPlaces(s, t) ==
  IF t.forever THEN {Len(s.waiting) + 1}
  ELSE {i \in 1 .. Len(s.waiting) + 1 :
          \A j \in 1 .. i - 1 : ~s.waiting[j].forever}

enqueue_waiting(s, t, i) ==
  LET s1 == find_tqueue(s, t.progr)
  IN [s1 EXCEPT !.tq[TQueueOf(s1, t.progr)].num_bg = @ + 1,
                !.waiting = InsertAt(@, i, t)]

check_user_task_limit(s, p) ==
  \/ TaskLimit < 0
  \/ (IF HasTQueue(s, p) THEN s.tq[TQueueOf(s, p)].num_bg ELSE 0) < TaskLimit

(* A waiting task becomes ready: run_ready_tasks() and do_resume(). *)
make_ready(s, i, t) ==
  LET s1 == find_tqueue([s EXCEPT !.waiting = RemoveAt(@, i)], t.progr)
      q  == TQueueOf(s1, t.progr)
  IN enqueue_bg_task(ensure_usage(s1, q), q, t)

(* The ids that no task alive has. *)
IdsIn(s) ==
  {s.waiting[i].id : i \in DOMAIN s.waiting}
    \cup (UNION {{s.tq[q].bg[i].id : i \in DOMAIN s.tq[q].bg} : q \in Live(s)})
    \cup ({s.tq[q].reading : q \in Live(s)} \ {NoTask})

LiveIds == IdsIn(Heap) \cup ({cpu.id} \ {NoTask})

-----------------------------------------------------------------------------
(* Connections *)

ClosedHandle(h) ==
  [open |-> FALSE, player |-> h, queue |-> NoQueue,
   listener |-> CHOOSE l \in Listeners : TRUE, logged |-> FALSE,
   disconnect_me |-> FALSE, outbound |-> FALSE, paused |-> FALSE]

(* Mutants: the reading task is left on an idle queue, or forgotten. *)
free_task_queue_leaving_reader(s, q) == [s EXCEPT !.tq[q].connected = FALSE]
free_task_queue_dropping_reader(s, q) ==
  [s EXCEPT !.tq[q].connected = FALSE, !.tq[q].reading = NoTask]

free_task_queue(s, q) ==
  LET s1 == [s EXCEPT !.tq[q].connected = FALSE]
  IN IF s1.tq[q].reading # NoTask THEN ensure_usage(s1, q) ELSE s1

free_shandle(s, h) ==
  free_task_queue([s EXCEPT !.handles[h] = ClosedHandle(h)], s.handles[h].queue)

(* `greet' is the test (l || !outbound): an outbound connection opened without
   a listener waits for its first line in silence. *)
server_new_connection(s, h, l, outbound, greet) ==
  LET s1 == find_tqueue(s, h)
      q  == TQueueOf(s1, h)
      s2 == [s1 EXCEPT !.tq[q].connected = TRUE,
                       !.handles[h] = [open |-> TRUE, player |-> h,
                          queue |-> q, listener |-> l, logged |-> FALSE,
                          disconnect_me |-> FALSE, outbound |-> outbound,
                          paused |-> FALSE]]
  IN IF greet THEN task_suspend_input(enqueue_input_task(s2, q, "blank", FALSE), q)
     ELSE s2

(* The tail of run_ready_tasks(): unconnected and empty queues are freed. *)
free_idle_tqueues(s) ==
  LET dead == {q \in s.idle : /\ ~s.tq[q].connected
                              /\ s.tq[q].input = <<>>
                              /\ s.tq[q].num_bg = 0}
  IN [s EXCEPT !.idle = @ \ dead,
               !.tq = [q \in QueueIds |->
                         IF q \in dead THEN FreshQueue(NOTHING) ELSE s.tq[q]]]

-----------------------------------------------------------------------------
(* The initial state: an empty task queue has been loaded, and main_loop() runs
   #0:server_started() before it enters the loop. *)

Idle(at) == [at |-> at, then |-> "none", q |-> NoQueue,
             h |-> 0, id |-> NoTask, todo |-> {}]

(* A verb on #0 that main_loop() runs of its own, before network I/O. *)
ServerVerb == [Idle("notify") EXCEPT !.then = "io"]

Init ==
  /\ tq = [q \in QueueIds |-> FreshQueue(NOTHING)]
  /\ active = <<>> /\ idle = {} /\ waiting = <<>>
  /\ handles = [h \in ConnIds |->
       ClosedHandle(h)]
  /\ nextConn = NOTHING - 1
  /\ valid = Players
  /\ panic = FALSE
  /\ cpu = ServerVerb

-----------------------------------------------------------------------------
(* network_process_io(): connections are accepted, lines arrive, clients
   close.  Nothing is read from a paused connection, but one read() may hold
   several lines, and all of them are delivered. *)

Bursts == {<<l>> : l \in Lines} \cup {<<l, m>> : l, m \in Lines}

(* Mutant: connection numbers count upwards. *)
AcceptCountingUp(l) ==
  /\ cpu.at = "io"
  /\ nextConn \in ConnIds /\ HasRoomFor(Heap, nextConn)
  /\ HeapBecomes(server_new_connection(Heap, nextConn, l, FALSE, TRUE))
  /\ nextConn' = nextConn + 1
  /\ UNCHANGED <<valid, cpu>>

Accept(l) ==
  /\ cpu.at = "io"
  /\ nextConn \in ConnIds /\ HasRoomFor(Heap, nextConn)
  /\ HeapBecomes(server_new_connection(Heap, nextConn, l, FALSE, TRUE))
  /\ nextConn' = nextConn - 1
  /\ UNCHANGED <<valid, cpu>>

ReceiveLines(h, burst) ==
  /\ cpu.at = "io"
  /\ handles[h].open /\ ~handles[h].paused
  /\ LET q == handles[h].queue
         s1 == new_input_task(Heap, q, burst[1])
         s2 == IF Len(burst) = 1 THEN s1 ELSE new_input_task(s1, q, burst[2])
     IN /\ Len(tq[q].input) + Len(burst) <= MaxInput
        /\ HeapBecomes(s2)
  /\ UNCHANGED <<nextConn, valid, cpu>>

ClientCloses(h) ==
  /\ cpu.at = "io"
  /\ handles[h].open
  /\ handles' = [handles EXCEPT ![h].disconnect_me = TRUE]
  /\ cpu' = [cpu EXCEPT !.at = "notify", !.then = "close", !.h = h]
  /\ UNCHANGED <<tq, active, idle, waiting, nextConn, valid, panic>>

EndIO ==
  /\ cpu.at = "io"
  /\ cpu' = Idle("wake")
  /\ UNCHANGED <<tq, active, idle, waiting, handles, nextConn, valid, panic>>

-----------------------------------------------------------------------------
(* run_ready_tasks(): the tasks whose time has come move to the queue of the
   programmer they run as; then the first active queue with a runnable task
   runs one, and the queues before it are deactivated. *)

Wake ==
  /\ cpu.at = "wake"
  /\ waiting # <<>> /\ ~waiting[1].forever
  /\ HasRoomFor(Heap, waiting[1].progr)
  /\ HeapBecomes(make_ready(Heap, 1, waiting[1]))
  /\ UNCHANGED <<nextConn, valid, cpu>>

StartPicking ==
  /\ cpu.at = "wake"
  /\ cpu' = Idle("pick")
  /\ UNCHANGED <<tq, active, idle, waiting, handles, nextConn, valid, panic>>

Picking == cpu.at = "pick" /\ active # <<>>
Dispatch(at, q, id) == cpu' = [Idle(at) EXCEPT !.q = q, !.id = id]
ReaderStranded(r) == r.reading # NoTask /\ is_out_of_input(r)
How(r) == IF r.hold /\ r.reading = NoTask THEN "DQ_OOB" ELSE "DQ_FIRST"

ResumeReaderWithError ==
  /\ Picking
  /\ LET q == active[1]
     IN /\ ReaderStranded(tq[q])
        /\ tq' = [tq EXCEPT ![q].reading = NoTask]
        /\ Dispatch("task", q, tq[q].reading)
  /\ UNCHANGED <<active, idle, waiting, handles, nextConn, valid, panic>>

(* The next input task: an out-of-band command, a line for the reading task,
   a command, or the login of a connection.  A blank command runs nothing and
   the loop goes on with the same queue. *)
RunInput ==
  /\ Picking
  /\ LET q == active[1]
         r == tq[q]
         line == r.input[InputIndex(r, How(r))]
         s == dequeue_input_task(Heap, q, How(r))
     IN /\ ~ReaderStranded(r)
        /\ HasInput(r, How(r))
        /\ \/ /\ line = "oob" /\ ~r.no_oob
              /\ HeapBecomes(s) /\ Dispatch("task", q, NoTask)
           \/ /\ line # "oob" \/ r.no_oob
              /\ r.reading # NoTask
              /\ HeapBecomes([s EXCEPT !.tq[q].reading = NoTask])
              /\ Dispatch("task", q, r.reading)
           \/ /\ line # "oob" \/ r.no_oob
              /\ r.reading = NoTask
              /\ HeapBecomes(s)
              /\ IF r.player < 0 THEN Dispatch("login", q, NoTask)
                 ELSE IF line = "blank" THEN UNCHANGED cpu
                 ELSE Dispatch("task", q, NoTask)
  /\ UNCHANGED <<nextConn, valid>>

RunBackground ==
  /\ Picking
  /\ LET q == active[1]
         r == tq[q]
     IN /\ ~ReaderStranded(r) /\ ~HasInput(r, How(r))
        /\ r.bg # <<>>
        /\ HeapBecomes(dequeue_bg_task(Heap, q))
        /\ Dispatch("task", q, r.bg[1].id)
  /\ UNCHANGED <<nextConn, valid>>

Deactivate ==
  /\ Picking
  /\ LET q == active[1]
         r == tq[q]
     IN /\ ~ReaderStranded(r) /\ ~HasInput(r, How(r)) /\ r.bg = <<>>
        /\ HeapBecomes(deactivate_tqueue([Heap EXCEPT !.active = Tail(@)], q))
  /\ UNCHANGED <<nextConn, valid, cpu>>

StartReaping ==
  cpu' = [Idle("reap") EXCEPT !.todo = {h \in ConnIds : handles[h].open}]

NothingReady ==
  /\ cpu.at = "pick" /\ active = <<>>
  /\ HeapBecomes(free_idle_tqueues(Heap))
  /\ StartReaping
  /\ UNCHANGED <<nextConn, valid>>

(* The task has stopped, e seconds after run_ready_tasks() began.  The head of
   the list becomes whatever follows the queue that ran. *)
RestAfter(l, q) ==
  LET i == CHOOSE j \in DOMAIN l : l[j] = q
  IN SubSeq(l, i + 1, Len(l))

Bump(e) ==
  /\ cpu.at = "bump"
  /\ LET q == cpu.q
         s == [Heap EXCEPT !.active = RestAfter(@, q), !.tq[q].usage = @ + e]
     IN /\ tq[q].usage + e <= MaxUsage
        /\ HeapBecomes(free_idle_tqueues(activate_tqueue(s, q)))
  /\ StartReaping
  /\ UNCHANGED <<nextConn, valid>>

-----------------------------------------------------------------------------
(* Built-in functions of the running MOO code.  Verbs of any programmer may be
   called by a task, so some caller always passes the permission checks of
   bf_force_input(), bf_read() and the others. *)

InMoo == cpu.at \in {"task", "login", "notify"}
Calls(f) == InMoo /\ f \in Builtins

FreshIds == TaskIds \ LiveIds
NewId == CHOOSE id \in FreshIds : TRUE

fork(p, i) ==
  /\ Calls("fork")
  /\ FreshIds # {} /\ HasRoomFor(Heap, p)
  /\ check_user_task_limit(Heap, p)
  /\ LET t == [id |-> NewId, progr |-> p, kind |-> "forked", forever |-> FALSE]
     IN /\ i \in WaitingPlaces(Heap, t)
        /\ HeapBecomes(enqueue_waiting(Heap, t, i))
  /\ UNCHANGED <<nextConn, valid, cpu>>

(* kill_task() looks at the waiting tasks, at every reading task, and at the
   background tasks of the active queues only. *)
kill_task(id) ==
  /\ Calls("kill")
  /\ id # cpu.id
  /\ \/ \E i \in DOMAIN waiting :
          /\ waiting[i].id = id
          /\ LET p == waiting[i].progr
                 s == [Heap EXCEPT !.waiting = RemoveAt(@, i)]
             IN HeapBecomes(IF HasTQueue(s, p)
                            THEN [s EXCEPT !.tq[TQueueOf(s, p)].num_bg = @ - 1]
                            ELSE s)
     \/ \E q \in Live(Heap) :
          /\ id # NoTask /\ tq[q].reading = id
          /\ HeapBecomes([Heap EXCEPT !.tq[q].reading = NoTask])
     \/ \E q \in Elems(active) : \E i \in DOMAIN tq[q].bg :
          /\ tq[q].bg[i].id = id
          /\ HeapBecomes([Heap EXCEPT !.tq[q].bg = RemoveAt(@, i),
                                      !.tq[q].num_bg = @ - 1])
  /\ UNCHANGED <<nextConn, valid, cpu>>

(* do_resume() of a task already resumed only replaces its value. *)
do_resume(id) ==
  /\ Calls("resume")
  /\ \E i \in DOMAIN waiting :
       /\ waiting[i].id = id /\ waiting[i].kind = "suspended"
       /\ HasRoomFor(Heap, waiting[i].progr)
       /\ HeapBecomes(make_ready(Heap, i, waiting[i]))
  /\ UNCHANGED <<nextConn, valid, cpu>>

force_input(p, line, at_front) ==
  /\ Calls("force")
  /\ HasRoomFor(Heap, p)
  /\ LET s == find_tqueue(Heap, p)
         q == TQueueOf(s, p)
     IN /\ Len(s.tq[q].input) < MaxInput
        /\ HeapBecomes(enqueue_input_task(s, q, line, at_front))
  /\ UNCHANGED <<nextConn, valid, cpu>>

flush_input(p) ==
  /\ Calls("flush_input")
  /\ HasRoomFor(Heap, p)
  /\ LET s == find_tqueue(Heap, p)
     IN HeapBecomes(dequeue_all_input(s, TQueueOf(s, p)))
  /\ UNCHANGED <<nextConn, valid, cpu>>

read_input_now(p) ==
  /\ Calls("read_now")
  /\ HasTQueue(Heap, p)
  /\ LET q == TQueueOf(Heap, p)
     IN /\ HasInput(tq[q], "DQ_INBAND")
        /\ HeapBecomes(dequeue_input_task(Heap, q, "DQ_INBAND"))
  /\ UNCHANGED <<nextConn, valid, cpu>>

boot_player(p) ==
  /\ Calls("boot")
  /\ HasHandle(Heap, p)
  /\ handles' = [handles EXCEPT ![find_shandle(Heap, p)].disconnect_me = TRUE]
  /\ UNCHANGED <<tq, active, idle, waiting, nextConn, valid, panic, cpu>>

(* set_connection_option(p, "hold-input", b) and "disable-oob". *)
OptionQueue(p) == handles[find_shandle(Heap, p)].queue
MaySetOption(p) ==
  HasHandle(Heap, p) /\ ~handles[find_shandle(Heap, p)].disconnect_me

set_hold_input(p, b) ==
  /\ Calls("hold")
  /\ MaySetOption(p)
  /\ LET q == OptionQueue(p)
         s == [Heap EXCEPT !.tq[q].hold = b]
     IN HeapBecomes(IF ~b /\ tq[q].input # <<>> THEN ensure_usage(s, q) ELSE s)
  /\ UNCHANGED <<nextConn, valid, cpu>>

(* Mutant: nothing is done about out-of-band lines already queued. *)
set_disable_oob_only(p, b) ==
  /\ Calls("disable_oob")
  /\ MaySetOption(p)
  /\ HeapBecomes([Heap EXCEPT !.tq[OptionQueue(p)].no_oob = b])
  /\ UNCHANGED <<nextConn, valid, cpu>>

set_disable_oob(p, b) ==
  /\ Calls("disable_oob")
  /\ MaySetOption(p)
  /\ LET q == OptionQueue(p)
         s == [Heap EXCEPT !.tq[q].no_oob = b]
     IN HeapBecomes(IF ~b /\ "oob" \in Elems(tq[q].input)
                    THEN ensure_usage(s, q) ELSE s)
  /\ UNCHANGED <<nextConn, valid, cpu>>

open_network_connection(l, greet) ==
  /\ Calls("open")
  /\ nextConn \in ConnIds /\ HasRoomFor(Heap, nextConn)
  /\ HeapBecomes(server_new_connection(Heap, nextConn, l, TRUE, greet))
  /\ nextConn' = nextConn - 1
  /\ UNCHANGED <<valid, cpu>>

(* A player is recycled: valid() no longer holds of it. *)
recycle(p) ==
  /\ Calls("recycle")
  /\ p \in valid
  /\ valid' = valid \ {p}
  /\ UNCHANGED <<tq, active, idle, waiting, handles, nextConn, panic, cpu>>

-----------------------------------------------------------------------------
(* The MOO code stops, by returning, by being aborted, or by blocking, and the
   server goes on with whatever it was doing when it ran it. *)

Return(s) ==
  LET h == cpu.h
      notified == cpu.at = "notify"
  IN \/ /\ ~notified \/ cpu.then = "login"
        /\ HeapBecomes(s)
        /\ cpu' = [Idle("bump") EXCEPT !.q = cpu.q]
     \/ /\ notified /\ cpu.then = "io"
        /\ HeapBecomes(s)
        /\ cpu' = Idle("io")
     \/ /\ notified /\ cpu.then = "close"
        /\ HeapBecomes(free_shandle(s, h))
        /\ cpu' = Idle("io")
     \/ /\ notified /\ cpu.then = "relisten"
        /\ HeapBecomes([s EXCEPT !.handles[h].disconnect_me = FALSE])
        /\ cpu' = [cpu EXCEPT !.then = "login", !.id = NoTask]
     \/ /\ notified /\ cpu.then = "reap"
        /\ HeapBecomes(free_shandle(s, h))
        /\ cpu' = [Idle("reap") EXCEPT !.todo = cpu.todo]

Finish ==
  /\ InMoo
  /\ Return(Heap)
  /\ UNCHANGED <<nextConn, valid>>

(* A task that has never blocked takes its id out of the pool now. *)
HasId == cpu.id # NoTask \/ FreshIds # {}
MyId == IF cpu.id # NoTask THEN cpu.id ELSE NewId

suspend(p, forever, i) ==
  /\ Calls("suspend")
  /\ HasId /\ HasRoomFor(Heap, p)
  /\ check_user_task_limit(Heap, p)
  /\ LET t == [id |-> MyId, progr |-> p, kind |-> "suspended",
               forever |-> forever]
     IN /\ i \in WaitingPlaces(Heap, t)
        /\ Return(enqueue_waiting(Heap, t, i))
  /\ UNCHANGED <<nextConn, valid>>

read(p) ==
  /\ Calls("read")
  /\ HasId /\ HasTQueue(Heap, p)
  /\ LET q == TQueueOf(Heap, p)
         s == [Heap EXCEPT !.tq[q].reading = MyId]
     IN /\ tq[q].reading = NoTask
        /\ ~is_out_of_input(tq[q])
        /\ Return(IF tq[q].input # <<>> THEN ensure_usage(s, q) ELSE s)
  /\ UNCHANGED <<nextConn, valid>>

-----------------------------------------------------------------------------
(* do_login_task(): do_login_command returned the user p.  The connection's
   queue becomes p's.  Tasks of the connection's own move to a new queue for
   it, and those of p's old queue, which is left to be freed, to this one. *)

(* Mutant: the connection's own tasks stay where they are. *)
leave_no_tasks(s, q, old) == s

leave_own_tasks(s, q, old) ==
  IF s.tq[q].num_bg = 0 THEN s
  ELSE LET s1 == find_tqueue(s, old)
           o == TQueueOf(s1, old)
       IN [s1 EXCEPT !.tq[o].num_bg = s.tq[q].num_bg,
                     !.tq[o].bg = @ \o s.tq[q].bg,
                     !.tq[q].bg = <<>>, !.tq[q].num_bg = 0]

(* Mutants: the old queue keeps its player, its tasks, or its count, or gives
   up its player before its input has been thrown away. *)
merge_keeping_player(s, q, dead) ==
  LET s1 == dequeue_all_input([s EXCEPT !.tq[q].num_bg = s.tq[dead].num_bg], dead)
  IN [s1 EXCEPT !.tq[q].bg = @ \o s1.tq[dead].bg,
                !.tq[dead].bg = <<>>, !.tq[dead].num_bg = 0]
merge_dropping_tasks(s, q, dead) ==
  LET s1 == dequeue_all_input([s EXCEPT !.tq[q].num_bg = s.tq[dead].num_bg], dead)
  IN [s1 EXCEPT !.tq[dead].bg = <<>>, !.tq[dead].player = NOTHING,
                !.tq[dead].num_bg = 0]
merge_without_count(s, q, dead) ==
  LET s1 == dequeue_all_input(s, dead)
  IN [s1 EXCEPT !.tq[q].bg = @ \o s1.tq[dead].bg,
                !.tq[dead].bg = <<>>,
                !.tq[dead].player = NOTHING,
                !.tq[dead].num_bg = 0]
merge_renaming_first(s, q, dead) ==
  LET s1 == dequeue_all_input([s EXCEPT !.tq[q].num_bg = s.tq[dead].num_bg,
                                        !.tq[dead].player = NOTHING], dead)
  IN [s1 EXCEPT !.tq[q].bg = @ \o s1.tq[dead].bg,
                !.tq[dead].bg = <<>>, !.tq[dead].num_bg = 0]

merge_dead_tqueue(s, q, dead) ==
  LET s1 == dequeue_all_input([s EXCEPT !.tq[q].num_bg = s.tq[dead].num_bg], dead)
  IN [s1 EXCEPT !.tq[q].bg = @ \o s1.tq[dead].bg,
                !.tq[dead].bg = <<>>,
                !.tq[dead].player = NOTHING,
                !.tq[dead].num_bg = 0]

(* Mutant: the connection p already has is left open. *)
player_connected_twice(s, h, p) ==
  [s EXCEPT !.handles[h].player = p, !.handles[h].logged = TRUE]

(* player_connected(): the connection p already has, if any, is closed. *)
player_connected(s, h, p) ==
  LET s1 == [s EXCEPT !.handles[h].player = p, !.handles[h].logged = TRUE]
  IN IF HasHandle(s, p) THEN free_shandle(s1, find_shandle(s, p)) ELSE s1

Login(p) ==
  /\ cpu.at = "login"
  /\ tq[cpu.q].connected /\ p \in valid
  /\ tq[cpu.q].num_bg = 0 \/ Live(Heap) # QueueIds
  /\ LET q == cpu.q
         old == tq[q].player
         s1 == leave_own_tasks([Heap EXCEPT !.tq[q].player = p], q, old)
         s2 == IF HasTQueue(Heap, p)
               THEN merge_dead_tqueue(s1, q, TQueueOf(Heap, p)) ELSE s1
         h == find_shandle(s2, old)
         s3 == player_connected(s2, h, p)
         redirected == HasHandle(s2, p)
         moved == /\ redirected
                  /\ handles[find_shandle(s2, p)].listener # handles[h].listener
     IN IF ~HasHandle(s2, old)
        THEN HeapBecomes([s2 EXCEPT !.panic = TRUE]) /\ cpu' = Idle("io")
        ELSE /\ HeapBecomes(IF moved THEN [s3 EXCEPT !.handles[h].disconnect_me = TRUE]
                            ELSE s3)
             /\ cpu' = [cpu EXCEPT !.at = "notify", !.h = h, !.id = NoTask,
                                   !.then = IF moved THEN "relisten" ELSE "login"]
  /\ UNCHANGED <<nextConn, valid>>

-----------------------------------------------------------------------------
(* The end of the main loop: each connection there was when it began is looked
   at once, the newest (the lowest connection number) first.  Those that never
   logged in may time out at any moment. *)

(* Mutant: a connection that has not logged in is not closed. *)
BootedPlayer(h) == handles[h].disconnect_me /\ handles[h].logged

Booted(h) == handles[h].disconnect_me
Recycled(h) == handles[h].logged /\ handles[h].player \notin valid
Notify(h) == cpu' = [cpu EXCEPT !.at = "notify", !.then = "reap", !.h = h,
                                !.todo = @ \ {h}]
Reaping(h) == cpu.at = "reap" /\ h \in cpu.todo /\ \A k \in cpu.todo : h <= k

ReapTimedOut(h) ==
  /\ Reaping(h)
  /\ ~handles[h].outbound /\ ~handles[h].logged
  /\ Notify(h)
  /\ UNCHANGED <<tq, active, idle, waiting, handles, nextConn, valid, panic>>

ReapRecycled(h) ==
  /\ Reaping(h)
  /\ Recycled(h)
  /\ HeapBecomes(free_shandle(Heap, h))
  /\ cpu' = [cpu EXCEPT !.todo = @ \ {h}]
  /\ UNCHANGED <<nextConn, valid>>

ReapBooted(h) ==
  /\ Reaping(h)
  /\ ~Recycled(h) /\ Booted(h)
  /\ Notify(h)
  /\ UNCHANGED <<tq, active, idle, waiting, handles, nextConn, valid, panic>>

Spare(h) ==
  /\ Reaping(h)
  /\ ~Recycled(h) /\ ~Booted(h)
  /\ cpu' = [cpu EXCEPT !.todo = @ \ {h}]
  /\ UNCHANGED <<tq, active, idle, waiting, handles, nextConn, valid, panic>>

(* The loop goes round, with #0:checkpoint_started() if one is requested. *)
LoopAgain ==
  /\ cpu.at = "reap" /\ cpu.todo = {}
  /\ cpu' \in {Idle("io"), ServerVerb}
  /\ UNCHANGED <<tq, active, idle, waiting, handles, nextConn, valid, panic>>

-----------------------------------------------------------------------------
(* The specification *)

Network == \/ \E l \in Listeners : Accept(l)
           \/ \E h \in ConnIds : \/ \E burst \in Bursts : ReceiveLines(h, burst)
                                 \/ ClientCloses(h)
           \/ EndIO

Ready == \/ Wake \/ StartPicking
         \/ ResumeReaderWithError \/ RunInput \/ RunBackground
         \/ Deactivate \/ NothingReady
         \/ \E e \in 0 .. 1 : Bump(e)

Places == 1 .. Cardinality(TaskIds) + 1

Moo == \/ \E p \in Programmers, i \in Places :
            \/ fork(p, i)
            \/ \E forever \in BOOLEAN : suspend(p, forever, i)
       \/ \E id \in TaskIds : kill_task(id) \/ do_resume(id)
       \/ \E p \in Targets :
            \/ \E line \in Lines \ {"flush"}, at_front \in BOOLEAN :
                 force_input(p, line, at_front)
            \/ flush_input(p) \/ read_input_now(p) \/ read(p) \/ boot_player(p)
            \/ \E b \in BOOLEAN : set_hold_input(p, b) \/ set_disable_oob(p, b)
       \/ \E l \in Listeners, greet \in BOOLEAN : open_network_connection(l, greet)
       \/ \E p \in Players : recycle(p) \/ Login(p)
       \/ Finish

Reap == \/ \E h \in ConnIds :
             ReapTimedOut(h) \/ ReapRecycled(h) \/ ReapBooted(h) \/ Spare(h)
        \/ LoopAgain

Next == ~panic /\ (Network \/ Ready \/ Moo \/ Reap)

Spec == Init /\ [][Next]_vars

-----------------------------------------------------------------------------
(* Invariants *)

(* Every variable keeps to its type: the C declarations of tqueue, task and
   shandle, the enumerations of the main loop, and one queue per address. *)
TypeOK ==
  /\ tq \in [QueueIds -> TQueue]
  /\ active \in Seq(QueueIds)
  /\ idle \subseteq QueueIds
  /\ waiting \in Seq(Task)
  /\ handles \in [ConnIds -> Handle]
  /\ nextConn \in Int /\ nextConn < NOTHING
  /\ valid \subseteq Players
  /\ panic \in BOOLEAN
  /\ cpu \in CPU

(* server_suspend_input(), server_resume_input() and player_connected() use
   whatever find_shandle() returns: it must never be NULL, in whatever order
   input is dequeued, queues are merged and connections are redirected. *)
NoPanic == ~panic

(* ensure_usage() takes the usage of the first active queue for the smallest
   there is, and finds a queue on the idle list by its usage alone. *)
ListsAgree ==
  /\ \A i, j \in DOMAIN active :
       i < j => /\ active[i] # active[j]
                /\ tq[active[i]].usage <= tq[active[j]].usage
  /\ \A q \in Elems(active) : q \notin idle /\ tq[q].usage # NO_USAGE
  /\ \A q \in idle : tq[q].usage = NO_USAGE

(* run_ready_tasks() drops every queue up to the one whose task it has run.
   Whatever that task did, forks, logins and notifiers included, its queue is
   still the first one. *)
DispatchedHere == \/ cpu.at \in {"task", "login", "bump"}
                  \/ cpu.at = "notify" /\ cpu.then \in {"login", "relisten"}
RunningQueueIsFirst ==
  DispatchedHere => active # <<>> /\ active[1] = cpu.q

(* "There was nothing to do on this tqueue, so deactivate it": run_ready_tasks()
   never looks at an idle queue, so nothing on one may be ready to run. *)
NothingToDo(r) == r.bg = <<>> /\ ~HasInput(r, How(r)) /\ ~ReaderStranded(r)
IdleHasNothingToDo == \A q \in idle : NothingToDo(tq[q])

(* num_bg_tasks, the number that quotas and the freeing of queues go by, counts
   the queue's tasks "in either here or waiting_tasks". *)
OwnTasks(p) == {i \in DOMAIN waiting : waiting[i].progr = p}
BgAccounting ==
  /\ \A q \in Live(Heap) :
       tq[q].num_bg = Len(tq[q].bg)
                      + (IF tq[q].player = NOTHING THEN 0
                         ELSE Cardinality(OwnTasks(tq[q].player)))
  /\ \A i \in DOMAIN waiting : HasTQueue(Heap, waiting[i].progr)

(* kill_task(), do_resume() and queued_tasks() take the queue's player for the
   programmer of the background tasks on it: merging queues at a login must
   keep every task with its owner. *)
BgTasksWithTheirOwner ==
  \A q \in Live(Heap) : \A i \in DOMAIN tq[q].bg :
    tq[q].bg[i].progr = tq[q].player

(* free_tqueue() frees the vm of a reading task without a word: no queue that
   it may be applied to has one.  A reader that outlives its connection keeps
   its queue active until it is resumed. *)
ReadersSurvive ==
  \A q \in Live(Heap) :
    tq[q].reading # NoTask => tq[q].connected \/ tq[q].usage # NO_USAGE

(* find_tqueue() returns the first queue it meets: two live queues never belong
   to one player, except those that a login has left to be freed. *)
OneQueuePerPlayer ==
  \A q, r \in Live(Heap) :
    tq[q].player = tq[r].player /\ q # r => tq[q].player = NOTHING

(* "The `connected' field is true iff this queue has an associated open network
   connection", and the two agree about the player it is for. *)
ConnectedIffHandle ==
  /\ \A h \in ConnIds : handles[h].open =>
       LET q == handles[h].queue
       IN q \in Live(Heap) /\ tq[q].connected /\ tq[q].player = handles[h].player
  /\ \A q \in Live(Heap) : tq[q].connected =>
       \E h \in ConnIds : /\ handles[h].open /\ handles[h].queue = q
                          /\ \A k \in ConnIds \ {h} :
                               handles[k].open => handles[k].queue # q

(* The network is paused exactly while the queue believes it is, and a paused
   connection has input left whose dequeueing will resume it: no connection
   goes deaf. *)
FlowControl ==
  \A h \in ConnIds : handles[h].open =>
    LET r == tq[handles[h].queue]
    IN /\ handles[h].paused <=> r.suspended
       /\ r.suspended => r.input # <<>>

-----------------------------------------------------------------------------
(* Action properties *)

(* Only MOO code ends a task, by finishing or by killing one: no accept, line,
   disconnection, wake-up, scheduling step or reaping loses a task, and no
   merging of queues at a login loses one but the login task itself. *)
NoTaskLost ==
  [][\A id \in LiveIds \ LiveIds' :
        InMoo /\ (id = cpu.id \/ (cpu' = cpu /\ handles' = handles))]_vars

(* A read() on a connection is over when it gets a line or an error, or when its
   task is killed: closing connections and freeing queues never ends one. *)
ReadEndsByDispatch ==
  [][\A q \in QueueIds :
       tq[q].reading # NoTask /\ tq'[q].reading # tq[q].reading
         => cpu'.id = tq[q].reading \/ (InMoo /\ cpu' = cpu)]_vars

-----------------------------------------------------------------------------
(* Liveness.  MOO code stops (its ticks and seconds are limited), the server
   goes round its loop, and time passes while tasks run, so that a queue that
   runs again and again is charged for it now and then.  Nothing is assumed of
   clients, nor that any waiting task becomes due. *)

ServerStep == \/ EndIO \/ StartPicking
              \/ ResumeReaderWithError \/ RunInput \/ RunBackground
              \/ Deactivate \/ NothingReady \/ \E e \in 0 .. 1 : Bump(e)
              \/ Finish
              \/ Reap

Fairness == WF_vars(ServerStep) /\ SF_vars(Bump(1))

FairSpec == Spec /\ Fairness

(* A reading task whose connection is gone is resumed, and not forgotten with
   its queue (unless another task kills it). *)
StrandedReadersResume ==
  \A q \in QueueIds, id \in TaskIds :
    (tq[q].reading = id /\ ~tq[q].connected) ~> (cpu.id = id)

(* Every active queue gets its turn, however busy the others are.  (Within one
   queue there is no such promise: its own input goes before its background
   tasks, so a player that never stops typing starves them.) *)
QueuesTakeTurns ==
  \A q \in QueueIds :
    (q \in Elems(active))
      ~> (q \notin Elems(active) \/ (DispatchedHere /\ cpu.q = q))

(* player_connected() moves a player to a connection on another listener: it
   marks the new handle while :user_client_disconnected runs, and then clears
   the mark, whoever has set it. *)
Relistening(h) == cpu.at = "notify" /\ cpu.then = "relisten" /\ cpu.h = h

(* boot_player() only leaves a mark, on which the main loop acts later.  The
   connection is closed in the end, unless its player is first moved to it from
   another listener: a boot that the loop has not come to by then, made by the
   login task for one, or that :user_client_disconnected asks for, is lost
   there, and there alone. *)
BootedConnectionsClose ==
  \A h \in ConnIds :
    (handles[h].open /\ handles[h].disconnect_me)
      ~> (~handles[h].open \/ Relistening(h))
=============================================================================
