# NuMOO in TLA+

NuMOO (`src/server`) is a LambdaMOO server: one process that holds a database of
persistent objects in memory, lets users connect over the network, and runs the
*MOO code* (verbs) of those objects for them. This directory models the parts of it
whose behaviour depends on the order of events, checks them with TLC on small
instances, and proves some of their properties with TLAPS for every instance.

Run `tlc -config MCLogin.cfg MCTaskQueues.tla` (and so on for the runs below) to check
a model, `tlapm TaskQueuesProofs.tla` (and the other `...Proofs` modules) to check the proofs.

| Run | Module, configuration | Modules it is about | Section |
|---|---|---|---|
| `login`, `input`, `closing`, `live` | `MCTaskQueues`, `MCLogin` `MCInput` `MCClosing` `MCLive` | TaskQueues | 3 |
| `database` | `MCDatabase`, `MCDatabase` | Objects, Forests, Properties, VerbCache, Waifs, Database, Inheritance | 4, 5 |
| `services` | `MCServices`, `MCServices` | NameLookup, Timers, NetworkIO, Checkpoint | 6, 7 |
| `interpreter` | `MCInterpreter`, `MCInterpreter` | Values, CodeGen, Decompile, Interpreter, Semantics | 8 |
| `orphans`, `waif_crash`, `lost_dump`, `result_lost`, `reload_waif` | `MCOrphans`, `MCWaifCrash`, `MCLostDump`, `MCResult`, `MCWaifTask` | each a place where the code does not do what its comments or documents say | 3, 5, 6, 8 |

## 1. Inventory

The server is a single thread. There are no locks; what interleaves are

* the *network events* of each pass of the main loop (connections, lines, closed
  sockets), in any order and number;
* the *built-in functions* that MOO code calls, in any order and number;
* *call-backs*: built-ins that call verbs halfway (`move()`, `recycle()`, `create()`),
  and verbs of `#0` that the server itself runs in the middle of an operation
  (`user_disconnected`, `do_login_command`, `checkpoint_started`, ...);
* *time*: forked and suspended tasks that become due, time-outs, limits on a task's
  ticks and seconds;
* *crashes*, from which the server restarts with the last dump.

| Component | State | Operations | Interacts with | Hard part | Correct when |
|---|---|---|---|---|---|
| Task scheduler, `tasks.c` | idle and active queues (sorted by usage), per queue: typed-ahead input, ready background tasks, a reading task, flags and counts; waiting tasks | `new_/free_task_queue`, `new_input_task`, `enqueue_forked_task2`, `enqueue_suspended_task`, `make_reading_task`, `resume_task`, `kill_task`, `run_ready_tasks`, `do_login_task`, connection options | server (pause/resume input, login), interpreter (runs tasks), network (lines) | queues merge at a login while a task of theirs runs; every change must leave runnable work on an active queue | no task lost or stuck, every queue gets turns, quotas hold, connections are not left paused |
| Connections and main loop, `server.c` | handles (player, listener, marks), next connection number, checkpoint request | accept, receive, close, `player_connected`, `boot_player`, reaping in the main loop | scheduler, network, `#0` verbs | two handles of one player for a moment; verbs run halfway; deferred closing | exactly the connected queues have a handle; marked connections close |
| Network, `net_multi.c`, `net_*.c` | per connection: output blocks, partial input line, partial character, suspended flag | `push_output`, `pull_input`, `enqueue_output`, `network_process_io` | server | partial writes, flushing of overflowing output, split characters | clients read a subsequence of whole lines; no input byte is lost |
| Object hierarchy, `db_objects.c`, `objects.c` | objects with parent/child/sibling and location/contents/next links, flags, list of users | `create`, `recycle`, `chparent`, `move`, `renumber`, `set_player_flag` | properties, verb cache, interpreter (call-backs) | linked lists in both directions; call-backs between checks and effects; aborts halfway | links agree, no cycles, nothing refers to a recycled object |
| Properties, `db_properties.c`, `property.c` | property definitions per object, an array of values for own and inherited properties | add, delete, rename, `chparent` fix-up, clear values | hierarchy, waifs | positions of inherited values shift in all descendants | every value stays with its property; names are unique along a line of ancestors |
| Verbs and verb cache, `db_verbs.c`, `verbs.c` | verb lists, a hash table of (first ancestor with verbs, name) -> verb, with negative entries | lookups, add/delete/change verbs | hierarchy, interpreter | flushing after every change that matters | a cached lookup equals an uncached one |
| Waifs, `waif.c` | instances with a reference to the property table of their class and a compressed array of values | create, get/put, remap on use, save/load | properties | tables change under living instances | values survive unrelated changes of the class |
| Database file, `db_file.c`, `db_io.c` | dump generation, files on disk | `read_db_file`, `write_db_file`, `dump_database`, `read_/write_task_queue` | everything | crash or failure between the steps of a dump; what is not saved | a complete dump is on disk; saved tasks are restored once |
| Interpreter, `execute.c`, `eval_*.c` | activation stack, value stacks with handlers, built-ins in progress | run, call, suspend, resume, unwind, abort | scheduler, hierarchy | unwinding through handlers and through built-ins | finally parts run once, stacks never overflow |
| Compiler and decompiler, `parser.y`, `code_gen.c`, `decompile.c`, `unparse.c` | none between calls | parse, generate, decompile | interpreter | maximum stack depth, jump fix-ups, finding the line of an instruction | a program decompiles to itself; no activation outgrows the stack computed for it |
| Values, `list.c`, `numbers.c`, `utils.c`, `ref_count.c`, `str_intern.c`, `storage.c`, `streams.c` | reference counts, interned strings while loading | lists, arithmetic, comparison | everything | aliasing, integer edges | - |
| Host name lookup, `name_lookup.c` | an intermediary and a lookup process, pipes, their timers | `lookup_name_from_addr`, `lookup_addr_from_name` | network; blocks the whole server | the processes die or time out at any point, with half an answer written | every request ends; an answer belongs to its request |
| Timers, `timers.c` | a list in order of time, one alarm clock, a virtual timer | `set_timer`, `cancel_timer`, `reenable_timers`, signal handlers | tasks (seconds), checkpoints, network time-outs | signals that are late, held, or already pending when the list changes | the clock is set for the head of the list; no signal finds an empty list |
| Rest: parsing of commands and patterns, Unicode tables, logging, function registry, line client | - | - | - | - | - |

`PROJECT.json` lists every component with its source files and what is modelled of it,
and under `hazards` what is hard to test in the code, at its line, with the properties
that would catch it going wrong.

## 2. Plan

Modelled and checked, in the order of importance:

1. **TaskQueues**: the scheduler composed with the connections and the main loop. They
   share the handles and the queues so closely (each login, close and pause touches
   both) that one module holds both. All of its safety properties are proved, see section 3.
2. **Objects**: hierarchy and locations as linked lists, with `create`, `recycle`, `move`
   and `chparent` as multi-step built-ins that call verbs and may be aborted,
   implementing **Forests**, a forest of parents and one of locations.
3. **Database**, which composes **Properties** (arrays of values, implementing
   **Inheritance**, settings without arrays), **VerbCache** and **Waifs** over one tree.
4. **Checkpoint**: dumps, crashes and restarts.
5. **NameLookup**, **Timers**, **NetworkIO**: the processes, signals and buffers around
   the main loop.
6. **Interpreter**, with **Values**, **CodeGen** and **Decompile**: the whole way of a
   program from the compiler to the virtual machine and back, compared with
   **Semantics**, a reading of the source that knows no bytes and stacks.

Proved, in this order (section 9 has the list): the safety invariants of TaskQueues, then its
two action properties; the safety properties of Checkpoint; those of NameLookup, Timers and NetworkIO;
those of Objects, and that it implements Forests. Next would come, of Properties, that the arrays stay as long as the
definitions above an object (`PropertiesAligned`). `Line` and `Layout` are recursive functions
already, `ValueAt` is a RECURSIVE operator and must become one first. The lemmas of
ObjectsProofs about walking a list and the line of ancestors are what it would rest on.

To be modelled still, if anything: the list of input lines of a task queue, which `tasks.c`
threads by pointers to the ends of two lists and TaskQueues has as one sequence; and the
intrinsic commands (`.program`, `PREFIX`).

## 3. TaskQueues

### State and actions

`tq` maps the address of a queue to its fields, `active` is the sorted list
`active_tqueues`, `idle` the set of the idle ones, `waiting` the list `waiting_tasks`,
`handles` the shandles by the number each connection was accepted with, `nextConn`
is `next_unconnected_player`, `valid` the players that exist. `panic` is set when the
code would dereference a NULL handle. `cpu` is the single thread: what it is doing
(`at`), and what it goes on with when the MOO code it runs stops (`then`).

A pass of the main loop goes through the phases `io` (network events, any number),
`wake` (due tasks become ready), `pick` (the first runnable task of the first
queue that has one), `task` or `login` (that task runs), `bump` (its queue is
charged), `reap` (connections are closed), and back. In `task`, `login`
and `notify` (a verb of `#0` run by the server itself) MOO code runs: any number of the
built-in functions below, and then it stops. Which operations are steps of their own
follows from this: everything the C code does between two calls of MOO code or two
network events is one action.

C helpers are operators from a heap to a heap with the names they have in the
code (`find_tqueue`, `ensure_usage`, `enqueue_input_task`, ...), and actions
compose them in the order of the code:

| Actions | Code |
|---|---|
| `Accept`, `ReceiveLines`, `ClientCloses`, `EndIO` | `server_new_connection`, `server_receive_line`, `server_close`, called by `network_process_io` |
| `Wake`, `StartPicking`, `ResumeReaderWithError`, `RunInput`, `RunBackground`, `Deactivate`, `NothingReady`, `Bump` | `run_ready_tasks` |
| `fork`, `suspend`, `read`, `read_input_now`, `kill_task`, `do_resume`, `force_input`, `flush_input`, `set_hold_input`, `set_disable_oob` | built-ins of `tasks.c` and `execute.c` |
| `boot_player`, `open_network_connection`, `recycle` | built-ins of `server.c` and `objects.c` |
| `Login` | the second half of `do_login_task`, with `player_connected` |
| `Finish` (and the tails of `suspend` and `read`) | a task or a notifier stops |
| `ReapTimedOut`, `ReapRecycled`, `ReapBooted`, `Spare`, `LoopAgain` | `main_loop` |

What is abstracted: lines are one of four kinds (with a length: an `inband` line
alone exceeds the high-water mark); start times of waiting tasks, so that a task may be
inserted wherever its start time could put it and become due at any time; ticks
and seconds, so that MOO code may stop at any point; permissions, since a verb of a
suitable programmer may always be called.

What is left out: the `.program` command and the other intrinsic commands; output
delimiters; connections listed in the dump at a restart (their notifiers are the same
step as `server_started`); tasks that run as `#-1`; the external queues, of which
none is compiled in; listening points; shutdown.

### Runs

`QueueIds` and `TaskIds` are pools: a step that needs a fresh queue or id waits until
one is free. `MaxConns` bounds the connections made, `MaxInput` the lines on
a queue, `MaxUsage` the usage of a queue, `Builtins` the built-ins that MOO code calls
in the run.

| Run | Instance | Shows |
|---|---|---|
| `login` | 2 connections, 1 player, 3 tasks with a quota of 2; fork, suspend, kill, resume | `ListsAgree`, `RunningQueueIsFirst`, `OneQueuePerPlayer`, `NoTaskLost` whatever the order of logins and of tasks becoming ready |
| `input` | 1 connection and the player it logs in as; all kinds of lines, two at a time on each queue; read in both forms, kill, force_input, flush_input, both options | `IdleHasNothingToDo`, `FlowControl`, `ReadEndsByDispatch` |
| `closing` | 2 connections, 2 listeners, tasks that run as a connection as well as a player; fork, read, boot, open, recycle | `TypeOK`, `NoPanic`, `BgAccounting`, `BgTasksWithTheirOwner`, `ReadersSurvive`, `ConnectedIffHandle` |
| `live` | 2 connections, 2 listeners, 2 queues, 1 player; read, boot; `FairSpec` | `StrandedReadersResume`, `QueuesTakeTurns`, `BootedConnectionsClose` (but for one exit, see below) |
| `orphans` | like `login`, but tasks may run as a connection | a violation of `IdleHasNothingToDo`, see below |

Why these bounds: every operation involves at most two queues of two connections and the
queue of one player, so two connections and a player reach every case of
`do_login_task` (own tasks or not, an old queue or not, an existing handle or not, the
same listener or not). Two lines reach both marks of the flow control, from both
sides, with every pair of kinds. `live` has the second connection and the second listener for the sake
of `player_connected`, and only the two built-ins its properties are about. Three tasks with a quota of two reach the limit, on
two queues that a login merges.

Fairness: `WF(ServerStep)`, because the server goes round its loop and MOO code stops
(its ticks and seconds are limited), and `SF(Bump(1))`: a queue that runs again
and again is charged a second now and then, since time passes while its tasks run.
Nothing is assumed of clients or of which waiting tasks become due.

A booted connection is closed in the end, with one exception, which the code makes and `Relistening`
names. When a player logs in who already has a connection on another listener, `player_connected`
closes the old one, sets `disconnect_me` of the new one while it calls
`:user_client_disconnected`, and then clears it (`server.c:1057-1060`). If the new connection had been
booted before, by `:do_login_command` itself or by a verb that ran since the main loop last looked, or is
booted by that verb, then the boot is lost: the connection stays open and
`:user_disconnected` is not called, although `doc/ChangeLog.txt:638` has it called after any task
that called `boot_player()`. `live` goes through this case: without the exception
`BootedConnectionsClose` is violated in its instance. It says that a boot is lost in no other way.

### Finding

`do_login_task` moves the tasks that an un-logged-in connection owns to a queue of their
own, "for accounting", and leaves that queue idle. Tasks on it that were ready stay there:
`run_ready_tasks` never looks at an idle queue, `kill_task` and `find_suspended_task`
do not look at its background tasks, and `write_task_queue` does not save them. Run
`orphans` shows the shortest such behaviour. The other runs of `IdleHasNothingToDo` exclude
tasks that run as a connection.

### Proofs

Four modules prove every safety invariant and both action properties of TaskQueues, for any
numbers of queues, tasks, connections, players and lines. Each extends the one before.

| Module | Theorems | Assumes, beside `ConstantsAssumption` |
|---|---|---|
| `TaskQueuesProofs` | `TypeCorrect`, `ListsAlwaysAgree`, `RunningQueueStaysFirst`, `ReadersAlwaysSurvive` | nothing |
| `OwnershipProofs` | `NeverPanics`, `OneQueueEach`, `TasksAccounted`, `TasksStayWithOwner`, `ConnectionsAgree` | `NoOrphans` |
| `WorkProofs` | `NoConnectionGoesDeaf` | `NoOrphans` |
| `WorkProofs` | `IdleQueuesAreDone` | `NoConnectionTasks`, which implies `NoOrphans` |
| `TaskLossProofs` | `ReadsEndByDispatch` | nothing |
| `TaskLossProofs` | `NoTaskIsLost` | `NoOrphans` |

`NoOrphans` says that no task runs as `#-1`. One may, in the code, and its queue is then taken
for one of those that logins leave to be freed, whose player is `#-1` too: the counts of the two
get mixed up (hazard at `tasks.c:1216`). `NoConnectionTasks` says that no task runs
as a connection; where one does, `IdleHasNothingToDo` fails, which is the finding above. The runs
make the same assumptions: no instance has a task that runs as `#-1`, and the one that lets tasks
run as a connection (`closing`) checks the properties that are proved without `NoConnectionTasks`.

None of the properties is inductive. There are four inductive invariants, each proved from those
before it:

* `IInv` (`AlwaysIInv`): the heap is typed, the active list is sorted, has no queue twice and is
  disjoint from the idle set, a queue has usage exactly if it is active, an open handle's
  queue is an address (`HeapOK`); no live or dead queue holds a reader that nobody will
  resume (`SafeReader`); and the program counter fits the heap (`CpuOK`): while a task that was
  dispatched from a queue runs, that queue is the first active one and has usage, and in a
  notifier the handle that is being closed is open.
* `OwnInv` (`AlwaysOwnInv`): who owns what. The players of live queues differ, but for `#-1`
  (`QueuesOK`); a task on a queue runs as its player, each waiting task has a queue, and
  the count of a queue is the number of both (`TasksOK`); open handles and connected queues
  correspond one to one, and agree on the player (`ConnectionsOK`). They need each other: the
  count decides which queue may be freed, freeing decides whether a waiting task keeps its queue, and a
  login looks for its connection by the queue's player. Beyond the heap, the connection
  numbers not yet given out belong to no handle, and in the login phase the queue is that of a
  connection that has not logged in.
* `WorkInv` (`AlwaysWorkInv`): what is left to do. The length a queue believes its
  input to have is the sum of the lines' lengths (`Sums`), as the code decides by that number
  whether to resume a connection; a queue that was made before its connection (a task may
  force input on any number) is not suspended; an idle queue has nothing that could run.
* `TasksInv` (`AlwaysTasksInv`): a queue in neither list has no reader, so that no reader is
  under an address that `find_tqueue` takes again; and a task's id is at hand only while it runs.

The argument follows the code. For each invariant a relation says what a helper leaves of a
heap: `Preserves` (the heap stays well-formed, the first active queue first, open handles open,
readers safe), `SameOwners` and `KeepsPlayers`, `Touches` and `Alike`, `Keeps` (no task leaves but for
those named). There is one lemma per helper, the relations are transitive, and the proof for an action is a
chain of the lemmas of the helpers it calls. Why a helper may not displace the first queue:
`ensure_usage` gives a queue at least the usage of the first one, and `activate_tqueue` inserts after
equals. Why a login loses no task: `leave_own_tasks` empties the queue before the old queue's
tasks come to it, and between the two the counts are wrong but nothing is freed (`TakesOver`).

Only model-checked: liveness (fairness is out of the prover's reach).

## 4. Objects and Forests

### State and actions

`objects` maps the valid object numbers to records with the two hierarchies exactly
as `db_objects.c` threads them (`parent`, `child`, `sibling`; `location`, `contents`,
`next`), the player flag and the names of the properties the object defines;
`num_objects` and `all_users` are the variables of that name. `LL_REMOVE`, `LL_APPEND`,
`db_change_parent`, `db_change_location` are operators from a table to a table.

A built-in that calls a verb leaves its data and the part it resumes at
(`make_call_pack(pc, data)`) in a slot of `frames`. Between two such calls it is one
step of C code: `Move` runs to the call of `:accept`, or beyond if there is none;
`MoveReturns` goes on from part 2, 3 or 4. While a frame waits, any other built-in may be
called on any object: nested in the verb, or by another task when the verb suspends.
A verb may return anything, may not exist (`E_VERBNF`), or may not fit on the stack
(`E_MAXREC`). When it is aborted, `unwind_stack()` runs the built-in to its end with
zero for a result and without the verbs it calls (`unwinding`); when its task is
killed the built-in just ends (`Kill`). The loop of `recycle()` is one `RecycleTurn` per
object moved out, with `running` holding everything else off: MOO code sees no state
between two turns unless an `:exitfunc` runs there. `fate` becomes `"panic"` where the code
panics and `"hang"` where the reparenting loop of `recycle()` would not end.

`Forests` says what this is for, without links: `kids` and `inside` give each valid
object its children and its contents in order of arrival. Nothing goes below
itself; what is put anywhere comes last there, even if it was there already; only an
empty object that is nowhere can be removed, and its children join those of its parent
in their order; renumbering changes a name. `Objects` implements it by reading
the lists in order (`Listed`), and its other steps, those of the frames, of the flags and
of the definitions, do not show (`ImplementsForests`).

Left out: names, owners, other flags and permissions, whose refusal changes nothing; the
test for a wizard in `move()` after `:accept` is a choice, as an abort even changes whose
permissions it looks at. Verbs, property values and waifs are in Database.

### What the run `database` checks of it

`MCDatabase` extends Objects and instantiates it again with other bounds; `Init` chooses
one of the parts (`part`), the rest of the state stands still. These parts
are about Objects; `LinksAgree`, `NoCycles`, `KeepsRunning` and `ImplementsForests` are checked in each.

| Part | Instance | Shows |
|---|---|---|
| `locations` | 3 objects, 2 waiting built-ins; `create`, `move`, `recycle` | `LinksAgree`, `NoCycles` (the test for a cycle is made after `:accept`, which may have moved anything), `ImplementsForests`, `NumbersStayGone` (a number kept over a verb never comes to mean another object), `EntersWhereItIs` |
| `crowded` | the same with 4 objects and 1 waiting built-in | the same, with lists of three and chains of three |
| `inheritance` | 4 objects, 1 property, 1 waiting built-in; everything but `move`, `reset_max_object` and `set_player_flag` | the same of parents, and `KeepsRunning`: as no line of ancestors defines a name twice, the grandparent can take every child |
| `hierarchies` | 3 objects, 1 waiting built-in; both hierarchies, renumbering and reuse of numbers | the same of both at once |
| `players` | 4 objects, 1 waiting built-in; `create`, `recycle`, `renumber`, `reset_max_object`, `set_player_flag` | `LinksAgree`: the list of players holds the objects with the flag, under the numbers they have |

*Bounds.* `MaxObjid` bounds the numbers ever given out (`MaxNumber` where there are three objects). Three objects are a container, its
content and one more, enough for each built-in to run within a verb of any other at any of
its parts; four give lists with a head, a middle and an end, and chains of three below a
container. A deeper nesting would only hold more frames that keep numbers. `create()`
makes only orphans in `locations`, `crowded` and `players` (`Parents`), as neither `move` nor the list of players
looks at parents, and every number but 0 can get the player flag (`Users`). Deadlock is not
checked: when all numbers are used up and every object is recycled nothing is left to do,
in the model as for a server with an empty database.

### Proofs

`ObjectsProofs` proves `LinksAgree`, `NoCycles`, `KeepsRunning` and `EntersWhereItIs` for any set of
object numbers, slots, properties and built-ins, from one inductive invariant, `DatabaseSound`
(`StaysSound`), which TLC checked first, with all built-ins at once and three objects:

* `Threaded`, for each hierarchy: from the first object of `w` the list reaches every object
  whose back pointer is `w`, each once, and ends; objects that are nowhere have no successor;
* `Acyclic`: each nonempty set of objects has one whose parent is not in the set. Said with
  sets it needs no line of ancestors, and carries over to a changed table when the changed objects
  are looked at;
* `DefinedOnce`: no object defines a property that one above it defines. This is why
  `recycle()` cannot panic: when it gives a child to the grandparent, `db_change_parent` refuses
  only for a name that the child or one below it has and the grandparent or one above it has, and the
  two already were on one line. The same clause keeps the hierarchy fit for `chparent()`;
* numbers below `num_objects`, and `fate = "runs"`.

Of a waiting frame the invariant asks only for a part it can have waited in: **nothing** is assumed
of the numbers it keeps, as any of its objects may have moved, been recycled or become another in the meantime. What
`MoveReturns` and `RecycleTurn` need of them they test again, as the code does, and the proof uses
those tests and no more. So `do_move()`'s second look at the hierarchy, after `:accept`, is enough for `NoCycles`
whatever `:accept` did.

The argument has three layers. `Walk` and `Reached`, the two recursive functions, get lemmas that say what they
compute (`WalkIs`, `WalkEnds`, `ListedIs`, `ReachedIs`, `AncestorsAre`), by an induction over the subsets
of `Nat` (section 7). Over them are the list operations: what `LL_REMOVE` and `LL_APPEND` leave is threaded
again, and the other lists are as they were. Over those are relocation, a new parent, adoption by the grandparent
of one child after another, and renaming, which is an isomorphism for both hierarchies. Each action is a
composition of these.

`NumbersNeverReturn` proves `StaysGone`, on which `NumbersStayGone` rests, for instances without
`renumber` and `reset_max_object`: the numbers kept are all below `num_objects`.

`AlwaysForests` proves the refinement, `Spec => Forest!Spec`, of which `ImplementsForests` is the form for TLC (it looks
at the forests only when the table of objects changes). What is added to `LinksAgree` is the *order*
within a list, and that each operation changes nothing else. `Chained` says that a sequence is what is met along
the links, and `ChainedListed` and `ListedChained` that it then is what `Listed` reads, so that no proof beyond
them looks at the recursion. `RemoveListed` and `AppendListed` do the list operations on
sequences: what `LL_REMOVE` leaves is the sequence without the object, and `LL_APPEND` adds it at the end. From these
follow relocation (`RelocatedLists`), creation and, by the isomorphism again, renumbering (`ListsRenumbered`).
The hard case is `recycle()`, whose loop moves one child after another to the grandparent, always the one
that is then first. Its invariant is that what the grandparent has by then, followed by what the recycled object
still has, is what the two had one after the other (`FirstToLast`, `OrphanedKids`). Each handler
then shows one step of Forests or none (the lemmas `...Shows`). The guards of Forests against cycles come from
the tests `chparent()` and `do_move()` make before they link (`NotInSubtree`). The invariant is `DatabaseSound`, with the objects that exist among `Objids`.

`NumbersStayGone` does not hold under `renumber` and `reset_max_object`, and is stated of the
parts without them: a number is given again, and a suspended `recycle()` of the old object
destroys the new one. Both are for wizards, and serve to build a new database.

## 5. Database: Properties, VerbCache, Waifs

### State and actions

`db` is one record: the tree (`parent`), and per object `propdefs` and `propval`
(db_properties.c), `waif_propdefs` (the pointer to the class's table), `verbdefs`; then the
`verbs` by address, the `cache`, the `tables` by address and the `waifs`. A helper of the
code is an operator from one such record to the next, under its own name where there is one
(`fix_properties_after_chparent`, `insert_prop_recursively`, `update_waif_propdefs`, ...). The
modules extend each other in the order Properties, VerbCache, Waifs, Database; Database has the
actions, one for each built-in, each of which runs to its end before another begins.

* **Properties.** The values carry no names: which definition a value belongs to follows from
  the definitions of the object and its ancestors (`Layout`). `chparent()` cuts the block
  of the old ancestors out of the arrays of all descendants and puts that of the new
  ones in; adding and deleting shift one place in each; `recycle()` and `renumber()` go with the tree.
  **Inheritance** says the same as a set of settings (object, definer, name, value, flags),
  which an object keeps for as long as it has the property.
* **VerbCache.** Entries are kept under a name and the first ancestor that has verbs,
  misses included, and dropped all at once. `db_change_parent()` keeps them where the
  object has neither verbs nor children (`FlushedForParent`), which is the interesting case.
* **Waifs.** Definitions are told apart by the address of the string with their name, as in
  the code; a fresh definition may get the address of a freed one. `def`, which the
  code does not have, marks a definition for the properties. `Restart` is a dump and a start
  from it: tables are made anew, values are saved in the order of the table.

### What the run `database` checks of it

| Part | Instance | Shows |
|---|---|---|
| `verbs` | 3 objects with up to 2 verbs, 2 addresses; one name that is called, verbs of that name with and without the x flag and one of another | `CacheTruthful`: what is cached is what a search would find now, and no entry points to a freed definition |
| `properties` | 3 objects, 2 definitions in 2 names, 2 flags, 1 value; every built-in | `PropertiesAligned`, `ImplementsInheritance` |
| `moves` | 4 objects, 2 definitions; create, chparent, add, set | the same, for trees in which a moved subtree has three levels |
| `waifs` | 2 objects, 2 definitions of 2 names, 1 waif, one mappable property (64 in the code); tree operations, dumps | `WaifValuesTrue` (a waif shows a value under no other definition than the one it was put for), `WaifValuesKept` |

*Bounds.* A position shifts because of one definition before or after it, in the object or
in an ancestor: two definitions on a line of three objects give each case. With one
mappable property of two, both ways in which a waif stores values occur, and values cross from one to
the other. Names and flags are symmetric; `MCView` takes states that differ only in which
numbers stand for strings, marks and tables as one (`Canonical` renames them in the order
in which they are first met; every action treats them alike, a new one being the smallest unused).

*What is excluded, and why.* Two constants of Database switch on cases in which the
properties of waifs fail:

* `Reuse`: an object takes the number of a recycled class of a living waif. See the finding.
* `SharedNames`: two definitions have their name in one string. Reading a database interns
  strings (`db_file.c:60`), so that this does happen after a restart; and then a waif may
  keep, for a new definition of a name, the value it had for the old one: the address says
  they are the same. The comment in `update_waif_propdefs()` takes it for granted that they are not.

`WaifValuesKept` does not speak of a property that is renamed while the waif is not up to
date, which loses its value (`waif_rename_propdef()` calls this an "ugly bug"), nor of
properties whose order among each other changes.

### Finding

`waif_crash`: `update_waif_propdefs()` compares the waif's table with its class's, by address.
A waif used after its class was recycled has none; when another object without a table takes
the number, null equals null, the waif counts as up to date, and `find_propval_offset()`
follows the null pointer.

Left out: owners of properties and the built-in ones, which are fields; the search for commands;
permissions; a waif's own fields, and the search for a waif in its own value.

## 6. Checkpoint

The files (`input_db`, `dump_db`, the temporary ones, the panic dump), the process (`pc`) and
what it knows: its database reduced to a version and to the players it believes connected,
the open connections, the ones a file listed (`checkpointed_connections`), and the requests. One
action for each step after which the process may be killed: the restart script, `db_load`,
the notices of the connections in the file, the loop, `:checkpoint_started`, the opening, writing,
removing and renaming in `dump_database()`, `:checkpoint_finished`, shutdown and panic. The
server is built with `UNFORKED_CHECKPOINTS`, so all of it is one process.

`services` with `part = "checkpoint"`: 2 versions, 2 checkpoints per run of the server, 2
faults (a call that fails, a panic, a crash). `Durable`: while nothing runs there is a whole file, no older
than the last completed dump, under the name that the restart script looks for, and it is
the one that the server starts from; `OnlineIsConnected`: nobody
stays connected in the database without a connection, through crashes and restarts;
`FinishedTellsTruth`; `DumpsGoOn`, under weak fairness of the server's own steps and of the
timer: a failed dump or a request in the middle of one does not end the series. Nobody need restart the
server, and requests need not come. One connection is enough, as none matters to another.

*Proofs* (`CheckpointProofs`). For any number of requests, faults and connections:
`NobodyLeftOnline` (`[]OnlineIsConnected`), and, where no write fails unseen (`~SilentFaults`; the finding
below is what happens where one does), `RestartsAreDurable` (`[]Durable`) and `FinishedIsTrue`
(`FinishedTellsTruth`). The invariant says what each file holds at each step. Whoever a file shows as
online is in its list of connections (`FilesOK`), which is why a restart can set them right; at the
`remove` and `rename` steps the temporary file of this generation has the snapshot whole (`WritingOK`); what
the restart script would choose is whole and no older than promised, but for the moment
between the two steps (`BestOK`); and there is always a number for the next dump
(`GenerationsOK`), so that a dump never writes over another's file. `DumpsGoOn` is liveness and only checked.

`exposed` marks what `Durable` cannot say: `dump_database()` removes the old dump before it
renames the new one, so that a crash or a failing `rename()` in between leaves no dump under its name.
The restart script then takes the previous input.

The restart script itself has two steps where there is a dump: `Restart` moves the input aside and
`MoveDump` gives the dump its name. Killed between them, it refuses to run again, for there is no
input (`Restart` is then disabled for good): the dump is still there, which `Durable`
says, but somebody has to move it. `foo.db.old`, the input moved aside, is not followed, nor is a failure of `mv`.

*Finding* (`lost_dump`): with `SilentFaults`, a write may fail where the code does not look
(`fputc()` in `dbio_write_string()`, `fflush()`, `fsync()`, `fclose()`). The dump is cut
off, takes the place of the old one, and `:checkpoint_finished(1)` is called.

## 7. NameLookup, Timers, NetworkIO

They share nothing but the process, so `MCServices` puts them in one run, one part at a time.

* **NameLookup** (`lookup`): the server, the intermediary and the lookup process with the four
  pipes between them, every `write()` one message. Processes die at any step, the lookup's
  timer goes off at any time, a new one cannot be forked. `AnswersMatch`: late or half-written
  answers never stand for another request; `LookupReturns`: the server, which waits without a
  time-out, gets an answer or gives up. Fairness: each process goes on and its timer goes off; there is
  none for the name server. Three requests and two faults: a fault in each of two
  requests, and one after them; also both helpers in one.
* **Timers** (`timers`): `Armed`, over three timers, a clock of three and two units of processor
  time per second. `set_timer()` and `cancel_timer()` stop and start both clocks, which is
  modelled with what is lost by it: `stop_timers()` truncates to whole seconds, and
  `wakeup_call()` starts the virtual timer again from the value at the last stop (`timers.c:55`).
  A second SIGVTALRM may then find no timer. Not modelled: `timer_sleep()`,
  whose `pause()` may miss the signal, and the race inside `allocate_timer()`, which only leaks.
* **NetworkIO** (`input`, `output`): `pull_input()` over four bytes of every kind, cut in any
  way, in text and binary mode, suspended or not; `enqueue_output()`, `push_output()` and
  `close_nhandle()` with a client that takes any part of the output at any time, four lines in a
  queue of three bytes: empty ones, ones of which two overflow the queue, and ones that are too long
  for it by themselves. What the client takes is how many whole blocks and how much of the next, after
  the notice of an overflow or not all of the notice, so that the length of the notice does not matter. `InputFaithful`: the lines do not depend on how the bytes were
  cut; `OutputAccounted`: every line accepted is printed whole, waits, or was lost and reported,
  in order.

*Proofs* (`ServicesProofs`). `AnswersAreForTheRequest` (`SpecLookup => []AnswersMatch`), for any number
of requests and faults: one request is on its way at a time, and whoever waits for its answer finds
in the pipe he reads a piece of an answer to this request or nothing (`ServerSide`,
`LookupSide`), because a process that times out is killed with its pipes. `ClockIsArmed` (`SpecTimers =>
[]Armed`), for any number of timers and any times: with what `Numbered` says of their numbers. `MaxSeconds`, the
longest time a timer is set for, and `MaxTime` bound the clock for TLC and are arbitrary in the proof.

NetworkIO (`NetworkProofs`), for bytes, lines and a queue of any size: `OutputIsAccounted` (`SpecNetwork =>
[]OutputAccounted`) and `LinesAreAsTyped` (`SpecNetwork => []InputFaithful`). Both are about loops over data,
written as recursive functions: the sum of the blocks' lengths (`Left`), and the turns of
the loop in `pull_input()` (`Turns`). The lemma `Induct` (a set of numbers that has 0, and the number after each
number it has, has every number; proved from the cardinality of finite sets) takes the place of
the library's induction, which needs an operator for its parameter; with it each of the two is
shown to be what its equations say.
`NetworkInv` says of an open connection that its queue is as it should be (`QueueOK`: the length is the sum,
lines are in order, and those printed, waiting, lost and to be reported make up those
accepted), and that a loss not yet reported has something behind it in the queue. What a write leaves of a queue
(`WrittenOK`), what a flush leaves (`FlushedOK`) and what a new line makes of it (`AcceptOK`) is such a queue
again. `InputInv` says that, as long as no read began with a part of a character, what was taken from the bytes
read so far is what the loop takes from all of them at once. A read adds bytes to them, and
`PullTwice` is the reason it stays so: the loop over `a \o b` comes to the state that the loop over
`b` comes to from where the loop over `a` ended, if that was its end, because a turn never looks beyond the
character it is at (`PullAhead`), nor at where in the buffer that is (`PullShifted`).

What they show of the code besides:

* `pull_input()` computes the end of its buffer as `buffer + count` (`net_multi.c:265`), though
  the bytes of a split character kept from before come first: the last bytes of such a read are
  lost. `split` says that this has happened, and `InputFaithful` is about the reads before: it does not
  cover this hazard, and no property does, since nothing says what should become of those bytes.
* the notice of an overflow is written again and again until it goes out whole, and the block at the
  head is flushed like any other when part of it was written;
* `get_utf_call()` in `utf.c` tests `c > 0x3f` on an `int` that is not masked, and so takes
  an ASCII character for the rest of another, which the comment above it excludes. Bytes
  here are the ones of well-formed text and stray ones of it.

## 8. Interpreter, CodeGen, Decompile

### State and actions

* **Values**: numbers of a width (`MAXINT`), strings, lists, and what the operators make of
  them, errors included.
* **CodeGen** translates `code_gen.c`: a program, as a tree, becomes bytes with labels and
  operands of the width the program needs, the stack depth it computes, and for each byte
  the depth there and the line, which the properties use.
* **Decompile** translates `decompile.c`: bytes to a tree, and a pc to a line.
* **Interpreter**: `vm` holds the globals of `execute.c` (activations with their stacks and
  variables, the outcome, ticks), the properties of objects and what the player was told; `tasks` the
  forked and suspended tasks. An action is an opcode or a way in which a task begins or
  goes on. Inside are `unwind_stack()` with its reasons to unwind, the handlers on the
  stacks, calls of verbs and of built-ins that call verbs in turn, `suspend()`, `fork`, running
  out of ticks or seconds, and a restart of the server between two tasks, after which programs
  are those read from the dump (decompiled and compiled again).
* **Semantics** is the reference: what a program tells the player, forks, stores and
  returns, by recursion over its statements, after the description in `doc/ChangeLog.txt`.

### Runs

`interpreter` runs some sixty programs, as a few hundred tasks with different ticks, quotas and
values to resume with: tables of expressions, every kind of statement, the scatterings, and
a try around a finally in two nested loops, in which one of eleven events happens (nothing, an
error, a break, a continue, a return, a call that fails, a suspension, ...) and then the
finally does one of seven things itself. `RunsAsWritten`: the
task does what Semantics says; `WithinStack`: no activation outgrows `max_stack`, and the
stack at each pc is as deep as the compiler took it to be; `RoundTrip`: every program decompiles to itself;
`LinesRight`: a traceback names the line of the statement. Programs are compiled, decompiled
and compiled again once, as constants (`ObjectCodes`, `RereadCodes`, `MisreadPrograms`,
`MisplacedLines`), which only saves time.

*Bounds.* `MAXINT = INT_MAX = 511`, so that overflow happens; 8 variables with
opcodes of their own (32) and operands of 16 values per byte (256), so that both forms of
each occur in short programs. Programs are straight compositions: nesting two deep covers every pair
of handlers and events.

*What is excluded:* verbs that the server calls as handlers (`handle_uncaught_error`,
`handle_task_timeout`) neither suspend nor return through a finally; programs that change
properties do not suspend, as Semantics takes a task for one piece; a finally that suspends is not
combined with an error nobody catches, because the error's traceback does not survive it (the
task then ends as if killed). A program is read back once. The basic operators of Values are shared
with Semantics, except for division, powers, ranges and list functions, which it defines
anew (`ArithmeticMeans`, `RangeMeans`, `RangeSetMeans`, `ListMeans`).

### Findings

* `result_lost`: `return` inside `try ... finally` in the top verb of a task ends with
  `OUTCOME_DONE`, but the result is not stored: only `OP_RETURN` does, `EOP_CONTINUE` does not.
* `reload_waif`: a task suspended in a waif's `:_set_index`, called by an assignment, is saved with a pc
  which `check_pc_validity()` refuses, and with it the whole database.

What was seen of the code besides, and is modelled as it is where the programs reach it:

* `finish_indexed_assignment` in `decompile.c` looks for a byte 106 (`OP_PUSH_TEMP`) and may
  find an operand of that value, so a line may be a wrong one; the instructions up to it are
  left out of `LinesRight`;
* `do_power()` gives -1 to a negative power the wrong sign (`case -1` of `numbers.c`), and
  the smallest number divided by -1 is left to the processor;
* operands wider than a byte, the time of a `fork` that is not a number in a verb
  without the d flag, and a range of what is not a list leave something uncounted, unset
  or unfreed in the error path;
* list functions take places as `int`, and lose the upper half of a longer number.

Left out: floating-point numbers, permissions, built-in properties, tracebacks as text,
the parser, `unparse.c`, `disassemble.c`, and the built-ins that neither call verbs nor
concern the task.

## 9. What is proved and what is checked

Proved for every value of the constants:

| Module | Property | Theorem | Under |
|---|---|---|---|
| TaskQueues | `TypeOK`, `ListsAgree`, `RunningQueueIsFirst`, `ReadersSurvive` | see section 3 | - |
| TaskQueues | `NoPanic`, `OneQueuePerPlayer`, `BgAccounting`, `BgTasksWithTheirOwner`, `ConnectedIffHandle`, `FlowControl` | see section 3 | `NoOrphans` |
| TaskQueues | `IdleHasNothingToDo` | `IdleQueuesAreDone` | `NoConnectionTasks` |
| TaskQueues | `ReadEndsByDispatch`, `NoTaskLost` | `ReadsEndByDispatch`, `NoTaskIsLost` | -, `NoOrphans` |
| Objects | `LinksAgree`, `NoCycles`, `KeepsRunning`, `EntersWhereItIs` | `LinksAlwaysAgree`, `NeverCycles`, `AlwaysRuns`, `EntersWhereItAlwaysIs` | - |
| Objects | `ImplementsForests` | `AlwaysForests` | - |
| Objects | `StaysGone` (of `NumbersStayGone`) | `NumbersNeverReturn` | no `renumber`, `reset_max_object` |
| Checkpoint | `OnlineIsConnected` | `NobodyLeftOnline` | - |
| Checkpoint | `Durable`, `FinishedTellsTruth` | `RestartsAreDurable`, `FinishedIsTrue` | `~SilentFaults` |
| NameLookup | `AnswersMatch` | `AnswersAreForTheRequest` | - |
| Timers | `Armed` | `ClockIsArmed` | - |
| NetworkIO | `OutputAccounted`, `InputFaithful` | `OutputIsAccounted`, `LinesAreAsTyped` | - |

Each also rests on the `ASSUME` of its module, which TLC evaluates in the runs: sets of numbers are sets of
numbers, bounds are natural, and model values that stand for nothing are not among the things.

Checked by TLC only, on the instances above:

* liveness (`StrandedReadersResume`, `QueuesTakeTurns`, `BootedConnectionsClose`, `DumpsGoOn`,
  `LookupReturns`), as fairness is out of the prover's reach;
* everything about Values, CodeGen, Decompile, Interpreter and Semantics, and about Properties and the
  modules over it: they use RECURSIVE operators, which keep the prover from its SMT solver, and what
  they state is what a recursion computes for every program or tree.

## 10. Not modelled

* The parser, the printing of programs, the matching of commands, verbs and patterns,
  substitution, encryption and the like: functions from strings to strings.
* Reference counts and memory, streams, hash tables: they have no states that the
  modules here tell apart. Each list function returns a new list.
* Sockets, `select()`, addresses; listening points; the emergency wizard mode; log files.
* The format of the database file, but for which tasks and waifs can be read again.
* Permissions, quotas on objects, byte counts.
* Unicode tables (`ucd`) and the line client, which are generated or stand alone.
