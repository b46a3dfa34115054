----------------------------- MODULE Checkpoint -----------------------------
(***************************************************************************)
(* The life of the database between memory and disk: the restart script,   *)
(* db_load, the notices of the connections that a file lists, the          *)
(* checkpoints that the main loop makes on request, and the dumps at       *)
(* shutdown and panic.  The server is built with UNFORKED_CHECKPOINTS, so  *)
(* one process does all of it, and the steps below are the points at which *)
(* it can be killed, or interrupted by a signal.                           *)
(*                                                                         *)
(* What is in the database is reduced to a version, a number that every    *)
(* task that changes something draws anew, and to the connections that the *)
(* database believes open: those for which :user_connected was called and  *)
(* :user_disconnected was not.                                             *)
(***************************************************************************)
EXTENDS Naturals, FiniteSets

CONSTANTS
  Conns,         \* the connections there can be
  NoFile,        \* nothing under a name
  MaxVersion,    \* bound: the changes made to the database
  MaxRequests,   \* bound: checkpoints of one run of the server
  MaxFaults,     \* bound: failures of the file system, crashes and panics
  SilentFaults   \* whether a failed write may go unnoticed

ASSUME BoundsAssumption ==
  /\ MaxVersion \in Nat /\ MaxRequests \in Nat /\ MaxFaults \in Nat
  /\ SilentFaults \in BOOLEAN

(* A file holds a database and the connections that were open, or part of it. *)
Files == [db : [version : Nat, online : SUBSET Conns], conns : SUBSET Conns, whole : BOOLEAN]

ASSUME NoFileAssumption == NoFile \notin Files

VARIABLES
  \* The files.
  input_db,    \* foo.db, which the server reads
  dump_db,     \* foo.db.new, where it dumps
  temp,        \* foo.db.new.#n#, the temporary files
  panic_db,    \* foo.db.new.PANIC, which nobody reads again by itself
  \* The server.
  pc,          \* where main() is
  db,          \* the database in memory: version and online
  conns,       \* all_shandles
  gone,        \* the handles whose disconnect_me is set
  saved,       \* checkpointed_connections that are not notified yet
  gen,         \* dump_generation
  reason,      \* the argument of dump_database
  success,     \* what db_flush returned
  requested,   \* checkpoint_requested # CHKPT_OFF
  timer,       \* last_checkpoint_timer is running
  shutdown,    \* shutdown_message # 0
  \* Bookkeeping of the model.
  latest,      \* the last version drawn
  faults,      \* how many faults may still happen
  promised,    \* the version in the last dump that took its name
  exposed      \* a fault has left the newest dump without its name

files == <<input_db, dump_db, temp, panic_db>>
world == <<db, conns, gone, saved, latest>>
signals == <<requested, timer, shutdown>>
dumping == <<gen, reason, success>>
ghosts == <<faults, promised, exposed>>
vars == <<files, pc, world, dumping, signals, ghosts>>

Generations == 0..(MaxRequests + 2 + MaxFaults)

Up == pc # "down"
Starting == pc \in {"down", "move", "load"}
InLoop == pc = "loop" /\ ~shutdown /\ ~requested

(***************************************************************************)
(* Starting.                                                               *)
(***************************************************************************)
NoDb == [version |-> 0, online |-> {}]

Init ==
  /\ input_db = [db |-> NoDb, conns |-> {}, whole |-> TRUE]
  /\ dump_db = NoFile /\ panic_db = "none"
  /\ temp = [n \in Generations |-> NoFile]
  /\ pc = "down" /\ db = NoDb
  /\ conns = {} /\ gone = {} /\ saved = {}
  /\ gen = 0 /\ reason = "DUMP_CHECKPOINT" /\ success = TRUE
  /\ requested = FALSE /\ timer = FALSE /\ shutdown = FALSE
  /\ latest = 0 /\ faults = MaxFaults /\ promised = 0 /\ exposed = FALSE

(* The restart script finds a database under the input's name, or gives    *)
(* up.  If there is a dump it moves the input aside, to a name that is not *)
(* followed, and then the dump to the input's name; and it starts the      *)
(* server.  Nothing of the previous process is left but the files, and of  *)
(* these the temporary ones are never read again.                          *)
Restart ==
  /\ pc = "down" /\ input_db # NoFile
  /\ IF dump_db # NoFile
       THEN input_db' = NoFile /\ pc' = "move"
       ELSE pc' = "load" /\ UNCHANGED input_db
  /\ db' = NoDb /\ conns' = {} /\ gone' = {} /\ saved' = {}
  /\ gen' = 0 /\ reason' = "DUMP_CHECKPOINT" /\ success' = TRUE
  /\ requested' = FALSE /\ timer' = FALSE /\ shutdown' = FALSE
  /\ temp' = [n \in Generations |-> NoFile]
  /\ UNCHANGED <<dump_db, panic_db, latest, ghosts>>

MoveDump ==
  /\ pc = "move"
  /\ input_db' = dump_db /\ dump_db' = NoFile /\ pc' = "load"
  /\ UNCHANGED <<temp, panic_db, world, dumping, signals, ghosts>>

(* A file that ends too early cannot be read, and the server exits. *)
db_load ==
  /\ pc = "load"
  /\ IF input_db.whole
       THEN db' = input_db.db /\ saved' = input_db.conns /\ pc' = "notify"
       ELSE pc' = "down" /\ UNCHANGED <<db, saved>>
  /\ UNCHANGED <<files, conns, gone, latest, dumping, signals, ghosts>>

(* main_loop first tells the database of the connections that the file     *)
(* lists, one task for each.                                               *)
NotifyDisconnected(c) ==
  /\ pc = "notify" /\ c \in saved
  /\ saved' = saved \ {c}
  /\ db' = [db EXCEPT !.online = @ \ {c}]
  /\ UNCHANGED <<files, pc, conns, gone, latest, dumping, signals, ghosts>>

ServerStarted ==
  /\ pc = "notify" /\ saved = {}
  /\ pc' = "loop" /\ timer' = TRUE
  /\ UNCHANGED <<files, world, dumping, requested, shutdown, ghosts>>

(***************************************************************************)
(* Turns of the loop that make no checkpoint.                              *)
(***************************************************************************)
RunTask ==
  /\ InLoop /\ latest < MaxVersion
  /\ latest' = latest + 1
  /\ db' = [db EXCEPT !.version = latest + 1]
  /\ UNCHANGED <<files, pc, conns, gone, saved, dumping, signals, ghosts>>

(* What network_process_io may find: nothing, a new connection, or one     *)
(* that its client has closed, for which server_close calls                *)
(* :user_client_disconnected before it frees the handle.                   *)
network_process_io ==
  {[conns |-> conns, gone |-> gone, online |-> db.online]}
  \cup {[conns |-> conns \cup {c}, gone |-> gone, online |-> db.online] : c \in Conns \ conns}
  \cup {[conns |-> conns \ {c}, gone |-> gone \ {c}, online |-> db.online \ {c}] : c \in conns}

ProcessIO ==
  /\ InLoop
  /\ \E r \in network_process_io :
        conns' = r.conns /\ gone' = r.gone /\ db' = [db EXCEPT !.online = r.online]
  /\ UNCHANGED <<files, pc, saved, latest, dumping, signals, ghosts>>

boot_player(c) ==
  /\ InLoop /\ c \in conns \ gone
  /\ gone' = gone \cup {c}
  /\ UNCHANGED <<files, pc, db, conns, saved, latest, dumping, signals, ghosts>>

(* :do_login_command returns a player, and :user_connected is called. *)
player_connected(c) ==
  /\ InLoop /\ c \in conns \ (gone \cup db.online)
  /\ db' = [db EXCEPT !.online = @ \cup {c}]
  /\ UNCHANGED <<files, pc, conns, gone, saved, latest, dumping, signals, ghosts>>

Disconnect(c) ==
  /\ InLoop /\ c \in gone
  /\ db' = [db EXCEPT !.online = @ \ {c}]
  /\ conns' = conns \ {c} /\ gone' = gone \ {c}
  /\ UNCHANGED <<files, pc, saved, latest, dumping, signals, ghosts>>

(* checkpoint_signal, bf_dump_database and checkpoint_timer; the last is   *)
(* the timer's own.                                                        *)
checkpoint_signal ==
  /\ ~Starting /\ ~requested /\ gen < MaxRequests
  /\ requested' = TRUE
  /\ UNCHANGED <<files, pc, world, dumping, timer, shutdown, ghosts>>

checkpoint_timer ==
  /\ Up /\ timer /\ gen < MaxRequests
  /\ timer' = FALSE /\ requested' = TRUE
  /\ UNCHANGED <<files, pc, world, dumping, shutdown, ghosts>>

shutdown_signal ==
  /\ ~Starting /\ ~shutdown
  /\ shutdown' = TRUE
  /\ UNCHANGED <<files, pc, world, dumping, requested, timer, ghosts>>

(* :checkpoint_started runs, which may change the database, and            *)
(* network_process_io(0), before the dump.                                 *)
StartCheckpoint ==
  /\ pc = "loop" /\ ~shutdown /\ requested
  /\ requested' = FALSE
  /\ \E v \in {db.version, latest + 1}, r \in network_process_io :
        /\ v <= MaxVersion
        /\ db' = [version |-> v, online |-> r.online]
        /\ conns' = r.conns /\ gone' = r.gone
        /\ latest' = IF v > latest THEN v ELSE latest
  /\ pc' = "dump" /\ reason' = "DUMP_CHECKPOINT"
  /\ UNCHANGED <<files, saved, gen, success, timer, shutdown, ghosts>>

(* Mutant: a checkpoint that failed does not set the timer. *)
MutantCheckpointFinished ==
  /\ pc = "finished"
  /\ timer' = success /\ pc' = "loop"
  /\ UNCHANGED <<files, world, dumping, requested, shutdown, ghosts>>

(* call_checkpoint_notifier(success) and set_checkpoint_timer(0). *)
CheckpointFinished ==
  /\ pc = "finished"
  /\ timer' = TRUE /\ pc' = "loop"
  /\ UNCHANGED <<files, world, dumping, requested, shutdown, ghosts>>

(* The loop ends, the network is closed and db_shutdown dumps; the handles *)
(* stay listed.                                                            *)
Shutdown ==
  /\ pc = "loop" /\ shutdown
  /\ pc' = "dump" /\ reason' = "DUMP_SHUTDOWN"
  /\ UNCHANGED <<files, world, gen, success, signals, ghosts>>

(***************************************************************************)
(* dump_database                                                           *)
(***************************************************************************)
Spend == faults > 0 /\ faults' = faults - 1

(* Mutant: handles that are to be closed are not listed. *)
MutantSnapshot(w) == [db |-> db, conns |-> conns \ gone, whole |-> w]

(* What write_db_file writes: the database and write_active_connections.   *)
Snapshot(w) == [db |-> db, conns |-> conns, whole |-> w]

(* dump_generation after the names are made: a panic has its own name. *)
NextGen == IF reason = "DUMP_PANIC" THEN gen ELSE gen + 1

(* The previous temporary file is removed and a new one opened. *)
OpenTemp ==
  /\ pc = "dump"
  /\ gen' = NextGen
  /\ \/ /\ temp' = IF reason = "DUMP_PANIC"
                     THEN [temp EXCEPT ![gen] = NoFile]
                     ELSE [temp EXCEPT ![gen] = NoFile, ![gen + 1] = Snapshot(FALSE)]
        /\ panic_db' = IF reason = "DUMP_PANIC" THEN "partial" ELSE panic_db
        /\ pc' = "write"
        /\ UNCHANGED <<success, ghosts>>
     \/ \* fopen fails
        /\ Spend
        /\ temp' = [temp EXCEPT ![gen] = NoFile]
        /\ success' = FALSE
        /\ pc' = IF reason = "DUMP_CHECKPOINT" THEN "finished" ELSE "down"
        /\ UNCHANGED <<panic_db, promised, exposed>>
  /\ UNCHANGED <<input_db, dump_db, world, reason, signals>>

(* write_db_file succeeds and the file is flushed; a write that fails may  *)
(* go unnoticed, because dbio_write_string does not look at what fputc     *)
(* returns, nor dump_database at what fflush, fsync and fclose return.     *)
WriteDb(whole) ==
  /\ pc = "write"
  /\ IF whole THEN UNCHANGED faults ELSE SilentFaults /\ Spend
  /\ IF reason = "DUMP_PANIC"
       THEN panic_db' = (IF whole THEN "whole" ELSE "partial") /\ pc' = "down" /\ UNCHANGED temp
       ELSE /\ temp' = [temp EXCEPT ![gen] = Snapshot(whole)]
            /\ pc' = "remove" /\ UNCHANGED panic_db
  /\ success' = TRUE
  /\ UNCHANGED <<input_db, dump_db, world, gen, reason, signals, promised, exposed>>

(* Mutant: a dump that failed takes the place of the old one. *)
MutantWriteFails ==
  /\ pc = "write" /\ Spend
  /\ success' = FALSE /\ pc' = "remove"
  /\ UNCHANGED <<files, world, gen, reason, signals, promised, exposed>>

(* dbpriv_dbio_failed: the temporary file is removed; a checkpoint is      *)
(* abandoned, any other dump is tried again a minute later.                *)
WriteFails ==
  /\ pc = "write" /\ Spend
  /\ IF reason = "DUMP_PANIC"
       THEN panic_db' = "none" /\ UNCHANGED temp
       ELSE temp' = [temp EXCEPT ![gen] = NoFile] /\ UNCHANGED panic_db
  /\ IF reason = "DUMP_CHECKPOINT"
       THEN success' = FALSE /\ pc' = "finished"
       ELSE pc' = "dump" /\ UNCHANGED success
  /\ UNCHANGED <<input_db, dump_db, world, gen, reason, signals, promised, exposed>>

RemoveDumpDb ==
  /\ pc = "remove"
  /\ dump_db' = NoFile /\ pc' = "rename"
  /\ UNCHANGED <<input_db, temp, panic_db, world, dumping, signals, ghosts>>

AfterDump == IF reason = "DUMP_CHECKPOINT" THEN "finished" ELSE "down"

(* Mutant: that rename() failed is not reported. *)
MutantRenameTemp ==
  /\ pc = "rename" /\ pc' = (IF reason = "DUMP_CHECKPOINT" THEN "finished" ELSE "down")
  /\ \/ /\ dump_db' = temp[gen]
        /\ temp' = [temp EXCEPT ![gen] = NoFile]
        /\ promised' = db.version /\ exposed' = FALSE
        /\ UNCHANGED faults
     \/ /\ Spend /\ exposed' = TRUE
        /\ UNCHANGED <<dump_db, temp, promised>>
  /\ UNCHANGED <<input_db, panic_db, world, gen, reason, success, signals>>

RenameTemp ==
  /\ pc = "rename"
  /\ pc' = AfterDump
  /\ \/ /\ dump_db' = temp[gen]
        /\ temp' = [temp EXCEPT ![gen] = NoFile]
        /\ promised' = db.version /\ exposed' = FALSE
        /\ UNCHANGED <<success, faults>>
     \/ /\ Spend
        /\ success' = FALSE /\ exposed' = TRUE
        /\ UNCHANGED <<dump_db, temp, promised>>
  /\ UNCHANGED <<input_db, panic_db, world, gen, reason, signals>>

(***************************************************************************)
(* What interrupts it: a panic (a signal, or a failed assertion of the     *)
(* server), and a crash of the process or of the machine.                  *)
(***************************************************************************)
Interrupted == exposed' = (exposed \/ pc = "rename")

panic ==
  /\ ~Starting /\ Spend /\ Interrupted
  /\ pc' = IF reason = "DUMP_PANIC" THEN "down" ELSE "dump"
  /\ reason' = "DUMP_PANIC"
  /\ UNCHANGED <<files, world, gen, success, signals, promised>>

Crash ==
  /\ Up /\ Spend /\ Interrupted
  /\ pc' = "down"
  /\ UNCHANGED <<files, world, dumping, signals, promised>>

Server ==
  \/ db_load \/ ServerStarted \/ \E c \in Conns : NotifyDisconnected(c)
  \/ StartCheckpoint \/ CheckpointFinished \/ Shutdown
  \/ OpenTemp \/ \E w \in BOOLEAN : WriteDb(w)
  \/ WriteFails \/ RemoveDumpDb \/ RenameTemp

Next ==
  \/ Restart \/ MoveDump \/ Server
  \/ RunTask
  \/ ProcessIO
  \/ \E c \in Conns : player_connected(c) \/ boot_player(c) \/ Disconnect(c)
  \/ checkpoint_signal \/ checkpoint_timer \/ shutdown_signal
  \/ panic \/ Crash

(* The process that runs goes on; nobody has to restart it.               *)
Fairness == WF_vars(Server) /\ WF_vars(checkpoint_timer)

Spec == Init /\ [][Next]_vars /\ Fairness

(***************************************************************************)
(* Properties.                                                             *)
(***************************************************************************)

(* What the restart script makes the input, or was about to.               *)
Best == IF dump_db # NoFile THEN dump_db ELSE input_db

(* Whatever fails, and wherever the server or the restart script is        *)
(* killed, there is a file that is whole and no older than the last dump   *)
(* that completed, and a server that starts reads such a file; but not     *)
(* when it dies, or rename() fails, after the old dump was removed and     *)
(* before the new one has its name (exposed).                              *)
Durable ==
  Starting /\ ~exposed =>
    LET file == IF pc = "load" THEN input_db ELSE Best
    IN file.whole /\ file.db.version >= promised

(* Who is connected in the database's opinion is connected, or is on the   *)
(* list that a restart still has to go through: through dumps, crashes and *)
(* restarts no user stays connected without a connection.                  *)
OnlineIsConnected ==
  ~Starting => db.online \subseteq conns \cup saved

(* :checkpoint_finished(1) is called only when what is now in the database *)
(* is in a complete file under the dump's name.                            *)
FinishedTellsTruth ==
  [][ pc = "finished" /\ pc' = "loop" /\ success
      => dump_db # NoFile /\ dump_db.whole /\ dump_db.db = db ]_vars

(* A server that runs makes another checkpoint, or stops: a failed dump,   *)
(* or a request in the middle of one, does not end the series.             *)
DumpsGoOn ==
  pc = "loop" /\ gen < MaxRequests ~> pc \in {"finished", "down"}
=============================================================================
