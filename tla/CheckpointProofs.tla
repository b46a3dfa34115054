-------------------------- MODULE CheckpointProofs --------------------------
(***************************************************************************)
(* Proofs about Checkpoint, for any numbers of connections, changes,       *)
(* checkpoints and faults.  The inductive invariant IInv says what each    *)
(* file may hold: every one on disk lists all who are online in it         *)
(* (FilesOK), the one being written is the database in memory (WritingOK), *)
(* and the one that the next start reads is whole and holds the last dump  *)
(* that was completed, unless the server is between the removal of the old *)
(* dump and the renaming of the new (BestOK).                              *)
(***************************************************************************)
EXTENDS Checkpoint, TLAPS

Phases == {"down", "move", "load", "notify", "loop", "dump", "write", "remove", "rename", "finished"}
Reasons == {"DUMP_CHECKPOINT", "DUMP_SHUTDOWN", "DUMP_PANIC"}
Databases == [version : Nat, online : SUBSET Conns]

TypeInv ==
  /\ input_db \in Files \cup {NoFile} /\ dump_db \in Files \cup {NoFile}
  /\ temp \in [Generations -> Files \cup {NoFile}]
  /\ pc \in Phases /\ db \in Databases
  /\ conns \subseteq Conns /\ gone \subseteq conns /\ saved \subseteq Conns
  /\ gen \in Nat /\ reason \in Reasons /\ success \in BOOLEAN
  /\ requested \in BOOLEAN /\ timer \in BOOLEAN /\ shutdown \in BOOLEAN
  /\ latest \in Nat /\ faults \in 0 .. MaxFaults
  /\ promised \in Nat /\ exposed \in BOOLEAN

(* Every dump on disk lists the connections that its database believes open. *)
Lists(f) == f.db.online \subseteq f.conns
FilesOK ==
  /\ input_db # NoFile => Lists(input_db)
  /\ dump_db # NoFile => Lists(dump_db)
  /\ ~Starting => db.online \subseteq conns \cup saved
  /\ ~Starting /\ pc # "notify" /\ reason # "DUMP_PANIC" => saved = {}

(* There is a generation for each dump that can still be begun. *)
Begun == IF pc = "dump" THEN gen + 1 ELSE gen
GenerationsOK ==
  /\ reason = "DUMP_CHECKPOINT" =>
       Begun <= MaxRequests + 1 /\ (requested => Begun <= MaxRequests)
  /\ reason = "DUMP_SHUTDOWN" => Begun <= MaxRequests + 2 + (MaxFaults - faults)
  /\ reason = "DUMP_PANIC" => gen <= MaxRequests + 2 + MaxFaults

(* What is about to take the dump's name, or has just done so. *)
WritingOK ==
  /\ pc \in {"move", "load", "notify", "loop", "finished"} => reason = "DUMP_CHECKPOINT"
  /\ pc \in {"remove", "rename"} =>
       /\ reason # "DUMP_PANIC" /\ success
       /\ \E w \in BOOLEAN : temp[gen] = Snapshot(w) /\ (SilentFaults \/ w)
  /\ pc = "finished" /\ success =>
       /\ dump_db # NoFile /\ dump_db.db = db
       /\ ~SilentFaults => dump_db.whole

(* What a start reads: the dump, until the restart script has moved it, and
   then the input. *)
BestOK ==
  /\ input_db = NoFile => dump_db # NoFile /\ pc \in {"down", "move"}
  /\ pc \in {"load", "notify"} => dump_db = NoFile
  /\ pc = "move" => dump_db # NoFile
  /\ ~SilentFaults /\ ~exposed /\ pc # "rename" =>
       Best.whole /\ Best.db.version >= promised

IInv == TypeInv /\ FilesOK /\ GenerationsOK /\ WritingOK /\ BestOK

-----------------------------------------------------------------------------
(* The invariant is inductive *)

(* The first start reads a whole file in which nobody is online. *)
LEMMA Initially == Init => IInv
<1> SUFFICES ASSUME Init PROVE IInv
  OBVIOUS
<1> USE BoundsAssumption, NoFileAssumption DEF Init
<1>1. TypeInv
  <2>1. NoDb \in Databases /\ input_db \in Files
    BY DEF NoDb, Databases, Files
  <2>2. temp \in [Generations -> Files \cup {NoFile}]
    OBVIOUS
  <2>3. db \in Databases /\ faults \in 0 .. MaxFaults
    BY <2>1
  <2>4. /\ dump_db \in Files \cup {NoFile} /\ pc \in Phases /\ gen \in Nat /\ reason \in Reasons
        /\ latest \in Nat /\ promised \in Nat
    BY DEF Phases, Reasons
  <2> QED BY <2>1, <2>2, <2>3, <2>4 DEF TypeInv
<1>2. FilesOK
  BY DEF FilesOK, Starting, Lists, NoDb
<1>3. GenerationsOK
  BY DEF GenerationsOK, Begun
<1>4. WritingOK
  BY DEF WritingOK
<1>5. BestOK
  <2>1. input_db \in Files
    BY DEF NoDb, Files
  <2>2. input_db # NoFile /\ Best = input_db /\ promised = 0
    BY <2>1 DEF Best
  <2>3. input_db.whole /\ input_db.db.version = 0
    BY DEF NoDb
  <2> QED BY <2>2, <2>3 DEF BestOK
<1> QED BY <1>1, <1>2, <1>3, <1>4, <1>5 DEF IInv

(* Every step keeps it: one action at a time, and for each the conjuncts in
   order. *)
LEMMA Step == IInv /\ [Next]_vars => IInv'
<1> SUFFICES ASSUME IInv, [Next]_vars PROVE IInv'
  OBVIOUS
<1> USE BoundsAssumption, NoFileAssumption
<1>1. ASSUME Restart PROVE IInv'
  <2>1. TypeInv'
    BY <1>1 DEF IInv, TypeInv, Databases, Phases, Reasons, Restart, ghosts, NoDb
  <2>2. FilesOK'
    BY <1>1 DEF IInv, FilesOK, Starting, Restart
  <2>3. GenerationsOK'
    BY <1>1 DEF GenerationsOK, Begun, Restart
  <2>4. WritingOK'
    BY <1>1 DEF WritingOK, Restart
  <2>5. BestOK'
    BY <1>1 DEF IInv, BestOK, Best, Restart, ghosts
  <2> QED BY <2>1, <2>2, <2>3, <2>4, <2>5 DEF IInv
<1>2. ASSUME db_load PROVE IInv'
  <2>0. input_db \in Files /\ input_db # NoFile
    BY <1>2 DEF IInv, TypeInv, BestOK, db_load
  <2>1. TypeInv'
    BY <1>2, <2>0 DEF IInv, TypeInv, Files, Databases, Phases, db_load, files, signals, dumping,
       ghosts
  <2>2. FilesOK'
    BY <1>2, <2>0 DEF IInv, FilesOK, Starting, Lists, db_load, files
  <2>3. GenerationsOK'
    BY <1>2 DEF IInv, GenerationsOK, Begun, db_load, signals, dumping, ghosts
  <2>4. WritingOK'
    BY <1>2 DEF IInv, WritingOK, db_load, dumping
  <2>5. BestOK'
    BY <1>2 DEF IInv, BestOK, Best, db_load, files, ghosts
  <2> QED BY <2>1, <2>2, <2>3, <2>4, <2>5 DEF IInv
<1>3. ASSUME NEW c \in Conns, NotifyDisconnected(c) PROVE IInv'
  <2>1. TypeInv'
    BY <1>3 DEF IInv, TypeInv, Databases, NotifyDisconnected, files, signals, dumping,
       ghosts
  <2>2. FilesOK'
    BY <1>3 DEF IInv, FilesOK, Starting, NotifyDisconnected, files
  <2>3. GenerationsOK'
    BY <1>3 DEF IInv, GenerationsOK, Begun, NotifyDisconnected, signals, dumping, ghosts
  <2>4. WritingOK'
    BY <1>3 DEF IInv, WritingOK, NotifyDisconnected, dumping
  <2>5. BestOK'
    BY <1>3 DEF IInv, BestOK, Best, NotifyDisconnected, files, ghosts
  <2> QED BY <2>1, <2>2, <2>3, <2>4, <2>5 DEF IInv
<1>4. ASSUME ServerStarted PROVE IInv'
  <2>1. TypeInv'
    BY <1>4 DEF IInv, TypeInv, Phases, ServerStarted, files, world, dumping, ghosts
  <2>2. FilesOK'
    BY <1>4 DEF IInv, FilesOK, Starting, ServerStarted, files, world
  <2>3. GenerationsOK'
    BY <1>4 DEF IInv, GenerationsOK, Begun, ServerStarted, dumping, ghosts
  <2>4. WritingOK'
    BY <1>4 DEF IInv, WritingOK, ServerStarted, dumping
  <2>5. BestOK'
    BY <1>4 DEF IInv, BestOK, Best, ServerStarted, files, ghosts
  <2> QED BY <2>1, <2>2, <2>3, <2>4, <2>5 DEF IInv
<1>5. ASSUME RunTask PROVE IInv'
  <2>1. TypeInv'
    <3>1. latest + 1 \in Nat /\ db' \in Databases
      BY <1>5 DEF IInv, TypeInv, Databases, RunTask
    <3> QED
      BY <1>5, <3>1 DEF IInv, TypeInv, RunTask, files, dumping, signals, ghosts
  <2>2. FilesOK'
    BY <1>5 DEF IInv, FilesOK, Starting, RunTask, files, dumping
  <2>3. GenerationsOK'
    BY <1>5 DEF IInv, GenerationsOK, Begun, RunTask, signals, dumping, ghosts
  <2>4. WritingOK'
    BY <1>5 DEF IInv, WritingOK, RunTask, dumping, InLoop
  <2>5. BestOK'
    BY <1>5 DEF IInv, BestOK, Best, RunTask, files, ghosts
  <2> QED BY <2>1, <2>2, <2>3, <2>4, <2>5 DEF IInv
<1>6. ASSUME ProcessIO PROVE IInv'
  <2>1. TypeInv'
    BY SMTT(30), <1>6 DEF IInv, TypeInv, Files, Databases, Phases, Reasons, Generations, ProcessIO,
       vars, files, world, signals, dumping, ghosts, network_process_io, InLoop
  <2>2. FilesOK'
    BY <1>6 DEF IInv, FilesOK, Starting, ProcessIO, files, dumping, network_process_io
  <2>3. GenerationsOK'
    BY <1>6 DEF IInv, GenerationsOK, Begun, ProcessIO, signals, dumping, ghosts
  <2>4. WritingOK'
    BY <1>6 DEF IInv, WritingOK, ProcessIO, dumping, InLoop
  <2>5. BestOK'
    BY <1>6 DEF IInv, BestOK, Best, ProcessIO, files, ghosts
  <2> QED BY <2>1, <2>2, <2>3, <2>4, <2>5 DEF IInv
<1>7. ASSUME NEW c \in Conns, player_connected(c) PROVE IInv'
  <2>1. TypeInv'
    BY <1>7 DEF IInv, TypeInv, Databases, player_connected, files, signals, dumping, ghosts
  <2>2. FilesOK'
    BY <1>7 DEF IInv, FilesOK, Starting, player_connected, files, dumping
  <2>3. GenerationsOK'
    BY <1>7 DEF IInv, GenerationsOK, Begun, player_connected, signals, dumping, ghosts
  <2>4. WritingOK'
    BY <1>7 DEF IInv, WritingOK, player_connected, dumping, InLoop
  <2>5. BestOK'
    BY <1>7 DEF IInv, BestOK, Best, player_connected, files, ghosts
  <2> QED BY <2>1, <2>2, <2>3, <2>4, <2>5 DEF IInv
<1>8. ASSUME NEW c \in Conns, boot_player(c) PROVE IInv'
  <2>1. TypeInv'
    BY <1>8 DEF IInv, TypeInv, boot_player, files, signals, dumping, ghosts
  <2>2. FilesOK'
    BY <1>8 DEF IInv, FilesOK, Starting, boot_player, files, dumping
  <2>3. GenerationsOK'
    BY <1>8 DEF IInv, GenerationsOK, Begun, boot_player, signals, dumping, ghosts
  <2>4. WritingOK'
    BY <1>8 DEF IInv, WritingOK, boot_player, dumping, InLoop
  <2>5. BestOK'
    BY <1>8 DEF IInv, BestOK, Best, boot_player, files, ghosts
  <2> QED BY <2>1, <2>2, <2>3, <2>4, <2>5 DEF IInv
<1>9. ASSUME NEW c \in Conns, Disconnect(c) PROVE IInv'
  <2>1. TypeInv'
    BY <1>9 DEF IInv, TypeInv, Databases, Disconnect, files, signals, dumping, ghosts,
       InLoop
  <2>2. FilesOK'
    BY <1>9 DEF IInv, FilesOK, Starting, Disconnect, files, dumping
  <2>3. GenerationsOK'
    BY <1>9 DEF IInv, GenerationsOK, Begun, Disconnect, signals, dumping, ghosts
  <2>4. WritingOK'
    BY <1>9 DEF IInv, WritingOK, Disconnect, dumping, InLoop
  <2>5. BestOK'
    BY <1>9 DEF IInv, BestOK, Best, Disconnect, files, ghosts
  <2> QED BY <2>1, <2>2, <2>3, <2>4, <2>5 DEF IInv
<1>10. ASSUME checkpoint_signal PROVE IInv'
  <2>1. TypeInv'
    BY <1>10 DEF IInv, TypeInv, checkpoint_signal, files, world, dumping, ghosts
  <2>2. FilesOK'
    BY <1>10 DEF IInv, FilesOK, Starting, checkpoint_signal, files, world, dumping
  <2>3. GenerationsOK'
    BY <1>10 DEF IInv, TypeInv, GenerationsOK, Begun, checkpoint_signal, dumping, ghosts
  <2>4. WritingOK'
    BY <1>10 DEF IInv, WritingOK, Snapshot, checkpoint_signal, files, world, dumping
  <2>5. BestOK'
    BY <1>10 DEF IInv, BestOK, Best, checkpoint_signal, files, ghosts
  <2> QED BY <2>1, <2>2, <2>3, <2>4, <2>5 DEF IInv
<1>11. ASSUME checkpoint_timer PROVE IInv'
  <2>1. TypeInv'
    BY ZenonT(40), <1>11 DEF IInv, TypeInv, Files, Databases, Phases, Reasons, Generations,
       checkpoint_timer, vars, files, world, signals, dumping, ghosts, InLoop, Up
  <2>2. FilesOK'
    BY <1>11 DEF IInv, FilesOK, Starting, checkpoint_timer, files, world, dumping
  <2>3. GenerationsOK'
    BY <1>11 DEF IInv, TypeInv, GenerationsOK, Begun, checkpoint_timer, dumping, ghosts
  <2>4. WritingOK'
    BY <1>11 DEF IInv, WritingOK, Snapshot, checkpoint_timer, files, world, dumping
  <2>5. BestOK'
    BY <1>11 DEF IInv, BestOK, Best, checkpoint_timer, files, ghosts
  <2> QED BY <2>1, <2>2, <2>3, <2>4, <2>5 DEF IInv
<1>12. ASSUME shutdown_signal PROVE IInv'
  <2>1. TypeInv'
    BY <1>12 DEF IInv, TypeInv, shutdown_signal, files, world, dumping, ghosts
  <2>2. FilesOK'
    BY <1>12 DEF IInv, FilesOK, Starting, shutdown_signal, files, world, dumping
  <2>3. GenerationsOK'
    BY <1>12 DEF IInv, GenerationsOK, Begun, shutdown_signal, dumping, ghosts
  <2>4. WritingOK'
    BY <1>12 DEF IInv, WritingOK, Snapshot, shutdown_signal, files, world, dumping
  <2>5. BestOK'
    BY <1>12 DEF IInv, BestOK, Best, shutdown_signal, files, ghosts
  <2> QED BY <2>1, <2>2, <2>3, <2>4, <2>5 DEF IInv
<1>13. ASSUME StartCheckpoint PROVE IInv'
  <2> PICK v \in {db.version, latest + 1}, r \in network_process_io :
        /\ db' = [version |-> v, online |-> r.online]
        /\ conns' = r.conns /\ gone' = r.gone
        /\ latest' = IF v > latest THEN v ELSE latest
    BY <1>13 DEF StartCheckpoint
  <2>0. /\ v \in Nat /\ r.conns \subseteq Conns /\ r.gone \subseteq r.conns
        /\ r.online \subseteq db.online
        /\ r.conns = conns \/ (\E c \in Conns : r.conns = conns \cup {c})
           \/ (\E c \in conns : r.conns = conns \ {c} /\ c \notin r.online)
    BY DEF network_process_io, IInv, TypeInv, Databases
  <2>1. TypeInv'
    <3>1. db' \in Databases /\ latest' \in Nat
      BY <2>0 DEF IInv, TypeInv, Databases
    <3> QED
      BY <1>13, <2>0, <3>1 DEF IInv, TypeInv, Phases, Reasons, StartCheckpoint, files,
         ghosts
  <2>2. FilesOK'
    <3>1. db.online \subseteq conns \cup saved
      BY <1>13 DEF IInv, FilesOK, Starting, StartCheckpoint
    <3>2. db'.online \subseteq conns' \cup saved'
      BY <1>13, <2>0, <3>1 DEF StartCheckpoint
    <3> QED
      BY <1>13, <3>2 DEF IInv, FilesOK, Starting, WritingOK, StartCheckpoint, files
  <2>3. GenerationsOK'
    BY <1>13 DEF IInv, TypeInv, GenerationsOK, WritingOK, Begun, StartCheckpoint
  <2>4. WritingOK'
    BY <1>13 DEF WritingOK, StartCheckpoint
  <2>5. BestOK'
    BY <1>13 DEF IInv, BestOK, Best, StartCheckpoint, files, ghosts
  <2> QED BY <2>1, <2>2, <2>3, <2>4, <2>5 DEF IInv
<1>14. ASSUME CheckpointFinished PROVE IInv'
  <2>1. TypeInv'
    BY <1>14 DEF IInv, TypeInv, Phases, CheckpointFinished, files, world, dumping, ghosts
  <2>2. FilesOK'
    BY <1>14 DEF IInv, FilesOK, Starting, CheckpointFinished, files, world, dumping
  <2>3. GenerationsOK'
    BY <1>14 DEF IInv, GenerationsOK, Begun, CheckpointFinished, dumping, ghosts
  <2>4. WritingOK'
    BY <1>14 DEF IInv, WritingOK, CheckpointFinished, dumping
  <2>5. BestOK'
    BY <1>14 DEF IInv, BestOK, Best, CheckpointFinished, files, ghosts
  <2> QED BY <2>1, <2>2, <2>3, <2>4, <2>5 DEF IInv
<1>15. ASSUME Shutdown PROVE IInv'
  <2>1. TypeInv'
    BY <1>15 DEF IInv, TypeInv, Phases, Reasons, Shutdown, files, world, signals, ghosts
  <2>2. FilesOK'
    BY <1>15 DEF IInv, FilesOK, Starting, WritingOK, Shutdown, files, world
  <2>3. GenerationsOK'
    BY <1>15 DEF IInv, TypeInv, GenerationsOK, WritingOK, Begun, Shutdown, ghosts
  <2>4. WritingOK'
    BY <1>15 DEF WritingOK, Shutdown
  <2>5. BestOK'
    BY <1>15 DEF IInv, BestOK, Best, Shutdown, files, ghosts
  <2> QED BY <2>1, <2>2, <2>3, <2>4, <2>5 DEF IInv
<1>16. ASSUME OpenTemp PROVE IInv'
  <2>0. gen \in Generations /\ NextGen \in Generations
    BY <1>16 DEF IInv, TypeInv, GenerationsOK, Begun, Generations, Reasons, OpenTemp,
       NextGen
  <2>1. TypeInv'
    <3>1. Snapshot(FALSE) \in Files
      BY DEF Snapshot, Files, IInv, TypeInv, Databases
    <3>2. temp' \in [Generations -> Files \cup {NoFile}]
      BY <1>16, <2>0, <3>1 DEF IInv, TypeInv, OpenTemp
    <3>3. faults' \in 0 .. MaxFaults
      <4>1. faults' = faults \/ (faults > 0 /\ faults' = faults - 1)
        BY <1>16 DEF OpenTemp, ghosts, Spend
      <4> QED BY <4>1 DEF IInv, TypeInv
    <3>4. success' \in BOOLEAN /\ pc' \in Phases
      BY <1>16 DEF IInv, TypeInv, Phases, OpenTemp
    <3>5. UNCHANGED <<promised, exposed>>
      BY <1>16 DEF OpenTemp, ghosts
    <3>6. gen' \in Nat
      BY <1>16, <2>0 DEF OpenTemp, Generations
    <3> QED
      BY <1>16, <3>2, <3>3, <3>4, <3>5, <3>6 DEF IInv, TypeInv, OpenTemp, world, signals
  <2>2. FilesOK'
    BY <1>16 DEF IInv, FilesOK, Starting, OpenTemp, world
  <2>3. GenerationsOK'
    BY <1>16 DEF IInv, TypeInv, GenerationsOK, Begun, OpenTemp, signals, ghosts, NextGen,
       Snapshot, Spend
  <2>4. WritingOK'
    BY <1>16 DEF WritingOK, OpenTemp
  <2>5. BestOK'
    BY <1>16 DEF IInv, BestOK, Best, OpenTemp, ghosts
  <2> QED BY <2>1, <2>2, <2>3, <2>4, <2>5 DEF IInv
<1>17. ASSUME NEW w \in BOOLEAN, WriteDb(w) PROVE IInv'
  <2>1. TypeInv'
    BY <1>17 DEF IInv, TypeInv, Files, Databases, Phases, WriteDb, world, signals,
       Snapshot, Spend
  <2>2. FilesOK'
    BY <1>17 DEF IInv, FilesOK, Starting, WriteDb, world
  <2>3. GenerationsOK'
    BY <1>17 DEF IInv, TypeInv, GenerationsOK, Begun, WriteDb, signals, Spend
  <2>4. WritingOK'
    <3>1. gen \in Generations
      BY DEF IInv, TypeInv, GenerationsOK, Begun, Generations, Reasons
    <3>2. Snapshot(w).whole = w /\ Snapshot(w) = Snapshot(w)'
      BY <1>17 DEF Snapshot, WriteDb, world
    <3>3. reason # "DUMP_PANIC" => temp'[gen'] = Snapshot(w)
      BY <1>17, <3>1 DEF IInv, TypeInv, WriteDb
    <3> QED
      BY <1>17, <3>2, <3>3 DEF WritingOK, WriteDb
  <2>5. BestOK'
    BY <1>17 DEF IInv, BestOK, Best, WriteDb
  <2> QED BY <2>1, <2>2, <2>3, <2>4, <2>5 DEF IInv
<1>18. ASSUME WriteFails PROVE IInv'
  <2>1. TypeInv'
    <3>1. temp' \in [Generations -> Files \cup {NoFile}]
      BY <1>18 DEF IInv, TypeInv, WriteFails
    <3>2. faults' \in 0 .. MaxFaults
      BY <1>18 DEF IInv, TypeInv, WriteFails, Spend
    <3> QED
      BY <1>18, <3>1, <3>2 DEF IInv, TypeInv, Phases, WriteFails, world, signals
  <2>2. FilesOK'
    BY <1>18 DEF IInv, FilesOK, Starting, WriteFails, world
  <2>3. GenerationsOK'
    BY <1>18 DEF IInv, TypeInv, GenerationsOK, Begun, WriteFails, signals, Spend
  <2>4. WritingOK'
    BY <1>18 DEF WritingOK, WriteFails
  <2>5. BestOK'
    BY <1>18 DEF IInv, BestOK, Best, WriteFails
  <2> QED BY <2>1, <2>2, <2>3, <2>4, <2>5 DEF IInv
<1>19. ASSUME RemoveDumpDb PROVE IInv'
  <2>1. TypeInv'
    BY <1>19 DEF IInv, TypeInv, Phases, RemoveDumpDb, world, signals, dumping, ghosts
  <2>2. FilesOK'
    BY <1>19 DEF IInv, FilesOK, Starting, RemoveDumpDb, world, dumping
  <2>3. GenerationsOK'
    BY <1>19 DEF IInv, GenerationsOK, Begun, RemoveDumpDb, signals, dumping, ghosts
  <2>4. WritingOK'
    BY <1>19 DEF IInv, WritingOK, RemoveDumpDb, world, dumping, Snapshot
  <2>5. BestOK'
    BY <1>19 DEF IInv, BestOK, RemoveDumpDb, ghosts
  <2> QED BY <2>1, <2>2, <2>3, <2>4, <2>5 DEF IInv
<1>20. ASSUME RenameTemp PROVE IInv'
  <2> DEFINE f == temp[gen]
  <2>0. /\ gen \in Generations
        /\ reason # "DUMP_PANIC" /\ success
        /\ \E w \in BOOLEAN : f = Snapshot(w) /\ (SilentFaults \/ w)
    BY <1>20 DEF IInv, TypeInv, GenerationsOK, Begun, Generations, Reasons, WritingOK,
       RenameTemp
  <2>00. f \in Files /\ f # NoFile /\ f.db = db /\ f.conns = conns /\ (~SilentFaults => f.whole)
    BY <2>0 DEF Snapshot, Files, IInv, TypeInv, Databases
  <2> HIDE DEF f
  <2>000. \/ /\ dump_db' = f /\ promised' = db.version /\ exposed' = FALSE
             /\ UNCHANGED <<success, faults>>
          \/ Spend /\ success' = FALSE /\ exposed' = TRUE /\ UNCHANGED <<dump_db, promised>>
    BY <1>20 DEF RenameTemp, f
  <2>1. TypeInv'
    <3>1. temp' \in [Generations -> Files \cup {NoFile}]
      BY <1>20 DEF IInv, TypeInv, RenameTemp
    <3>2. faults' \in 0 .. MaxFaults
      BY <2>000 DEF IInv, TypeInv, Spend
    <3>3. /\ promised' \in Nat /\ exposed' \in BOOLEAN /\ success' \in BOOLEAN
          /\ dump_db' \in Files \cup {NoFile}
      BY <2>00, <2>000 DEF IInv, TypeInv, Databases
    <3> QED
      BY <1>20, <3>1, <3>2, <3>3 DEF IInv, TypeInv, Phases, RenameTemp, AfterDump, world,
         signals
  <2>2. FilesOK'
    BY <1>20, <2>0, <2>00, <2>000 DEF IInv, FilesOK, Starting, Lists, RenameTemp, world
  <2>3. GenerationsOK'
    BY <1>20 DEF IInv, TypeInv, GenerationsOK, Begun, RenameTemp, signals, AfterDump, Spend
  <2>4. WritingOK'
    BY <1>20, <2>0, <2>00, <2>000 DEF WritingOK, RenameTemp, AfterDump, world
  <2>5. BestOK'
    <3>1. CASE dump_db' = f /\ promised' = db.version
      <4>1. ~SilentFaults => Best'.whole /\ Best'.db.version >= promised'
        BY <3>1, <2>0, <2>00 DEF Best, IInv, TypeInv, Databases
      <4> QED BY <1>20, <4>1 DEF IInv, BestOK, RenameTemp, AfterDump
    <3>2. CASE exposed' = TRUE
      BY <1>20, <3>2 DEF IInv, BestOK, RenameTemp, AfterDump
    <3> QED BY <2>000, <3>1, <3>2
  <2> QED BY <2>1, <2>2, <2>3, <2>4, <2>5 DEF IInv
<1>21. ASSUME panic PROVE IInv'
  <2>1. TypeInv'
    BY <1>21 DEF IInv, TypeInv, Phases, Reasons, panic, files, world, signals, Spend,
       Interrupted
  <2>2. FilesOK'
    BY <1>21 DEF IInv, FilesOK, Starting, panic, files, world
  <2>3. GenerationsOK'
    <3>1. reason' = "DUMP_PANIC" /\ gen' = gen
      BY <1>21 DEF panic
    <3>2. gen <= MaxRequests + 2 + MaxFaults
      BY DEF IInv, TypeInv, GenerationsOK, Begun, Reasons
    <3> QED BY <3>1, <3>2 DEF GenerationsOK
  <2>4. WritingOK'
    BY <1>21 DEF WritingOK, panic
  <2>5. BestOK'
    BY <1>21 DEF IInv, BestOK, Best, Starting, panic, files, Interrupted
  <2> QED BY <2>1, <2>2, <2>3, <2>4, <2>5 DEF IInv
<1>22. ASSUME Crash PROVE IInv'
  <2>1. TypeInv'
    BY <1>22 DEF IInv, TypeInv, Phases, Crash, files, world, signals, dumping, Spend,
       Interrupted
  <2>2. FilesOK'
    BY <1>22 DEF IInv, FilesOK, Starting, Crash, files
  <2>3. GenerationsOK'
    BY <1>22 DEF IInv, TypeInv, GenerationsOK, Begun, Crash, signals, dumping, Spend
  <2>4. WritingOK'
    BY <1>22 DEF WritingOK, Crash
  <2>5. BestOK'
    BY <1>22 DEF IInv, BestOK, Best, Crash, files, Interrupted
  <2> QED BY <2>1, <2>2, <2>3, <2>4, <2>5 DEF IInv
<1>23. ASSUME MoveDump PROVE IInv'
  <2>1. TypeInv'
    BY <1>23 DEF IInv, TypeInv, BestOK, Phases, MoveDump, world, dumping, signals, ghosts
  <2>2. FilesOK'
    BY <1>23 DEF IInv, FilesOK, Starting, BestOK, MoveDump, world
  <2>3. GenerationsOK'
    BY <1>23 DEF IInv, GenerationsOK, Begun, MoveDump, dumping, signals, ghosts
  <2>4. WritingOK'
    BY <1>23 DEF IInv, WritingOK, MoveDump, dumping
  <2>5. BestOK'
    BY <1>23 DEF IInv, BestOK, Best, MoveDump, ghosts
  <2> QED BY <2>1, <2>2, <2>3, <2>4, <2>5 DEF IInv
<1>24. ASSUME UNCHANGED vars PROVE IInv'
  BY <1>24 DEF IInv, TypeInv, FilesOK, Starting, GenerationsOK, Begun, WritingOK, Snapshot, BestOK,
     Best, vars, files, world, signals, dumping, ghosts
<1> QED BY <1>1, <1>2, <1>3, <1>4, <1>5, <1>6, <1>7, <1>8, <1>9, <1>10, <1>11, <1>12,
           <1>13, <1>14, <1>15, <1>16, <1>17, <1>18, <1>19, <1>20, <1>21, <1>22, <1>23, <1>24 DEF
           Next, Server

-----------------------------------------------------------------------------

(* The four parts hold in every state, whatever fails and however often    *)
(* the server is stopped and started.                                      *)
THEOREM Invariance == Spec => []IInv
  BY Initially, Step, PTL DEF Spec

(* Nobody whom the database calls connected is without a connection once   *)
(* the server listens again: a dump lists the connections of the very      *)
(* state that it writes, and recovery tells those players that they are    *)
(* gone (recover_active_connections).                                      *)
THEOREM NobodyLeftOnline == Spec => []OnlineIsConnected
<1>1. IInv => OnlineIsConnected
  BY DEF IInv, FilesOK, OnlineIsConnected, Starting
<1> QED BY <1>1, Invariance, PTL

(* What a dump was reported to have saved is in the best whole file that   *)
(* is left, through renames that fail, half-written files, panics, crashes *)
(* and restarts -- provided that a write that fails is seen to fail.  The  *)
(* server does not check what fclose() says, so the hypothesis is about    *)
(* its files: see the run lost_dump for what happens without it.           *)
THEOREM RestartsAreDurable == ASSUME ~SilentFaults PROVE Spec => []Durable
<1>1. IInv => Durable
  BY DEF IInv, BestOK, Best, Starting, Durable
<1> QED BY <1>1, Invariance, PTL

(* Under the same hypothesis, when dump_database() returns success the     *)
(* database that it was asked to write is the one in dump_db_name, whole.  *)
THEOREM FinishedIsTrue == ASSUME ~SilentFaults PROVE Spec => FinishedTellsTruth
<1> DEFINE A == pc = "finished" /\ pc' = "loop" /\ success
                => dump_db # NoFile /\ dump_db.whole /\ dump_db.db = db
<1>1. IInv /\ [Next]_vars => [A]_vars
  BY DEF IInv, WritingOK
<1> QED BY <1>1, Invariance, PTL DEF Spec, FinishedTellsTruth
=============================================================================
