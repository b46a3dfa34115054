--------------------------- MODULE MCTaskQueues ---------------------------
(* Small instances of TaskQueues for model checking. *)
EXTENDS TaskQueues, TLC

(* One player, and tasks that only players own. *)
const_Players == {1}
const_Targets == {1, -2, -3}
const_ConnAndPlayer == {1, -2}
(* Tasks that run as the connection they were made on, or as the player. *)
const_Owners == {1, -2}
(* Addresses and task ids are interchangeable: the specification tells them apart
   only by equality, and a CHOOSE among them takes one of those not in use. *)
Symmetry == Permutations(QueueIds) \cup Permutations(TaskIds)
=============================================================================
