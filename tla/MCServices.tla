----------------------------- MODULE MCServices -----------------------------
(***************************************************************************)
(* What the server has around its tasks: name lookup, timers, the buffers  *)
(* of a connection, and the dumps of the database.  They share nothing but *)
(* the process and are checked in one run: Init chooses the part, the      *)
(* others stand still.                                                     *)
(***************************************************************************)
EXTENDS NameLookup, Timers, NetworkIO, Checkpoint

CONSTANTS
  Parts,    \* bound: the parts that are checked
  c1

VARIABLE part

const_Bytes == {"a", "L", "T", "BS", "CR", "LF"}
const_Conns == {c1}

MCInit ==
  /\ part \in Parts
  /\ InitLookup /\ InitTimers /\ InitNetwork /\ Init

MCNext ==
  \/ /\ part = "lookup" /\ NextLookup
     /\ UNCHANGED <<part, timer_vars, net_vars, vars>>
  \/ /\ part = "timers" /\ NextTimers
     /\ UNCHANGED <<part, lookup_vars, net_vars, vars>>
  \/ /\ part = "input" /\ NextInput
     /\ UNCHANGED <<part, lookup_vars, timer_vars, vars>>
  \/ /\ part = "output" /\ NextOutput
     /\ UNCHANGED <<part, lookup_vars, timer_vars, vars>>
  \/ /\ part = "checkpoint" /\ Next
     /\ UNCHANGED <<part, lookup_vars, timer_vars, net_vars>>

MCSpec ==
  /\ MCInit /\ [][MCNext]_<<part, lookup_vars, timer_vars, net_vars, vars>>
  /\ FairLookup /\ Fairness
=============================================================================
