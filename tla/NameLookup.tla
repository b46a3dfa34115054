----------------------------- MODULE NameLookup -----------------------------
(***************************************************************************)
(* Host names are looked up by two helper processes, so that a name server *)
(* that does not answer cannot stop the server for good.  The server       *)
(* writes a request to the intermediary and waits; the intermediary passes *)
(* it to the lookup process, which sets a timer and dies when it runs out; *)
(* the intermediary, finding the pipe closed, answers for it and starts    *)
(* another.  A pipe is a sequence of messages, one for each write(); what  *)
(* a name or an address is does not matter, only which request it answers. *)
(***************************************************************************)
EXTENDS Naturals, Sequences

CONSTANTS
  MaxLookups,        \* bound: how many requests the server makes
  MaxLookupFaults    \* bound: processes that die or cannot be started

VARIABLES
  server,      \* what the server does: idle, or waiting for an answer
  request,     \* the request it made last: number and kind
  answer,      \* what it took for the answer
  dead_intermediary,
  to_intermediary, from_intermediary,   \* the server's pipes
  intermediary,   \* where the intermediary is, or "dead"
  serving,        \* the request it works on
  lookup_pid,     \* whether it believes it has a lookup process
  to_lookup, from_lookup,               \* its pipes
  lookup,         \* where the lookup process is, or "dead"
  slave_timer,    \* whether its timer is set
  lookup_faults

pipes == <<to_intermediary, from_intermediary, to_lookup, from_lookup>>
server_vars == <<server, request, answer, dead_intermediary>>
helper_vars == <<intermediary, serving, lookup_pid, lookup, slave_timer>>
lookup_vars == <<server_vars, pipes, helper_vars, lookup_faults>>

Kinds == {"REQ_NAME_FROM_ADDR", "REQ_ADDR_FROM_NAME"}

(* A message: a request, a length (0, no name, is not found), a name or an *)
(* address; and the request that it belongs to.                            *)
Msg(w, r, f) == [what |-> w, of |-> r, found |-> f]
NoRequest == [n |-> 0, kind |-> "REQ_NAME_FROM_ADDR"]
Fallback == Msg("decimal", NoRequest, FALSE)

(* initialize_name_lookup starts the intermediary, which starts the lookup. *)
InitLookup ==
  /\ server = "idle" /\ request = NoRequest /\ answer = Fallback
  /\ dead_intermediary = FALSE
  /\ to_intermediary = <<>> /\ from_intermediary = <<>>
  /\ intermediary = "idle" /\ serving = NoRequest /\ lookup_pid = TRUE
  /\ to_lookup = <<>> /\ from_lookup = <<>>
  /\ lookup = "read" /\ slave_timer = FALSE
  /\ lookup_faults = MaxLookupFaults

SpendLookup == lookup_faults > 0 /\ lookup_faults' = lookup_faults - 1

(***************************************************************************)
(* The server.  The lookup process keeps the pipes that it inherited from  *)
(* the intermediary open, so the server sees them closed only when both    *)
(* are dead.                                                               *)
(***************************************************************************)
HelpersGone == intermediary = "dead" /\ lookup = "dead"

abandon_intermediary ==
  /\ dead_intermediary' = TRUE /\ answer' = Fallback /\ server' = "idle"

(* lookup_name_from_addr and lookup_addr_from_name *)
LookUp(kind) ==
  /\ server = "idle" /\ request.n < MaxLookups
  /\ request' = [n |-> request.n + 1, kind |-> kind]
  /\ IF dead_intermediary
       THEN answer' = Fallback
            /\ UNCHANGED <<server, dead_intermediary, to_intermediary>>
     ELSE IF HelpersGone
       THEN abandon_intermediary /\ UNCHANGED to_intermediary
     ELSE /\ to_intermediary' = Append(to_intermediary, Msg("request", request', TRUE))
          /\ server' = IF kind = "REQ_NAME_FROM_ADDR" THEN "len" ELSE "addr"
          /\ UNCHANGED <<answer, dead_intermediary>>
  /\ UNCHANGED <<from_intermediary, to_lookup, from_lookup, helper_vars, lookup_faults>>

(* robust_read of the length, of the name, or of the address. *)
ServerReads ==
  /\ server # "idle" /\ from_intermediary # <<>>
  /\ LET m == Head(from_intermediary)
     IN IF server = "len" /\ m.found
          THEN server' = "data" /\ UNCHANGED answer
          ELSE server' = "idle" /\ answer' = (IF m.found THEN m ELSE Fallback)
  /\ from_intermediary' = Tail(from_intermediary)
  /\ UNCHANGED <<request, dead_intermediary, to_intermediary, to_lookup, from_lookup,
                 helper_vars, lookup_faults>>

ServerGivesUp ==
  /\ server # "idle" /\ from_intermediary = <<>> /\ HelpersGone
  /\ abandon_intermediary
  /\ UNCHANGED <<request, pipes, helper_vars, lookup_faults>>

(***************************************************************************)
(* The intermediary.                                                       *)
(***************************************************************************)
(* Mutant: the new lookup process gets the pipes of the old one. *)
MutantRestartLookup(ok) ==
  /\ lookup_pid' = ok
  /\ lookup' = IF ok THEN "read" ELSE "dead"
  /\ slave_timer' = FALSE
  /\ UNCHANGED <<to_lookup, from_lookup>>

(* restart_lookup: the old process is killed and its pipes are closed; the *)
(* new one may fail to start.                                              *)
restart_lookup(ok) ==
  /\ lookup_pid' = ok
  /\ lookup' = IF ok THEN "read" ELSE "dead"
  /\ slave_timer' = FALSE
  /\ to_lookup' = <<>> /\ from_lookup' = <<>>

Spawned(ok) == IF ok THEN UNCHANGED lookup_faults ELSE SpendLookup

(* The answer of a lookup that failed. *)
Failure(r) == Msg(IF r.kind = "REQ_NAME_FROM_ADDR" THEN "len" ELSE "addr", r, FALSE)

Reply(m) ==
  /\ from_intermediary' = Append(from_intermediary, m)
  /\ intermediary' = "idle"

(* A request comes in while there is a lookup process; if it is dead, the  *)
(* write fails and nobody looks.                                           *)
Forward ==
  /\ intermediary = "idle" /\ to_intermediary # <<>> /\ lookup_pid
  /\ serving' = Head(to_intermediary).of
  /\ to_intermediary' = Tail(to_intermediary)
  /\ to_lookup' = IF lookup = "dead" THEN to_lookup
                  ELSE Append(to_lookup, Head(to_intermediary))
  /\ intermediary' = "len"
  /\ UNCHANGED <<server_vars, from_intermediary, from_lookup, lookup_pid, lookup,
                 slave_timer, lookup_faults>>

(* A request comes in when the last attempt to start one has failed: it is *)
(* tried again first.                                                      *)
ForwardToNew(ok) ==
  /\ intermediary = "idle" /\ to_intermediary # <<>> /\ ~lookup_pid
  /\ Spawned(ok)
  /\ serving' = Head(to_intermediary).of
  /\ to_intermediary' = Tail(to_intermediary)
  /\ lookup_pid' = ok /\ slave_timer' = FALSE /\ from_lookup' = <<>>
  /\ lookup' = IF ok THEN "read" ELSE "dead"
  /\ IF ok
       THEN /\ to_lookup' = <<Head(to_intermediary)>>
            /\ intermediary' = "len" /\ UNCHANGED from_intermediary
       ELSE to_lookup' = <<>> /\ Reply(Failure(Head(to_intermediary).of))
  /\ UNCHANGED server_vars

IntermediaryReads ==
  /\ intermediary \in {"len", "data"} /\ from_lookup # <<>>
  /\ LET m == Head(from_lookup)
     IN CASE intermediary = "data" ->
               /\ intermediary' = "name"
               /\ from_intermediary' = Append(from_intermediary, Msg("len", m.of, TRUE))
          [] intermediary = "len" /\ m.what = "len" /\ m.found ->
               intermediary' = "data" /\ UNCHANGED from_intermediary
          [] OTHER -> Reply(m)
  /\ from_lookup' = Tail(from_lookup)
  /\ UNCHANGED <<server_vars, to_intermediary, to_lookup, serving, lookup_pid, lookup,
                 slave_timer, lookup_faults>>

(* The name follows its length in a write of its own. *)
PassName ==
  /\ intermediary = "name"
  /\ Reply(Msg("name", serving, TRUE))
  /\ UNCHANGED <<server_vars, to_intermediary, to_lookup, from_lookup, serving, lookup_pid,
                 lookup, slave_timer, lookup_faults>>

(* The pipe is closed: the lookup process is dead. *)
IntermediaryRestarts(ok) ==
  /\ intermediary \in {"len", "data"} /\ from_lookup = <<>> /\ lookup = "dead"
  /\ Spawned(ok)
  /\ restart_lookup(ok)
  /\ Reply(Failure(serving))
  /\ UNCHANGED <<server_vars, to_intermediary, serving>>

(***************************************************************************)
(* The lookup process.                                                     *)
(***************************************************************************)
(* Mutant: a lookup that is under way has no timer. *)
MutantLookupReads ==
  /\ lookup = "read" /\ to_lookup # <<>>
  /\ lookup' = "resolve" /\ slave_timer' = FALSE
  /\ UNCHANGED <<server_vars, pipes, intermediary, serving, lookup_pid, lookup_faults>>

LookupReads ==
  /\ lookup = "read" /\ to_lookup # <<>>
  /\ lookup' = "resolve" /\ slave_timer' = TRUE
  /\ UNCHANGED <<server_vars, pipes, intermediary, serving, lookup_pid, lookup_faults>>

(* gethostbyname or gethostbyaddr returns, and the timer is cancelled. *)
Resolved(found) ==
  /\ lookup = "resolve"
  /\ slave_timer' = FALSE
  /\ LET r == Head(to_lookup).of
     IN IF r.kind = "REQ_ADDR_FROM_NAME"
          THEN /\ from_lookup' = Append(from_lookup, Msg("addr", r, found))
               /\ to_lookup' = Tail(to_lookup) /\ lookup' = "read"
          ELSE /\ from_lookup' = Append(from_lookup, Msg("len", r, found))
               /\ IF found THEN lookup' = "name" /\ UNCHANGED to_lookup
                  ELSE lookup' = "read" /\ to_lookup' = Tail(to_lookup)
  /\ UNCHANGED <<server_vars, to_intermediary, from_intermediary, intermediary, serving,
                 lookup_pid, lookup_faults>>

WriteName ==
  /\ lookup = "name"
  /\ from_lookup' = Append(from_lookup, Msg("name", Head(to_lookup).of, TRUE))
  /\ to_lookup' = Tail(to_lookup) /\ lookup' = "read"
  /\ UNCHANGED <<server_vars, to_intermediary, from_intermediary, intermediary, serving,
                 lookup_pid, slave_timer, lookup_faults>>

LookupExits(why) ==
  /\ why
  /\ lookup' = "dead" /\ slave_timer' = FALSE
  /\ UNCHANGED <<server_vars, pipes, intermediary, serving, lookup_pid>>

(* timeout_proc *)
TimedOut == LookupExits(lookup = "resolve" /\ slave_timer) /\ UNCHANGED lookup_faults

(* Nobody writes to its pipe any more. *)
LookupOrphaned ==
  /\ LookupExits(lookup = "read" /\ to_lookup = <<>> /\ intermediary = "dead")
  /\ UNCHANGED lookup_faults

(* The processes may die at any time.  What happens between two requests   *)
(* nobody sees before the next one, and the next one may find it so.       *)
LookupDies == LookupExits(lookup # "dead" /\ server # "idle") /\ SpendLookup

IntermediaryDies ==
  /\ intermediary # "dead" /\ server # "idle" /\ SpendLookup
  /\ intermediary' = "dead"
  /\ UNCHANGED <<server_vars, pipes, serving, lookup_pid, lookup, slave_timer>>

ServerSteps == ServerReads \/ ServerGivesUp
IntermediarySteps ==
  \/ Forward \/ IntermediaryReads \/ PassName
  \/ \E ok \in BOOLEAN : ForwardToNew(ok) \/ IntermediaryRestarts(ok)
SlaveSteps == LookupReads \/ WriteName \/ TimedOut \/ LookupOrphaned

NextLookup ==
  \/ \E kind \in Kinds : LookUp(kind)
  \/ ServerSteps \/ IntermediarySteps \/ SlaveSteps
  \/ \E found \in BOOLEAN : Resolved(found)
  \/ LookupDies \/ IntermediaryDies

SpecLookup == InitLookup /\ [][NextLookup]_lookup_vars

(* Each process runs, and the timer goes off; the name server need not     *)
(* answer (there is no fairness for Resolved).                             *)
FairLookup ==
  /\ WF_lookup_vars(ServerSteps)
  /\ WF_lookup_vars(IntermediarySteps)
  /\ WF_lookup_vars(SlaveSteps)

(***************************************************************************)
(* Properties.                                                             *)
(***************************************************************************)

(* What the server takes for the answer belongs to the request it made     *)
(* last, and is of the kind that was asked for: an answer that is late, or *)
(* half written when its process died, never stands for another.           *)
AnswersMatch ==
  server = "idle" /\ answer # Fallback =>
    /\ answer.of = request
    /\ answer.what = (IF request.kind = "REQ_NAME_FROM_ADDR" THEN "name" ELSE "addr")

(* The server, which does nothing else meanwhile, gets an answer or a      *)
(* default, whatever happens to the name server and to the helpers.        *)
LookupReturns == server # "idle" ~> server = "idle"
=============================================================================
