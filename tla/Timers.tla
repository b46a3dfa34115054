------------------------------- MODULE Timers -------------------------------
(***************************************************************************)
(* The timers that share the one alarm clock of the process: a list in     *)
(* order of time, whose head the clock is set for, and the virtual timer   *)
(* that counts the processor time of a task.  SIGALRM is held back while   *)
(* its handler runs, and stays so when the handler is left by an exception *)
(* (an outbound connection that times out) until reenable_timers().        *)
(***************************************************************************)
EXTENDS Naturals, Sequences, SequencesExt

CONSTANTS
  MaxTime,      \* bound: the clock
  MaxTimers,    \* bound: timers set
  MaxSeconds,   \* bound: the seconds a timer is set for
  Second        \* how many units of processor time make a second

ASSUME TimersAssumption ==
  MaxTime \in Nat /\ MaxTimers \in Nat /\ MaxSeconds \in Nat /\ Second \in Nat \ {0}

VARIABLES
  now,             \* time(0)
  active_timers,   \* in order; each its number, its time, and what it does
  next_id,
  alarm,           \* the clock: a time, or NoAlarm
  sigalrm,         \* SIGALRM is pending
  held,            \* why it is held back: "no", "handler" or "raised"
  virtual_timer,   \* its number, or NoTimer
  virtual_when,    \* the seconds it was last set for
  itimer,          \* the processor time until it goes off, or NoAlarm
  sigvtalrm,       \* SIGVTALRM is pending
  fired,           \* the timers whose time was announced
  cancelled        \* those that cancel_timer found

NoAlarm == MaxTime + MaxSeconds * Second + 1
NoTimer == MaxTimers
timer_vars == <<now, active_timers, next_id, alarm, sigalrm, held, virtual_timer,
                virtual_when, itimer, sigvtalrm, fired, cancelled>>

InitTimers ==
  /\ now = 0 /\ active_timers = <<>> /\ next_id = 0
  /\ alarm = NoAlarm /\ sigalrm = FALSE /\ held = "no"
  /\ virtual_timer = NoTimer /\ virtual_when = 0 /\ itimer = NoAlarm /\ sigvtalrm = FALSE
  /\ fired = {} /\ cancelled = {}

(* Mutant: the clock is not set for a timer that is late already. *)
MutantRestartTimers(list) ==
  /\ sigalrm' = FALSE
  /\ alarm' = IF list # <<>> /\ now < Head(list).when THEN Head(list).when ELSE NoAlarm

(* restart_timers: the clock is set for the head of the list; if that is   *)
(* late the signal is sent at once.  stop_timers, which always comes       *)
(* before, or the handler itself has taken back a signal that is pending.  *)
restart_timers(list) ==
  /\ sigalrm' = (list # <<>> /\ now >= Head(list).when)
  /\ alarm' = IF list # <<>> /\ now < Head(list).when THEN Head(list).when ELSE NoAlarm

(* stop_timers keeps the whole seconds that are left of the virtual timer, *)
(* and restart_timers sets it for them; with none it goes off at once.     *)
restart_virtual(id, when) ==
  /\ virtual_timer' = id /\ virtual_when' = when
  /\ itimer' = IF id # NoTimer /\ when > 0 THEN when * Second ELSE NoAlarm
  /\ sigvtalrm' = (id # NoTimer /\ when = 0)

SecondsLeft == IF itimer = NoAlarm THEN 0 ELSE itimer \div Second

(* Where the loop of set_timer stops: a timer goes behind those of the same *)
(* time.                                                                    *)
Places(when) ==
  {p \in 1..Len(active_timers) + 1 :
     /\ \A i \in 1..p - 1 : active_timers[i].when <= when
     /\ p <= Len(active_timers) => when < active_timers[p].when}

set_timer(seconds, raises) ==
  /\ held # "handler" /\ next_id < MaxTimers
  /\ next_id' = next_id + 1
  /\ \E p \in Places(now + seconds) :
       active_timers' = InsertAt(active_timers, p,
                          [id |-> next_id, when |-> now + seconds, raises |-> raises])
  /\ restart_timers(active_timers')
  /\ restart_virtual(virtual_timer, SecondsLeft)
  /\ UNCHANGED <<now, held, fired, cancelled>>

set_virtual_timer(seconds) ==
  /\ held # "handler" /\ next_id < MaxTimers /\ virtual_timer = NoTimer
  /\ next_id' = next_id + 1
  /\ restart_timers(active_timers)
  /\ restart_virtual(next_id, seconds)
  /\ UNCHANGED <<now, active_timers, held, fired, cancelled>>

cancel_timer(id) ==
  /\ held # "handler" /\ id < next_id
  /\ LET at == {p \in DOMAIN active_timers : active_timers[p].id = id /\ id # virtual_timer}
     IN /\ IF at = {} THEN UNCHANGED active_timers
           ELSE \E p \in at : active_timers' = RemoveAt(active_timers, p)
        /\ cancelled' = IF at # {} \/ id = virtual_timer THEN cancelled \cup {id} ELSE cancelled
  /\ restart_timers(active_timers')
  /\ IF id = virtual_timer THEN restart_virtual(NoTimer, 0)
     ELSE restart_virtual(virtual_timer, SecondsLeft)
  /\ UNCHANGED <<now, next_id, held, fired>>

(* wakeup_call: the head is taken off, the clock is set for the next, and  *)
(* then its procedure runs, which may leave the handler by an exception.   *)
(* stop_timers is not called here: the virtual timer starts again from     *)
(* what stop_timers saw last, however much of it has gone by since.        *)
wakeup_call ==
  /\ sigalrm /\ held = "no"
  /\ LET self == Head(active_timers)
     IN /\ active_timers' = Tail(active_timers)
        /\ restart_timers(Tail(active_timers))
        /\ fired' = fired \cup {self.id}
        /\ held' = IF self.raises THEN "raised" ELSE "handler"
  /\ IF virtual_timer # NoTimer /\ virtual_when > 0
       THEN itimer' = virtual_when * Second /\ UNCHANGED sigvtalrm
       ELSE sigvtalrm' = (sigvtalrm \/ virtual_timer # NoTimer) /\ UNCHANGED itimer
  /\ UNCHANGED <<now, next_id, virtual_timer, virtual_when, cancelled>>

HandlerReturns ==
  /\ held = "handler" /\ held' = "no"
  /\ UNCHANGED <<now, active_timers, next_id, alarm, sigalrm, virtual_timer, virtual_when,
                 itimer, sigvtalrm, fired, cancelled>>

reenable_timers ==
  /\ held = "raised" /\ held' = "no"
  /\ UNCHANGED <<now, active_timers, next_id, alarm, sigalrm, virtual_timer, virtual_when,
                 itimer, sigvtalrm, fired, cancelled>>

(* When the virtual timer was set again while its signal was pending, a    *)
(* second signal finds no timer, and the process dies of it.               *)
virtual_wakeup_call ==
  /\ sigvtalrm /\ virtual_timer # NoTimer
  /\ sigvtalrm' = FALSE /\ virtual_timer' = NoTimer
  /\ fired' = fired \cup {virtual_timer}
  /\ UNCHANGED <<now, active_timers, next_id, alarm, sigalrm, held, virtual_when, itimer, cancelled>>

(* Time passes, and processor time with it or not. *)
Tick(busy) ==
  /\ now < MaxTime /\ now' = now + 1
  /\ IF alarm <= now' THEN sigalrm' = TRUE /\ alarm' = NoAlarm
     ELSE UNCHANGED <<sigalrm, alarm>>
  /\ IF busy /\ itimer # NoAlarm
       THEN IF itimer <= 1 THEN itimer' = NoAlarm /\ sigvtalrm' = TRUE
            ELSE itimer' = itimer - 1 /\ UNCHANGED sigvtalrm
       ELSE UNCHANGED <<itimer, sigvtalrm>>
  /\ UNCHANGED <<active_timers, next_id, held, virtual_timer, virtual_when, fired,
                 cancelled>>

NextTimers ==
  \/ \E s \in 0..MaxSeconds, raises \in BOOLEAN : set_timer(s, raises)
  \/ \E s \in 1..MaxSeconds : set_virtual_timer(s)
  \/ \E id \in 0..MaxTimers - 1 : cancel_timer(id)
  \/ wakeup_call \/ HandlerReturns \/ reenable_timers \/ virtual_wakeup_call
  \/ \E busy \in BOOLEAN : Tick(busy)

SpecTimers == InitTimers /\ [][NextTimers]_timer_vars

(***************************************************************************)
(* Properties.                                                             *)
(***************************************************************************)

(* The list and the clock agree whatever was set, cancelled or announced,  *)
(* on time or late: the list is in order, while it holds a timer the clock *)
(* is set for its head or the signal is on its way, and while it does not  *)
(* no signal comes (the handler would follow a null pointer); a timer that *)
(* was cancelled is not announced.                                         *)
Armed ==
  /\ \A i \in 1..Len(active_timers) - 1 : active_timers[i].when <= active_timers[i + 1].when
  /\ active_timers = <<>> <=> alarm = NoAlarm /\ ~sigalrm
  /\ alarm # NoAlarm => alarm = Head(active_timers).when
  /\ fired \cap cancelled = {}
=============================================================================
