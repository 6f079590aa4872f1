----------------------------- MODULE RawEtimer -----------------------------
(***************************************************************************)
(* Event timers (extension/protothread/etimer.c, timer.c, clock_port.c):   *)
(* the processes put timers on a list; the tick handler polls              *)
(* etimer_process at next_expiration, the earliest of their times, and     *)
(* etimer_process posts an event for each that has expired.  Processes run *)
(* one at a time; the tick comes between any two of their steps, so also   *)
(* between the time update_time reads and the next_expiration it writes.   *)
(***************************************************************************)
EXTENDS Integers, Sequences, SequencesExt, FiniteSetsExt

CONSTANTS
  EtOwner,      \* the processes that use timers
  NoOwner,      \* PROCESS_NONE
  Etimer,       \* the event timers
  Interval,     \* bound: the intervals that timers are set to
  AdjustBy,     \* bound: how far etimer_adjust moves timers forward
  AdjustBack,   \* bound: and how far back
  ClockWrap,    \* 2^w for the w bits of clock_time_t
  ClockMax      \* bound: the last tick; ClockWrap if the clock goes on and wraps

ASSUME EtimerAssumption ==
  /\ NoOwner \notin EtOwner /\ ClockWrap \in Nat \ {0} /\ ClockMax \in 0 .. ClockWrap
  /\ Interval \subseteq 0 .. ClockWrap - 1 /\ AdjustBy \cup AdjustBack \subseteq Nat

VARIABLES
  timerlist, next_expiration, current_clock,
  etimer,       \* start, interval and p of each timer
  poll,         \* a poll of etimer_process is asked for
  etRun,        \* etimer_process is in its loop over the expired timers
  update        \* next_expiration about to be written by update_time, or -1

etimerVars == <<timerlist, next_expiration, current_clock, etimer, poll, etRun, update>>

EtInit ==
  /\ timerlist = <<>> /\ next_expiration = 0 /\ current_clock = 0
  /\ etimer = [t \in Etimer |-> [start |-> 0, interval |-> 0, p |-> NoOwner]]
  /\ poll = FALSE /\ etRun = FALSE /\ update = -1

\* start + interval - now, in clock_time_t.
remaining(t, T) == (T[t].start + T[t].interval - current_clock) % ClockWrap

\* Mutant: the rest of the list is not looked at.
update_time_HeadOnly(list, T) ==
  update' = IF list = <<>> THEN 0 ELSE (current_clock + remaining(Head(list), T)) % ClockWrap

\* update_time, up to the value of next_expiration that update_written stores.
update_time(list, T) ==
  update' = IF list = <<>> THEN 0
            ELSE (current_clock + Min({remaining(t, T) : t \in ToSet(list)})) % ClockWrap

update_written ==
  /\ update # -1 /\ next_expiration' = update /\ update' = -1
  /\ UNCHANGED <<timerlist, current_clock, etimer, poll, etRun>>

\* proto_tick_handler.
proto_tick_handler ==
  /\ current_clock < ClockMax
  /\ current_clock' = (current_clock + 1) % ClockWrap
  /\ poll' = (poll \/ (timerlist # <<>> /\ next_expiration <= current_clock'))
  /\ UNCHANGED <<timerlist, next_expiration, etimer, etRun, update>>

CanCall == update = -1 /\ ~ etRun

\* add_timer: a timer that is on the list keeps its owner and its place.
add_timer(p, t, T) ==
  LET waits == T[t].p # NoOwner /\ t \in ToSet(timerlist)
      list == IF waits THEN timerlist ELSE <<t>> \o timerlist
  IN  /\ etimer' = IF waits THEN T ELSE [T EXCEPT ![t].p = p]
      /\ timerlist' = list /\ poll' = TRUE
      /\ update_time(list, etimer')
      /\ UNCHANGED <<next_expiration, current_clock, etRun>>

etimer_set(p, t, i) ==
  CanCall /\ add_timer(p, t, [etimer EXCEPT ![t].interval = i, ![t].start = current_clock])

\* Bound: a timer that starts later than now is not moved on.
Movable(t) == etimer[t].start <= current_clock

etimer_reset(p, t) ==
  CanCall /\ Movable(t) /\ add_timer(p, t, [etimer EXCEPT ![t].start = (@ + etimer[t].interval) % ClockWrap])

etimer_restart(p, t) ==
  CanCall /\ add_timer(p, t, [etimer EXCEPT ![t].start = current_clock])

\* Bound: no timer is moved back behind the first tick.
etimer_adjust(t, d) ==
  /\ CanCall /\ Movable(t) /\ 0 <= etimer[t].start + d
  /\ etimer' = [etimer EXCEPT ![t].start = (@ + d) % ClockWrap]
  /\ update_time(timerlist, etimer')
  /\ UNCHANGED <<timerlist, next_expiration, current_clock, poll, etRun>>

\* etimer_stop: p is cleared in the end, whether the timer was on the list or not.
etimer_stop(t) ==
  /\ CanCall
  /\ timerlist' = RemoveFirst(timerlist, t)
  /\ etimer' = [etimer EXCEPT ![t].p = NoOwner]
  /\ IF t \in ToSet(timerlist) THEN update_time(timerlist', etimer) ELSE update' = update
  /\ UNCHANGED <<next_expiration, current_clock, poll, etRun>>

\* The walk along the list that unlinks the timers of p.
unlinked(p) ==
  LET kept[i \in 0 .. Len(timerlist)] ==
        IF i = 0 THEN <<>>
        ELSE IF etimer[timerlist[i]].p = p THEN kept[i - 1]
        ELSE Append(kept[i - 1], timerlist[i])
  IN  kept[Len(timerlist)]

\* PROCESS_EVENT_EXITED, which process_exit hands to etimer_process: the timers
\* of the process leave the list, keep their p, and next_expiration stays.
etimer_exited(p) ==
  /\ CanCall
  /\ timerlist' = unlinked(p)
  /\ UNCHANGED <<next_expiration, current_clock, etimer, poll, etRun, update>>

\* PROCESS_EVENT_POLL.
etimer_polled ==
  /\ CanCall /\ poll
  /\ poll' = FALSE /\ etRun' = TRUE
  /\ UNCHANGED <<timerlist, next_expiration, current_clock, etimer, update>>

\* timer_expired: interval < now - start + 1.
timer_expired(t) ==
  etimer[t].interval < (current_clock - etimer[t].start + 1) % ClockWrap

\* The loop of etimer_process starts over after each timer it posts an event for;
\* process_post does not fail (etimer_process asserts it).
etimer_process ==
  /\ etRun /\ update = -1
  /\ LET i == SelectInSeq(timerlist, timer_expired)
     IN  IF i = 0 THEN etRun' = FALSE /\ UNCHANGED <<timerlist, etimer, update>>
         ELSE /\ timerlist' = RemoveAt(timerlist, i)
              /\ etimer' = [etimer EXCEPT ![timerlist[i]].p = NoOwner]
              /\ update_time(timerlist', etimer)
              /\ UNCHANGED etRun
  /\ UNCHANGED <<next_expiration, current_clock, poll>>

EtNext ==
  \/ update_written \/ proto_tick_handler \/ etimer_polled \/ etimer_process
  \/ \E p \in EtOwner, t \in Etimer :
       (\E i \in Interval : etimer_set(p, t, i)) \/ etimer_reset(p, t) \/ etimer_restart(p, t)
  \/ \E t \in Etimer : etimer_stop(t) \/ \E d \in AdjustBy \cup {-b : b \in AdjustBack} : etimer_adjust(t, d)
  \/ \E p \in EtOwner : etimer_exited(p)

EtimerSpec == EtInit /\ [][EtNext]_etimerVars

\* A timer whose time has come: it ended less than half a round of the clock ago.
Due(t) ==
  2 * ((current_clock - (etimer[t].start + etimer[t].interval)) % ClockWrap) < ClockWrap

\* No expiry is missed: when a timer on the list is due, etimer_process is asked for,
\* whatever timers were added, stopped, moved on or removed with their process, and
\* wherever ticks fell into update_time (etimer.c:57).  Timers move forward, and the
\* clock has not wrapped.
NoExpiryMissed ==
  CanCall => \A t \in ToSet(timerlist) : Due(t) => poll

\* A timer that is due is served with the next tick at the latest, also when the clock
\* wraps and when etimer_adjust moves timers back: "Must calculate distance to next
\* time into account due to wraps" (etimer.c:68); etimer_adjust takes an int, "The time
\* difference to adjust the expiration time with" (etimer.h).
ServedNextTick ==
  CanCall => \A t \in ToSet(timerlist) : Due(t) => poll \/ next_expiration <= current_clock + 1
=============================================================================
