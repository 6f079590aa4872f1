---------------------------- MODULE RawIdleEvent ----------------------------
(***************************************************************************)
(* Idle events (raw_idle_event.c): objects with a ring of events each,     *)
(* numbered by urgency (0 first), that the idle task serves to completion  *)
(* one event at a time.  Which objects have events is kept in a bitmap of  *)
(* rows and columns.  Tasks and interrupt handlers post; each post and     *)
(* each choice of idle_run is one critical section.                        *)
(***************************************************************************)
EXTENDS Integers, Sequences, SequencesExt, FiniteSetsExt

CONSTANTS
  IdleMax,     \* MAX_IDLE_EVENT_TASK: the objects are 0 .. IdleMax - 1
  IdleWidth,   \* columns of a row of raw_rdy_tbl: 8 in the code
  IdleEnd,     \* end: the slots of each ring
  IdleSig,     \* the signals posted
  TimeoutSig,  \* STM_TIMEOUT_SIG
  NoIdleEvent,
  IdlePosted,  \* bound: the objects that get events
  IdleTicks    \* bound: the values an application loads into tick_ctr

ASSUME IdleAssumption ==
  /\ IdleMax \in Nat \ {0} /\ IdleWidth \in Nat \ {0} /\ IdleEnd \in 1 .. 255
  /\ IdlePosted \subseteq 0 .. IdleMax - 1
  /\ NoIdleEvent \notin IdleSig \cup {TimeoutSig} /\ IdleTicks \subseteq Nat \ {0}
  /\ NoIdleEvent \notin [obj : 0 .. IdleMax - 1, sig : IdleSig \cup {TimeoutSig, NoIdleEvent}]

IdleObj == 0 .. IdleMax - 1
IdleRow == 0 .. (IdleMax - 1) \div IdleWidth

VARIABLES
  idle,        \* the objects, their rings, the bitmap and the list of those that count
  idle_iter,   \* what idle_tick_isr has still to go over
  idle_event   \* what idle_run executes: an object and an event, or NoIdleEvent

idleVars == <<idle, idle_iter, idle_event>>

\* idle_event_init.  A slot that holds no event is not read; NoIdleEvent stands for it.
IdleInit ==
  /\ idle = [head |-> [a \in IdleObj |-> 0], tail |-> [a \in IdleObj |-> 0],
             nUsed |-> [a \in IdleObj |-> 0], tick_ctr |-> [a \in IdleObj |-> 0],
             queue |-> [a \in IdleObj |-> [i \in 0 .. IdleEnd - 1 |-> NoIdleEvent]],
             rdy_tbl |-> [x \in IdleRow |-> {}], rdy_grp |-> {}, tick_head |-> <<>>]
  /\ idle_iter = <<>> /\ idle_event = NoIdleEvent

\* The object gets ready with its first event.
set_ready(I, a) ==
  IF I.nUsed[a] # 1 THEN I
  ELSE [I EXCEPT !.rdy_grp = @ \cup {a \div IdleWidth},
                 !.rdy_tbl[a \div IdleWidth] = @ \cup {a % IdleWidth}]

put_end(I, a, sig) ==
  [I EXCEPT !.queue[a][I.head[a]] = sig, !.head[a] = (@ + 1) % IdleEnd, !.nUsed[a] = @ + 1]

\* Mutant: the front slot does not wrap to the end of the ring.
put_front_NoWrap(I, a, sig) ==
  LET slot == IF I.tail[a] = 0 THEN 0 ELSE I.tail[a] - 1
  IN  [I EXCEPT !.queue[a][slot] = sig, !.tail[a] = slot, !.nUsed[a] = @ + 1]

put_front(I, a, sig) ==
  LET slot == (IF I.tail[a] = 0 THEN IdleEnd ELSE I.tail[a]) - 1
  IN  [I EXCEPT !.queue[a][slot] = sig, !.tail[a] = slot, !.nUsed[a] = @ + 1]

\* event_post to the end; a full ring refuses the event.
event_post_end(I, a, sig) ==
  IF I.nUsed[a] = IdleEnd THEN I ELSE set_ready(put_end(I, a, sig), a)

event_post_front(I, a, sig) ==
  IF I.nUsed[a] = IdleEnd THEN I ELSE set_ready(put_front(I, a, sig), a)

idle_event_post(a, sig) ==
  /\ idle' \in {event_post_end(idle, a, sig), event_post_front(idle, a, sig)}
  /\ UNCHANGED <<idle_iter, idle_event>>

\* The application loads tick_ctr of an object and links it.
idle_arm(a, n) ==
  /\ idle_iter = <<>> /\ ~ Contains(idle.tick_head, a)
  /\ idle' = [idle EXCEPT !.tick_ctr[a] = n, !.tick_head = Append(@, a)]
  /\ UNCHANGED <<idle_iter, idle_event>>

idle_tick_isr ==
  /\ idle_iter = <<>> /\ idle.tick_head # <<>>
  /\ idle_iter' = idle.tick_head
  /\ UNCHANGED <<idle, idle_event>>

count_down(I, a) ==
  IF I.tick_ctr[a] = 0 THEN I
  ELSE LET J == [I EXCEPT !.tick_ctr[a] = @ - 1]
       IN  IF J.tick_ctr[a] # 0 THEN J
           ELSE event_post_end([J EXCEPT !.tick_head = RemoveFirst(@, a)], a, TimeoutSig)

\* One turn of the loop of idle_tick_isr: iter_temp is read before the object
\* can leave the list.  Handlers of more urgent interrupts post in between.
idle_tick_step ==
  /\ idle_iter # <<>>
  /\ idle' = count_down(idle, Head(idle_iter))
  /\ idle_iter' = Tail(idle_iter)
  /\ UNCHANGED idle_event

\* raw_idle_map_table: IdleWidth times the first bit that is set.
idle_map_table(bits) == IF bits = {} THEN 0 ELSE IdleWidth * Min(bits)

idle_high_priority(I) ==
  LET y == idle_map_table(I.rdy_grp)
  IN  y + idle_map_table(I.rdy_tbl[y \div IdleWidth])

\* nUsed is an 8-bit counter.
take_event(I, a) ==
  LET x == a \div IdleWidth
      J == [I EXCEPT !.nUsed[a] = (@ - 1) % 256, !.queue[a][I.tail[a]] = NoIdleEvent,
                     !.tail[a] = (@ + 1) % IdleEnd]
      row == I.rdy_tbl[x] \ {a % IdleWidth}
  IN  IF J.nUsed[a] # 0 THEN J
      ELSE [J EXCEPT !.rdy_tbl[x] = row,
                     !.rdy_grp = IF row = {} THEN @ \ {x} ELSE @]

\* The idle task takes the next event.
idle_run ==
  /\ idle_iter = <<>> /\ idle_event = NoIdleEvent /\ idle.rdy_grp # {}
  /\ LET a == idle_high_priority(idle)
     IN  /\ idle_event' = [obj |-> a, sig |-> idle.queue[a][idle.tail[a]]]
         /\ idle' = take_event(idle, a)
  /\ UNCHANGED idle_iter

\* fsm_exceute or hsm_exceute of the object returns.
idle_executed ==
  /\ idle_iter = <<>> /\ idle_event # NoIdleEvent
  /\ idle_event' = NoIdleEvent
  /\ UNCHANGED <<idle, idle_iter>>

IdleNext ==
  \/ \E a \in IdlePosted, sig \in IdleSig : idle_event_post(a, sig)
  \/ \E a \in IdlePosted, n \in IdleTicks : idle_arm(a, n)
  \/ idle_tick_isr \/ idle_tick_step
  \/ idle_run \/ idle_executed

IdleSpec == IdleInit /\ [][IdleNext]_idleVars

-----------------------------------------------------------------------------

idle_contents(I, a) ==
  [i \in 1 .. I.nUsed[a] |-> I.queue[a][(I.tail[a] + i - 1) % IdleEnd]]

\* idle_run executes the first event of the most urgent object that has one, and
\* no event leaves a ring in another way: none is lost, repeated or overtaken.
ServesMostUrgent ==
  [][ LET taken == idle_event = NoIdleEvent /\ idle_event' # NoIdleEvent
          ready == {a \in IdleObj : idle_contents(idle, a) # <<>>}
      IN  idle' # idle \/ idle_event' # idle_event =>
            /\ taken => ready # {} /\ idle_event'.obj = Min(ready)
            /\ \A a \in IdleObj :
                 LET old == idle_contents(idle, a)
                     new == idle_contents(idle', a)
                 IN  IF taken /\ a = idle_event'.obj THEN old = <<idle_event'.sig>> \o new
                     ELSE \/ new = old
                          \/ \E sig \in IdleSig \cup {TimeoutSig} :
                               new \in {Append(old, sig), <<sig>> \o old}
    ]_idleVars
=============================================================================
