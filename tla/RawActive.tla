------------------------------ MODULE RawActive ------------------------------
(***************************************************************************)
(* Active objects (extension/rf): a task with a message queue of events    *)
(* that executes one event at a time.  Events from a pool are counted: a   *)
(* post counts one reference up, the end of an execution one down, and the *)
(* last one gives the block back.  Tasks preempt one another between any   *)
(* two critical sections, so the receiver may execute an event, and        *)
(* collect it, before the call that posted it goes on.  raw_queue is       *)
(* modelled by what AbsQueue promises, raw_block by a set of free blocks,  *)
(* raw_timer by what AbsTimer promises.  RAW_ASSERT stops the system.      *)
(***************************************************************************)
EXTENDS Integers, Sequences, SequencesExt, FiniteSetsExt

CONSTANTS
  Actor,        \* the active objects
  Client,       \* other tasks that make and post events
  PoolEvent,    \* the blocks of the event pool
  TimeEvent,    \* the time events, which belong to no pool
  NoEvent,
  ActorQSize,   \* messages that fit into the queue of an active object
  Deferrable,   \* bound: the events that handlers defer
  Timed,        \* bound: the objects that time events are for
  Reposted      \* bound: the time events that handlers post themselves

ASSUME ActiveAssumption ==
  /\ IsFiniteSet(Actor \cup Client) /\ Actor \cap Client = {}
  /\ PoolEvent \cap TimeEvent = {}
  /\ NoEvent \notin PoolEvent \cup TimeEvent
  /\ ActorQSize \in Nat \ {0}
  /\ Deferrable \subseteq PoolEvent \cup TimeEvent /\ Reposted \subseteq TimeEvent
  /\ Timed \subseteq Actor

Poster == Actor \cup Client
StateEvent == PoolEvent \cup TimeEvent

VARIABLES
  active_queue,  \* the events posted to each object
  deferred,      \* the queue in which each object defers events
  user_data,     \* the objects that are not deleted
  executing,     \* the event each object executes
  held,          \* the event a client has allocated and not posted
  posting,       \* the posts, broadcasts and collections under way
  ref_count,
  pool_free,     \* the free blocks
  listeners,     \* active_queue_head of the one signal that is broadcast
  timed,         \* the time events: whether each is armed, once or not, for whom
  lost,          \* how often each is in the queue of a deleted object (not in the code)
  asserted       \* RAW_ASSERT failed

activeVars == <<active_queue, deferred, user_data, executing, held, posting, ref_count,
                pool_free, listeners, timed, lost, asserted>>

NoPost == [op |-> "none", event |-> NoEvent, to |-> <<>>, front |-> FALSE, guard |-> FALSE]
Off == [on |-> FALSE]

\* active_object_create and active_broadcast_queue_init.
ActiveInit ==
  /\ active_queue = [o \in Actor |-> <<>>] /\ deferred = [o \in Actor |-> <<>>]
  /\ user_data = Actor /\ executing = [o \in Actor |-> NoEvent]
  /\ held = [p \in Client |-> NoEvent] /\ posting = [p \in Poster |-> NoPost]
  /\ ref_count = [e \in PoolEvent |-> 0] /\ pool_free = PoolEvent
  /\ listeners = <<>> /\ timed = [e \in TimeEvent |-> Off]
  /\ lost = [e \in PoolEvent |-> 0] /\ asserted = FALSE

objectVars == <<active_queue, deferred, user_data, executing>>
poolVars == <<ref_count, pool_free>>

\* An active object may call while it executes an event, a client at any time.
Free(p) == posting[p] = NoPost /\ (p \in Actor => executing[p] # NoEvent)

\* The events a caller has: the one it executes, or the one it allocated.
Has(p) == IF p \in Actor THEN executing[p] ELSE held[p]

\* Bound: a time event is outstanding once.
outstanding(e) ==
  \/ \E o \in Actor : executing[o] = e \/ Contains(active_queue[o], e) \/ Contains(deferred[o], e)
  \/ \E p \in Poster : posting[p].event = e

may_post(p) == Free(p) /\ Has(p) \in PoolEvent \cup Reposted

counted_up(e) == IF e \in PoolEvent THEN [ref_count EXCEPT ![e] = @ + 1] ELSE ref_count

active_event_memory_allocate(p) ==
  /\ p \in Client /\ posting[p] = NoPost /\ held[p] = NoEvent
  /\ \E e \in pool_free :
       /\ pool_free' = pool_free \ {e}
       /\ ref_count' = [ref_count EXCEPT ![e] = 0]
       /\ held' = [held EXCEPT ![p] = e]
  /\ UNCHANGED <<objectVars, posting, listeners, timed, lost, asserted>>

\* A client gives its event away with the call that posts it.
give_away(p) == held' = IF p \in Client THEN [held EXCEPT ![p] = NoEvent] ELSE held

\* active_event_post_end and _front: the reference is counted first.
active_event_post(p, o, front) ==
  /\ may_post(p)
  /\ ref_count' = counted_up(Has(p))
  /\ posting' = [posting EXCEPT ![p] =
       [op |-> "post", event |-> Has(p), to |-> <<o>>, front |-> front, guard |-> FALSE]]
  /\ give_away(p)
  /\ UNCHANGED <<objectVars, pool_free, listeners, timed, lost, asserted>>

\* Mutant: the broadcast has no reference of its own.
active_queue_event_broadcast_Unguarded(p) ==
  /\ may_post(p)
  /\ UNCHANGED ref_count
  /\ posting' = [posting EXCEPT ![p] =
       IF listeners = <<>> THEN NoPost
       ELSE [op |-> "ref", event |-> Has(p), to |-> listeners, front |-> FALSE, guard |-> FALSE]]
  /\ give_away(p)
  /\ UNCHANGED <<objectVars, pool_free, listeners, timed, lost, asserted>>

\* A broadcast holds a reference of its own while it posts.
active_queue_event_broadcast(p) ==
  /\ may_post(p)
  /\ ref_count' = counted_up(Has(p))
  /\ posting' = [posting EXCEPT ![p] =
       [op |-> IF listeners = <<>> THEN "collect" ELSE "ref",
        event |-> Has(p), to |-> listeners, front |-> FALSE, guard |-> TRUE]]
  /\ give_away(p)
  /\ UNCHANGED <<objectVars, pool_free, listeners, timed, lost, asserted>>

\* The next active_event_post_end of a broadcast counts its reference.
count_reference(p) ==
  /\ posting[p].op = "ref"
  /\ ref_count' = counted_up(posting[p].event)
  /\ posting' = [posting EXCEPT ![p].op = "post"]
  /\ UNCHANGED <<objectVars, held, pool_free, listeners, timed, lost, asserted>>

queue_refuses(o) == o \notin user_data \/ Len(active_queue[o]) = ActorQSize

after_post(P) ==
  IF Len(P.to) > 1 THEN [P EXCEPT !.op = "ref", !.to = Tail(@)]
  ELSE IF P.guard THEN [P EXCEPT !.op = "collect", !.to = <<>>] ELSE NoPost

\* raw_queue_end_post or raw_queue_front_post of a post under way.
post_to_queue(p) ==
  /\ posting[p].op = "post"
  /\ LET P == posting[p]
         o == Head(P.to)
     IN  IF queue_refuses(o) THEN asserted' = TRUE /\ UNCHANGED <<active_queue, posting>>
         ELSE /\ active_queue' = [active_queue EXCEPT ![o] =
                   IF P.front THEN <<P.event>> \o @ ELSE Append(@, P.event)]
              /\ posting' = [posting EXCEPT ![p] = after_post(P)]
              /\ UNCHANGED asserted
  /\ UNCHANGED <<deferred, user_data, executing, held, poolVars, listeners, timed, lost>>

\* active_task_function: active_event_get, then hsm_exceute.
active_event_get(o) ==
  /\ o \in user_data /\ executing[o] = NoEvent /\ posting[o] = NoPost
  /\ active_queue[o] # <<>>
  /\ executing' = [executing EXCEPT ![o] = Head(active_queue[o])]
  /\ active_queue' = [active_queue EXCEPT ![o] = Tail(@)]
  /\ UNCHANGED <<deferred, user_data, held, posting, poolVars, listeners, timed, lost, asserted>>

\* hsm_exceute returns, and active_memory_collect begins.
executed(o) ==
  /\ executing[o] # NoEvent /\ posting[o] = NoPost
  /\ posting' = [posting EXCEPT ![o] =
       [op |-> "collect", event |-> executing[o], to |-> <<>>, front |-> FALSE, guard |-> TRUE]]
  /\ executing' = [executing EXCEPT ![o] = NoEvent]
  /\ UNCHANGED <<active_queue, deferred, user_data, held, poolVars, listeners, timed, lost, asserted>>

\* active_memory_collect: the last reference is not counted down.
active_memory_collect(p) ==
  /\ posting[p].op = "collect"
  /\ LET e == posting[p].event
     IN  IF e \notin PoolEvent
         THEN posting' = [posting EXCEPT ![p] = NoPost] /\ UNCHANGED ref_count
         ELSE IF ref_count[e] > 1
         THEN /\ ref_count' = [ref_count EXCEPT ![e] = @ - 1]
              /\ posting' = [posting EXCEPT ![p] = NoPost]
         ELSE posting' = [posting EXCEPT ![p].op = "release"] /\ UNCHANGED ref_count
  /\ UNCHANGED <<objectVars, held, pool_free, listeners, timed, lost, asserted>>

\* It asserts that the count is 1, outside of the critical section, and releases
\* the block.  The count of a free block is not read.
release_event(p) ==
  /\ posting[p].op = "release"
  /\ LET e == posting[p].event
     IN  IF ref_count[e] # 1 THEN asserted' = TRUE /\ UNCHANGED <<poolVars, posting>>
         ELSE /\ pool_free' = pool_free \cup {e}
              /\ ref_count' = [ref_count EXCEPT ![e] = 0]
              /\ posting' = [posting EXCEPT ![p] = NoPost]
              /\ UNCHANGED asserted
  /\ UNCHANGED <<objectVars, held, listeners, timed, lost>>

\* A handler puts the event it executes into its deferred queue.  No reference
\* is counted.
active_event_defer_post(o) ==
  /\ Free(o) /\ executing[o] \in Deferrable
  /\ IF Len(deferred[o]) = ActorQSize THEN asserted' = TRUE /\ UNCHANGED deferred
     ELSE deferred' = [deferred EXCEPT ![o] = Append(@, executing[o])] /\ UNCHANGED asserted
  /\ UNCHANGED <<active_queue, user_data, executing, held, posting, poolVars, listeners, timed, lost>>

\* The first deferred event goes to the front of the queue of the object.
active_event_recall(o) ==
  /\ Free(o) /\ deferred[o] # <<>>
  /\ LET e == Head(deferred[o])
     IN  /\ ref_count' = counted_up(e)
         /\ posting' = [posting EXCEPT ![o] =
              [op |-> "post", event |-> e, to |-> <<o>>, front |-> TRUE, guard |-> FALSE]]
  /\ deferred' = [deferred EXCEPT ![o] = Tail(@)]
  /\ UNCHANGED <<active_queue, user_data, executing, held, pool_free, listeners, timed, lost, asserted>>

occurrences(e, s) == Cardinality({i \in DOMAIN s : s[i] = e})

\* Where the loop of active_task_function is after its test of user_data.
gets(o) == executing[o] = NoEvent /\ posting[o] = NoPost

\* By a handler of the object or another task.  An object that has an event goes on
\* and its loop ends when the event is collected; one that is in active_event_get,
\* or has passed the test before it, gets an error there.  A second delete asserts.
\* Bound: nobody comes between the two calls of a delete.
active_object_delete(p, o) ==
  /\ Free(p)
  /\ IF o \notin user_data
     THEN asserted' = TRUE /\ UNCHANGED <<user_data, lost, active_queue, posting>>
     ELSE /\ user_data' = user_data \ {o}
          /\ lost' = [e \in PoolEvent |-> lost[e] + occurrences(e, active_queue[o])]
          /\ active_queue' = [active_queue EXCEPT ![o] = <<>>]
          /\ posting' = IF gets(o) THEN [posting EXCEPT ![o].op = "error"] ELSE posting
          /\ UNCHANGED asserted
  /\ UNCHANGED <<deferred, executing, held, poolVars, listeners, timed>>

\* active_event_get asserts that raw_queue_receive had no error.
active_event_get_error(o) ==
  /\ posting[o].op = "error"
  /\ asserted' = TRUE
  /\ UNCHANGED <<objectVars, held, posting, poolVars, listeners, timed, lost>>

\* Bound: nobody registers or unregisters while an event is broadcast.
no_broadcast == \A p \in Poster : posting[p].guard => posting[p].to = <<>>

active_broadcast_queue_register(o) ==
  /\ no_broadcast /\ ~ Contains(listeners, o)
  /\ listeners' = Append(listeners, o)
  /\ UNCHANGED <<objectVars, held, posting, poolVars, timed, lost, asserted>>

active_broadcast_queue_unregister(o) ==
  /\ no_broadcast /\ Contains(listeners, o)
  /\ listeners' = RemoveFirst(listeners, o)
  /\ UNCHANGED <<objectVars, held, posting, poolVars, timed, lost, asserted>>

\* raw_timer_activate refuses a timer that is active, and that is an assertion.
active_time_event_fire(p, e, o, once) ==
  /\ Free(p)
  /\ IF timed[e].on THEN asserted' = TRUE /\ UNCHANGED timed
     ELSE timed' = [timed EXCEPT ![e] = [on |-> TRUE, once |-> once, object |-> o]]
          /\ UNCHANGED asserted
  /\ UNCHANGED <<objectVars, held, posting, poolVars, listeners, lost>>

\* The timer task calls active_time_event_post: no reference is counted.
active_time_event_post(e) ==
  /\ timed[e].on /\ ~ outstanding(e)
  /\ LET o == timed[e].object
     IN  IF queue_refuses(o) THEN asserted' = TRUE /\ UNCHANGED <<active_queue, timed>>
         ELSE /\ active_queue' = [active_queue EXCEPT ![o] = Append(@, e)]
              /\ timed' = IF timed[e].once THEN [timed EXCEPT ![e] = Off] ELSE timed
              /\ UNCHANGED asserted
  /\ UNCHANGED <<deferred, user_data, executing, held, posting, poolVars, listeners, lost>>

active_time_event_deactivate(p, e) ==
  /\ Free(p) /\ timed[e].on
  /\ timed' = [timed EXCEPT ![e] = Off]
  /\ UNCHANGED <<objectVars, held, posting, poolVars, listeners, lost, asserted>>

ActiveNext ==
  /\ ~ asserted
  /\ \/ \E p \in Poster :
          \/ active_event_memory_allocate(p) \/ active_queue_event_broadcast(p)
          \/ count_reference(p) \/ post_to_queue(p)
          \/ active_memory_collect(p) \/ release_event(p)
          \/ \E o \in Actor : active_object_delete(p, o)
               \/ \E front \in BOOLEAN : active_event_post(p, o, front)
          \/ \E e \in TimeEvent : active_time_event_deactivate(p, e)
               \/ \E o \in Timed, once \in BOOLEAN : active_time_event_fire(p, e, o, once)
     \/ \E o \in Actor :
          \/ active_event_get(o) \/ active_event_get_error(o) \/ executed(o)
          \/ active_event_defer_post(o) \/ active_event_recall(o)
          \/ active_broadcast_queue_register(o) \/ active_broadcast_queue_unregister(o)
     \/ \E e \in TimeEvent : active_time_event_post(e)

ActiveSpec == ActiveInit /\ [][ActiveNext]_activeVars

-----------------------------------------------------------------------------

\* The references to an event: its places in the queues, its executions, and the
\* calls that have counted one they have not posted, or guard the event.
references(e) ==
  LET busy == {p \in Poster : posting[p].event = e}
      slot == {x \in Actor \X (1 .. ActorQSize) : x[2] \in DOMAIN active_queue[x[1]]}
  IN    lost[e]
      + Cardinality({x \in slot : active_queue[x[1]][x[2]] = e})
      + Cardinality({o \in Actor : executing[o] = e})
      + Cardinality({p \in busy : posting[p].op = "post"})
      + Cardinality({p \in busy : posting[p].guard})

\* The events of the pool that no handler defers.
Counted == PoolEvent \ Deferrable

\* ref_count is the number of references at all times, also while a receiver
\* preempts the poster or the broadcast, or its object is deleted: a block is given
\* back exactly when its last reference goes, never while the event is in a queue or
\* executed, and never twice.  This is of the events that no handler defers.
\* What release_event asserts after the critical section still holds there.
EventRefsOK ==
  \A e \in Counted :
    /\ e \notin pool_free => ref_count[e] = references(e)
    /\ e \in pool_free => references(e) = 0 /\ \A p \in Client : held[p] # e
    /\ \A p \in Poster : posting[p].op = "release" /\ posting[p].event = e => ref_count[e] = 1

\* An event in the deferred queue of an object is still its event: nobody gives the
\* block back before the object recalls it (active_object.c:277, "called to post
\* an event to a defered queue").
DeferredIsKept ==
  \A o \in Actor, e \in PoolEvent : Contains(deferred[o], e) => e \notin pool_free
=============================================================================
