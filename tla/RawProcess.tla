----------------------------- MODULE RawProcess -----------------------------
(***************************************************************************)
(* Protothread processes (extension/protothread/process.c): one task calls *)
(* process_run, which polls processes and delivers one event of a ring;    *)
(* interrupt handlers post events and ask for polls.  Threads call each    *)
(* other in a nested way: the calls under way are the frames of a stack,   *)
(* the innermost first.  next is kept in a process that has left the list, *)
(* as loops that stand at it go on from there.                             *)
(***************************************************************************)
EXTENDS Integers, Sequences, SequencesExt, FiniteSetsExt

CONSTANTS
  Proc, Null,
  Sig,          \* the events that are posted
  NumEvents,    \* PROCESS_CONF_NUMEVENTS
  Receiver,     \* bound: whom events are posted to: processes, or Null for all of them
  ProcNest,     \* bound: frames on the stack
  IntPosts,     \* bound: whether interrupt handlers post while a task posts
  Careful       \* bound: whether process_exit is called with the care below

ASSUME ProcAssumption ==
  /\ Null \notin Proc /\ NumEvents \in {2, 4, 8, 16, 32, 64, 128}
  /\ Careful \in BOOLEAN
  /\ ProcNest \in Nat /\ IntPosts \in BOOLEAN /\ Receiver \subseteq Proc \cup {Null}
  /\ Sig \cap {"INIT", "POLL", "EXIT", "EXITED"} = {}

VARIABLES
  procs,      \* list head, next, state and needspoll, poll_requested, process_current
  events,     \* the ring: slots, fevent, nevents, and the static snum
  calls,      \* the stack
  posts,      \* the process_post that the task and an interrupt handler are in
  pending     \* the events posted and not delivered (no variable of the code)

procVars == <<procs, events, calls, posts, pending>>

NoEv == [ev |-> "none", to |-> Null]
Frame(op, p, ev) == [op |-> op, p |-> p, ev |-> ev, q |-> Null, from |-> Null, old |-> Null]
Poster2 == {"task", "int"}

\* process_init.
ProcInit ==
  /\ procs = [list |-> Null, next |-> [p \in Proc |-> Null], state |-> [p \in Proc |-> "NONE"],
              needspoll |-> [p \in Proc |-> FALSE], poll_requested |-> 0, current |-> Null]
  /\ events = [slot |-> [i \in 0 .. NumEvents - 1 |-> NoEv], fevent |-> 0, nevents |-> 0, snum |-> 0]
  /\ calls = <<>> /\ posts = [c \in Poster2 |-> NoEv] /\ pending = <<>>

\* The processes on the list.
process_chain[n \in Nat] ==
  IF n = 0 THEN procs.list
  ELSE LET p == process_chain[n - 1] IN IF p = Null THEN Null ELSE procs.next[p]
listed == {process_chain[n] : n \in 0 .. Cardinality(Proc) - 1} \ {Null}

top == Head(calls)
rest == Tail(calls)
Doing(op) == calls # <<>> /\ top.op = op

\* Nobody interrupts a handler of an interrupt.
TaskRuns == posts["int"] = NoEv

\* call_process: a process that is not RUNNING (CALLED has another bit) is not called.
call_process(P, stack, p, ev) ==
  IF P.state[p] = "RUNNING"
  THEN /\ procs' = [P EXCEPT !.current = p, !.state[p] = "CALLED"]
       /\ calls' = <<Frame("thread", p, ev)>> \o stack
  ELSE procs' = P /\ calls' = stack

\* exit_process up to its first loop: a process that is not listed is left alone.
exit_process(P, stack, p, from) ==
  IF p \notin listed THEN procs' = P /\ calls' = stack
  ELSE /\ procs' = [P EXCEPT !.state[p] = "NONE"]
       /\ calls' = <<[Frame(IF P.state[p] = "NONE" THEN "unlink" ELSE "exiting", p, "EXITED")
                        EXCEPT !.q = P.list, !.from = from, !.old = P.current]>> \o stack

\* The loop over the others, that each get PROCESS_EVENT_EXITED.
exit_loop ==
  /\ Doing("exiting") /\ TaskRuns
  /\ LET f == top
     IN  CASE f.q = Null -> procs' = procs /\ calls' = <<[f EXCEPT !.op = "last"]>> \o rest
           [] f.q = f.p  -> procs' = procs /\ calls' = <<[f EXCEPT !.q = procs.next[f.q]]>> \o rest
           [] OTHER      -> call_process(procs, <<[f EXCEPT !.op = "exited"]>> \o rest, f.q, "EXITED")
  /\ UNCHANGED <<events, posts, pending>>

exit_next ==
  /\ Doing("exited") /\ TaskRuns
  /\ calls' = <<[top EXCEPT !.op = "exiting", !.q = procs.next[top.q]]>> \o rest
  /\ UNCHANGED <<procs, events, posts, pending>>

\* A process that another one exits runs once more, with PROCESS_EVENT_EXIT.
exit_last ==
  /\ Doing("last") /\ TaskRuns
  /\ LET f == [top EXCEPT !.op = "unlink"]
     IN  IF f.p = f.from THEN procs' = procs /\ calls' = <<f>> \o rest
         ELSE /\ procs' = [procs EXCEPT !.current = f.p]
              /\ calls' = <<Frame("farewell", f.p, "EXIT"), f>> \o rest
  /\ UNCHANGED <<events, posts, pending>>

\* Mutant: the process stays on the list.
exit_unlink_Forgotten ==
  /\ Doing("unlink") /\ TaskRuns
  /\ procs' = [procs EXCEPT !.current = top.old]
  /\ calls' = rest
  /\ UNCHANGED <<events, posts, pending>>

exit_unlink ==
  /\ Doing("unlink") /\ TaskRuns
  /\ LET p == top.p
         before == {q \in listed : procs.next[q] = p}
     IN  procs' = [procs EXCEPT !.current = top.old,
                     !.list = IF @ = p THEN procs.next[p] ELSE @,
                     !.next = [q \in Proc |-> IF procs.list # p /\ q \in before THEN @[p] ELSE @[q]]]
  /\ calls' = rest
  /\ UNCHANGED <<events, posts, pending>>

\* A thread returns to call_process: it yields, or it ends.
thread_returns ==
  /\ Doing("thread") /\ TaskRuns /\ posts["task"] = NoEv
  /\ LET p == top.p
     IN  \/ exit_process(procs, rest, p, p)
         \/ /\ top.ev # "EXIT" /\ (Careful => procs.state[p] = "CALLED")
            /\ procs' = [procs EXCEPT !.state[p] = "RUNNING"] /\ calls' = rest
  /\ UNCHANGED <<events, posts, pending>>

farewell_returns ==
  /\ Doing("farewell") /\ TaskRuns /\ posts["task"] = NoEv
  /\ calls' = rest
  /\ UNCHANGED <<procs, events, posts, pending>>

\* What a thread, or the task between two process_run, may do.
MayCall ==
  /\ TaskRuns /\ posts["task"] = NoEv /\ Len(calls) < ProcNest
  /\ \/ calls = <<>> \/ Doing("farewell")
     \/ Doing("thread") /\ (Careful => procs.state[top.p] = "CALLED")

synch(P) == <<[Frame("synch", Null, "none") EXCEPT !.old = P.current]>> \o calls

\* A process that is listed is not started again.
process_start(p) ==
  /\ MayCall /\ p \notin listed
  /\ LET P == [procs EXCEPT !.next[p] = procs.list, !.list = p, !.state[p] = "RUNNING"]
     IN  call_process(P, synch(P), p, "INIT")
  /\ UNCHANGED <<events, posts, pending>>

process_post_synch(p, ev) ==
  /\ MayCall
  /\ call_process(procs, synch(procs), p, ev)
  /\ UNCHANGED <<events, posts, pending>>

synch_returns ==
  /\ Doing("synch") /\ TaskRuns
  /\ procs' = [procs EXCEPT !.current = top.old] /\ calls' = rest
  /\ UNCHANGED <<events, posts, pending>>

\* Of itself, of a thread that called it, of any other process.  Careful: a
\* thread exits itself as its last act, so that it calls nothing more and ends
\* (it does not yield), and no thread that called it nor a process that is exiting.
process_exit(p) ==
  /\ MayCall /\ p \in listed
  /\ Careful => procs.state[p] = "RUNNING" \/ (Doing("thread") /\ top.p = p)
  /\ exit_process(procs, calls, p, procs.current)
  /\ UNCHANGED <<events, posts, pending>>

\* By a thread or an interrupt handler.  Bound: one request at a time.
process_poll(p) ==
  /\ TaskRuns /\ procs.state[p] # "NONE" /\ procs.poll_requested = 0
  /\ procs' = [procs EXCEPT !.needspoll[p] = TRUE, !.poll_requested = @ + 1]
  /\ UNCHANGED <<events, calls, posts, pending>>

\* process_post in its critical section.  Bound: no post to a full ring, which
\* RAW_ASSERT stops.
process_post(c, p, ev) ==
  /\ posts[c] = NoEv /\ events.nevents < NumEvents
  /\ c = "task" => MayCall /\ calls # <<>>
  /\ c = "int" /\ ~ IntPosts => posts["task"] = NoEv
  /\ events' = [events EXCEPT !.snum = (events.fevent + events.nevents) % NumEvents, !.nevents = @ + 1]
  /\ posts' = [posts EXCEPT ![c] = [ev |-> ev, to |-> p]]
  /\ UNCHANGED <<procs, calls, pending>>

\* After it: the slot is found by snum, which is static.
fill_slot(c) ==
  /\ posts[c] # NoEv /\ (c = "task" => TaskRuns)
  /\ events' = [events EXCEPT !.slot[events.snum] = posts[c]]
  /\ pending' = Append(pending, posts[c])
  /\ posts' = [posts EXCEPT ![c] = NoEv]
  /\ UNCHANGED <<procs, calls>>

\* process_run: do_poll, if there are requests, and then do_event.
process_run ==
  /\ calls = <<>> /\ TaskRuns
  /\ IF procs.poll_requested = 0 THEN procs' = procs /\ calls' = <<Frame("event", Null, "none")>>
     ELSE /\ procs' = [procs EXCEPT !.poll_requested = @ - 1]
          /\ calls' = <<Frame("poll", procs.list, "POLL"), Frame("event", Null, "none")>>
  /\ UNCHANGED <<events, posts, pending>>

\* do_poll at one process of the list.
do_poll ==
  /\ Doing("poll") /\ TaskRuns
  /\ LET p == top.p
         next == <<[top EXCEPT !.op = "polled"]>> \o rest
     IN  IF p = Null THEN procs' = procs /\ calls' = rest
         ELSE IF ~ procs.needspoll[p] THEN procs' = procs /\ calls' = next
         ELSE call_process([procs EXCEPT !.state[p] = "RUNNING", !.needspoll[p] = FALSE], next, p, "POLL")
  /\ UNCHANGED <<events, posts, pending>>

poll_next ==
  /\ Doing("polled") /\ TaskRuns
  /\ calls' = <<[top EXCEPT !.op = "poll", !.p = procs.next[top.p]]>> \o rest
  /\ UNCHANGED <<procs, events, posts, pending>>

\* do_event takes the first event of the ring.  A slot without an event is not
\* read; NoEv stands for what it held.
do_event ==
  /\ Doing("event") /\ TaskRuns
  /\ IF events.nevents = 0 THEN calls' = rest /\ UNCHANGED <<procs, events, pending>>
     ELSE LET e == events.slot[events.fevent]
          IN  /\ events' = [events EXCEPT !.slot[events.fevent] = NoEv,
                                       !.fevent = (@ + 1) % NumEvents, !.nevents = @ - 1]
              /\ pending' = RemoveFirst(pending, e)
              /\ IF e.to = Null
                 THEN procs' = procs /\ calls' = <<Frame("deliver", procs.list, e.ev)>> \o rest
                 ELSE call_process(procs, rest, e.to, e.ev)
  /\ UNCHANGED posts

\* A broadcast at one process of the list: requested polls go first.
broadcast ==
  /\ Doing("deliver") /\ TaskRuns
  /\ LET p == top.p
     IN  IF p = Null THEN procs' = procs /\ calls' = rest
         ELSE IF procs.poll_requested # 0
         THEN /\ procs' = [procs EXCEPT !.poll_requested = @ - 1]
              /\ calls' = <<Frame("poll", procs.list, "POLL"), [top EXCEPT !.op = "call"]>> \o rest
         ELSE call_process(procs, <<[top EXCEPT !.op = "delivered"]>> \o rest, p, top.ev)
  /\ UNCHANGED <<events, posts, pending>>

broadcast_call ==
  /\ Doing("call") /\ TaskRuns
  /\ call_process(procs, <<[top EXCEPT !.op = "delivered"]>> \o rest, top.p, top.ev)
  /\ UNCHANGED <<events, posts, pending>>

broadcast_next ==
  /\ Doing("delivered") /\ TaskRuns
  /\ calls' = <<[top EXCEPT !.op = "deliver", !.p = procs.next[top.p]]>> \o rest
  /\ UNCHANGED <<procs, events, posts, pending>>

ProcNext ==
  \/ exit_loop \/ exit_next \/ exit_last \/ exit_unlink
  \/ thread_returns \/ farewell_returns \/ synch_returns
  \/ process_run \/ do_poll \/ poll_next \/ do_event
  \/ broadcast \/ broadcast_call \/ broadcast_next
  \/ \E p \in Proc :
       \/ process_start(p) \/ process_exit(p) \/ process_poll(p)
       \/ \E ev \in Sig : process_post_synch(p, ev)
  \/ \E c \in Poster2 :
       \/ fill_slot(c)
       \/ \E p \in Receiver, ev \in Sig : process_post(c, p, ev)

ProcSpec == ProcInit /\ [][ProcNext]_procVars

-----------------------------------------------------------------------------

Frames(op, p) == {i \in DOMAIN calls : calls[i].op = op /\ calls[i].p = p}

\* A thread is never called while it runs, but for its farewell; a process is
\* CALLED only while its thread runs and not RUNNING then, and is on the list
\* exactly until it has exited, also when it is its own thread that exits it: no
\* process is lost or called after it is gone.  It takes a Careful process_exit.
ProcessesOK ==
  \A p \in Proc :
    LET exit == UNION {Frames(op, p) : op \in {"exiting", "exited", "last", "unlink"}}
    IN  /\ Cardinality(Frames("thread", p)) <= 1
        /\ procs.state[p] = "CALLED" => Frames("thread", p) # {}
        /\ Frames("thread", p) # {} => procs.state[p] # "RUNNING"
        /\ procs.state[p] # "NONE" => p \in listed
        /\ p \in listed /\ procs.state[p] = "NONE" <=> exit # {}

\* The ring holds the events that were posted and not delivered.
EventsKept ==
  posts = [c \in Poster2 |-> NoEv] =>
    LET ring == [i \in 1 .. events.nevents |-> events.slot[(events.fevent + i - 1) % NumEvents]]
    IN  \A e \in Range(ring) \cup Range(pending) :
          Cardinality({i \in DOMAIN ring : ring[i] = e}) = Cardinality({i \in DOMAIN pending : pending[i] = e})
=============================================================================
