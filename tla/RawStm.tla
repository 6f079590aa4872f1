------------------------------- MODULE RawStm -------------------------------
(***************************************************************************)
(* State machines (raw_stm.c): flat ones, and hierarchical ones in which a *)
(* state knows its father.  A state is a handler function; what a handler  *)
(* does with an event is the application's: any state from the current one *)
(* up may handle it, with a transition to any state or without.  stm_calls *)
(* records the exit and entry signals the last call triggers, in order,    *)
(* and stm_active what they leave entered, outermost first.                *)
(***************************************************************************)
EXTENDS Integers, Sequences, SequencesExt, FiniteSetsExt

CONSTANTS
  StmState,    \* the states of the machine
  HsmTop,      \* hsm_top
  Father,      \* the father of each state
  InitTran,    \* where STM_INIT_SIG takes a state: to one below it, or nowhere
  NoState,
  StmMaxNest   \* STM_MAX_NEST_DEPTH: the slots of path

\* The states from one up to hsm_top.
stm_chain[x \in StmState \cup {HsmTop}] ==
  IF x = HsmTop THEN <<HsmTop>> ELSE <<x>> \o stm_chain[Father[x]]

ASSUME StmAssumption ==
  /\ HsmTop \notin StmState /\ NoState \notin StmState \cup {HsmTop}
  /\ Father \in [StmState -> StmState \cup {HsmTop}]
  /\ \A x \in StmState : /\ Last(stm_chain[x]) = HsmTop
                         /\ Len(stm_chain[x]) <= StmMaxNest
                         /\ InitTran[x] # NoState =>
                              x # InitTran[x] /\ Contains(stm_chain[InitTran[x]], x)

VARIABLES
  stm_flat,    \* the machine is a flat one
  stm_state,   \* state (and temp, between two calls); NoState before the first
  stm_calls,   \* the handler calls with STM_EXIT_SIG and STM_ENTRY_SIG of the last call
  stm_tran,    \* the source and the target of its transition, or NoState
  stm_active   \* the states entered and not exited

stmVars == <<stm_flat, stm_state, stm_calls, stm_tran, stm_active>>

StmInit ==
  /\ stm_flat \in BOOLEAN
  /\ stm_state = NoState /\ stm_calls = <<>> /\ stm_tran = NoState /\ stm_active = <<>>

Exit(seq) == [i \in DOMAIN seq |-> [sig |-> "exit", state |-> seq[i]]]
Enter(seq) == [i \in DOMAIN seq |-> [sig |-> "enter", state |-> seq[i]]]

\* The states of s before x, and the same from the outermost on.
below(s, x) == SelectSeq(s, LAMBDA y : ~ Contains(stm_chain[x], y))
path_down(target, from) == Reverse(below(stm_chain[target], from))

\* An exit of another state than the innermost one is no way back.
signalled(stack, c) ==
  IF c.sig = "enter" THEN Append(stack, c.state)
  ELSE IF stack # <<>> /\ Last(stack) = c.state THEN Front(stack)
  ELSE Append(stack, HsmTop)

finish(calls, state, tran) ==
  /\ stm_state' = state /\ stm_calls' = calls /\ stm_tran' = tran
  /\ stm_active' = FoldLeft(signalled, stm_active, calls)
  /\ UNCHANGED stm_flat

\* fsm_init: the first handler must make a transition, or the code asserts.
fsm_init(target) ==
  /\ stm_flat /\ stm_state = NoState
  /\ finish(Enter(<<target>>), target, NoState)

fsm_exceute(target) ==
  /\ stm_flat /\ stm_state # NoState
  /\ finish(Exit(<<stm_state>>) \o Enter(<<target>>), target, [from |-> stm_state, to |-> target])

\* The entries that STM_INIT_SIG leads to, one init transition after the other,
\* and where they end.
init_entries[t \in StmState] ==
  IF InitTran[t] = NoState THEN <<>>
  ELSE path_down(InitTran[t], t) \o init_entries[InitTran[t]]

init_target[t \in StmState] == IF InitTran[t] = NoState THEN t ELSE init_target[InitTran[t]]

hsm_init(target) ==
  /\ ~ stm_flat /\ stm_state = NoState
  /\ finish(Enter(path_down(target, HsmTop) \o init_entries[target]), init_target[target], NoState)

\* hsm_exceute, from the source of the transition to its target: what is exited,
\* from the innermost on, and what is entered.  The cases are those of the code:
\* the first ones need no path; else path is the chain of the target.
same_father(s, target) == Father[s] = Father[target]

\* The first state from t up that is on the chain of the target.
first_common(t, target) == SelectSeq(stm_chain[t], LAMBDA y : Contains(stm_chain[target], y))[1]

\* Mutant: the source is not exited when its father is the target.
exited_KeepsChild(s, target) ==
  IF s = target THEN <<s>>
  ELSE IF s = Father[target] \/ Father[s] = target THEN <<>>
  ELSE IF same_father(s, target) THEN <<s>>
  ELSE IF Contains(stm_chain[target], s) THEN <<>>
  ELSE <<s>> \o SelectSeq(stm_chain[Father[s]], LAMBDA y : ~ Contains(stm_chain[target], y))

exited(s, target) ==
  IF s = target THEN <<s>>
  ELSE IF s = Father[target] THEN <<>>
  ELSE IF same_father(s, target) \/ Father[s] = target THEN <<s>>
  ELSE IF Contains(stm_chain[target], s) THEN <<>>
  ELSE <<s>> \o SelectSeq(stm_chain[Father[s]], LAMBDA y : ~ Contains(stm_chain[target], y))

\* Mutant: the common state is entered as well.
entered_WithCommon(s, target) ==
  IF s = target \/ s = Father[target] \/ same_father(s, target) THEN <<target>>
  ELSE IF Father[s] = target THEN <<>>
  ELSE IF Contains(stm_chain[target], s) THEN path_down(target, s)
  ELSE LET lca == first_common(Father[s], target)
       IN  (IF lca = HsmTop THEN <<>> ELSE <<lca>>) \o path_down(target, lca)

entered(s, target) ==
  IF s = target \/ s = Father[target] \/ same_father(s, target) THEN <<target>>
  ELSE IF Father[s] = target THEN <<>>
  ELSE IF Contains(stm_chain[target], s) THEN path_down(target, s)
  ELSE path_down(target, first_common(Father[s], target))

\* The event is handled by s, a state from the current one up, with a transition
\* to target.  The states below s are exited first.
hsm_exceute(s, target) ==
  /\ ~ stm_flat /\ stm_state # NoState /\ Contains(stm_chain[stm_state], s)
  /\ finish(Exit(below(stm_chain[stm_state], s) \o exited(s, target))
              \o Enter(entered(s, target) \o init_entries[target]),
            init_target[target], [from |-> s, to |-> target])

\* An event that no state handles, or that a state handles without a transition.
stm_no_transition == stm_state # NoState /\ finish(<<>>, stm_state, NoState)

is_hsm_in_state(x) == Contains(stm_chain[stm_state], x)

StmNext ==
  \/ \E target \in StmState : fsm_init(target) \/ fsm_exceute(target) \/ hsm_init(target)
  \/ \E s, target \in StmState : hsm_exceute(s, target)
  \/ stm_no_transition

StmSpec == StmInit /\ [][StmNext]_stmVars

-----------------------------------------------------------------------------

\* However a transition crosses the hierarchy, the entry and exit signals keep
\* count: a state is exited after all that lie in it and entered after its
\* father, and what is left entered are the current state and the states around
\* it, the ones is_hsm_in_state tells.
ActiveStatesOK ==
  stm_state # NoState =>
    IF stm_flat THEN stm_active = <<stm_state>>
    ELSE /\ stm_active = path_down(stm_state, HsmTop)
         /\ \A x \in StmState : is_hsm_in_state(x) <=> Contains(stm_active, x)

\* The least common ancestor "is either not entered not exited" (raw_stm.c:323),
\* nor is any state around it: only a transition to itself leaves its source.
CommonStateUntouched ==
  stm_tran # NoState /\ ~ stm_flat =>
    LET common == {x \in StmState : Contains(stm_chain[stm_tran.from], x)
                                     /\ Contains(stm_chain[stm_tran.to], x)}
    IN  \A i \in DOMAIN stm_calls :
          stm_calls[i].state \in common =>
            stm_tran.from = stm_tran.to /\ stm_calls[i].state = stm_tran.to
=============================================================================
