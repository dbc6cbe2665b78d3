------------------------------ MODULE ProtEnc ------------------------------
(***************************************************************************)
(* The typestates of protenc.h.  A protocol is a list of transitions, one  *)
(* of final transitions and one of queries; a wrapper carries the wrapped  *)
(* object and, in its type, a state.  A call whose entry is not found does *)
(* not compile: Found and CheckInitialState are about the text of a        *)
(* program, and the steps of one that compiles do not ask them.            *)
(***************************************************************************)

NotFound == {}

Transition(from, to, function) == [from |-> from, to |-> to, function |-> function]
ValidQuery(state, function) == [from |-> state, to |-> state, function |-> function]

(* find_transition_t walks the list to the entry of the current state and  *)
(* the called function; no list has two.                                   *)
FindTransition(list, state, function) ==
  {entry \in list : entry.from = state /\ entry.function = function}

(* return_of_transition, return_of_valid_query: the static_assert.         *)
Found(list, wrapper, function) ==
  FindTransition(list, wrapper.state, function) # NotFound

EndState(list, state, function) ==
  (CHOOSE entry \in FindTransition(list, state, function) : TRUE).to

(* GenericWrapper: made by the program in an initial state only, and by    *)
(* call_transition, unchecked, in any other.                               *)
Wrapper(state, wrapped) == [state |-> state, wrapped |-> wrapped]
CheckInitialState(initial, state) == state \in initial

(* call_transition has called the function, which left wrapped.            *)
CallTransition(list, wrapper, function, wrapped) ==
  Wrapper(EndState(list, wrapper.state, function), wrapped)
=============================================================================
