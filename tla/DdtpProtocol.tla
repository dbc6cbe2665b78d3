---------------------------- MODULE DdtpProtocol ----------------------------
(***************************************************************************)
(* The DDT protocol as netproto.h declares it: the payload types on the    *)
(* wire and the transition tables of the two Boost.SML state machines.     *)
(***************************************************************************)

Requests == {"LOAD_REQUEST", "UNLOAD_REQUEST"}     \* what a client may ask for

ServerStates == {"load_wait", "data_ready", "unload_pend", "X"}
ClientStates == {"load_init", "load_pend", "data_wait", "unload_pend", "X"}

ServerTable ==
  { <<"load_wait",   "load_fail",      "X">>,
    <<"load_wait",   "load_success",   "data_ready">>,
    <<"data_ready",  "unload_request", "unload_pend">>,
    <<"unload_pend", "terminate",      "X">> }

ClientTable ==
  { <<"load_init",   "load_request",    "load_pend">>,
    <<"load_pend",   "load_fail",       "X">>,
    <<"load_pend",   "load_success",    "data_wait">>,
    <<"data_wait",   "unload_request",  "unload_pend">>,
    <<"unload_pend", "unload_complete", "X">> }

(* sml.hpp finds the rows of an event when it is compiled, and of those     *)
(* the rows of each state.  The tables have no guard, no action, no        *)
(* anonymous event and no deferral.                                        *)
EventMapping(table, event) == {row \in table : row[2] = event}
StateMapping(rows, state) == {row \in rows : row[1] = state}

(* transitions<>::execute: the first row is taken; an event the state has  *)
(* no row for leaves the machine where it is.                              *)
Target(row) == row[3]
Execute(rows, state) == IF rows = {} THEN state ELSE Target(CHOOSE row \in rows : TRUE)

(* sm->process_event: the jump table runs the rows of the current state.   *)
Dispatch(rows, state) == Execute(StateMapping(rows, state), state)
ProcessEvent(table, state, event) == Dispatch(EventMapping(table, event), state)

ServerOn(state, event) == ProcessEvent(ServerTable, state, event)
ClientOn(state, event) == ProcessEvent(ClientTable, state, event)
=============================================================================
