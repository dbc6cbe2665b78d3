--------------------------- MODULE DdtpStateLock ---------------------------
(***************************************************************************)
(* sm_lock, the mutex around the server's state machine, in a session that *)
(* serves data: the entry thread E, the async request thread A and the     *)
(* watcher W.  Every sm->is and every half of sm->process_event (read the  *)
(* state, write the next one) is a step.  The watcher unlocks sm_lock      *)
(* where it should lock it (thread.cpp:460), so the mutex may be free      *)
(* while a thread is inside.  The session starts where the entry thread    *)
(* has just created the async thread.                                      *)
(***************************************************************************)
EXTENDS DdtpProtocol, Naturals

CONSTANT MaxRequests      \* bound: requests the client sends after LOAD_REQUEST

ASSUME MaxRequestsAssumption == MaxRequests \in Nat

VARIABLES
  sm,                              \* the state of the state machine
  locked,                          \* sm_lock is taken
  pcE, pcA, pcW,                   \* where the three threads are
  tellers,                         \* the states the entry thread found itself in
  copyE, copyA,                    \* the state process_event read
  event,                           \* what the async thread processes
  dataReady, dataPend, statePend,  \* the flags of lock.cpp
  nRequests                        \* requests read (for the bound)

flags == <<dataReady, dataPend, statePend>>
entry == <<pcE, tellers, copyE>>
async == <<pcA, copyA, event, nRequests>>
vars  == <<sm, locked, entry, async, pcW, flags>>

InsideE == {"is_data_ready", "is_load_wait", "is_unload_pend", "unlock_tellers",
            "read_terminate", "write_terminate", "unlock_terminate", "is_X", "unlock_X"}
InsideA == {"read", "write", "unlock"}
PcsA == InsideA \cup {"receive", "lock", "notify", "done"}

Init ==
  /\ sm = "data_ready" /\ locked = FALSE
  /\ pcE = "lock_X" /\ pcA = "receive" /\ pcW = "gate"
  /\ tellers = {} /\ copyE = "data_ready" /\ copyA = "data_ready" /\ event = "terminate"
  /\ dataReady = FALSE /\ dataPend = FALSE /\ statePend = TRUE
  /\ nRequests = 0

------------------------------------------------------------------------------
Lock   == ~locked /\ locked' = TRUE
Unlock == locked' = FALSE               \* glibc does not ask who unlocks

(* A transition is written, an event without one leaves the state alone.   *)
Write(copy, what) == sm' = IF ServerOn(copy, what) = copy THEN sm ELSE ServerOn(copy, what)

------------------------------------------------------------------------------
(* The entry thread.                                                       *)

StepE(from, to) == /\ pcE = from
                   /\ pcE' = to
                   /\ UNCHANGED <<async, pcW>>

LockE(from, to)   == StepE(from, to) /\ Lock   /\ UNCHANGED <<sm, tellers, copyE, flags>>
UnlockE(from, to) == StepE(from, to) /\ Unlock /\ UNCHANGED <<sm, tellers, copyE, flags>>

(* One sm->is: state joins tellers if the machine is in it.                *)
IsE(state, from, to) ==
  /\ StepE(from, to)
  /\ tellers' = IF sm = state THEN tellers \cup {state} ELSE tellers
  /\ UNCHANGED <<sm, locked, copyE, flags>>

LockTellers ==
  /\ StepE("lock_tellers", "is_data_ready")
  /\ Lock
  /\ tellers' = {}
  /\ UNCHANGED <<sm, copyE, flags>>

(* Bug: unload_pend is asked first and data_ready last.                    *)
ReadTellersBackwards ==
  \/ IsE("unload_pend", "is_data_ready", "is_load_wait")
  \/ IsE("load_wait",   "is_load_wait", "is_unload_pend")
  \/ IsE("data_ready",  "is_unload_pend", "unlock_tellers")

ReadTellers ==
  \/ IsE("data_ready",  "is_data_ready", "is_load_wait")
  \/ IsE("load_wait",   "is_load_wait", "is_unload_pend")
  \/ IsE("unload_pend", "is_unload_pend", "unlock_tellers")

UnlockTellers == UnlockE("unlock_tellers", "tell")

Branch == CASE "data_ready" \in tellers    -> "await_data"
            [] tellers = {"unload_pend"}   -> "pend1"
            [] OTHER                       -> "lock_X"

(* Bug: the branch is taken and the watcher not told.                      *)
TellNobody ==
  /\ StepE("tell", Branch)
  /\ UNCHANGED <<sm, locked, tellers, copyE, flags>>

Tell ==                                 \* ddtp_signal_state_pend, then the branch
  /\ StepE("tell", Branch)
  /\ statePend' = TRUE
  /\ UNCHANGED <<sm, locked, tellers, copyE, dataReady, dataPend>>

ServeData ==                            \* the data_ready branch, up to line 381
  /\ dataReady
  /\ StepE("await_data", "lock_X")
  /\ dataReady' = FALSE /\ dataPend' = TRUE
  /\ UNCHANGED <<sm, locked, tellers, copyE, statePend>>

BlockPend(from, to) ==                  \* ddtp_block_until_data_pend
  /\ dataPend
  /\ StepE(from, to)
  /\ dataPend' = FALSE
  /\ UNCHANGED <<sm, locked, tellers, copyE, dataReady, statePend>>

ReadTerminate ==
  /\ StepE("read_terminate", "write_terminate")
  /\ copyE' = sm
  /\ UNCHANGED <<sm, locked, tellers, flags>>

WriteTerminate ==
  /\ StepE("write_terminate", "unlock_terminate")
  /\ Write(copyE, "terminate")
  /\ UNCHANGED <<locked, tellers, copyE, flags>>

TellX ==                                \* ddtp_signal_state_pend
  /\ StepE("tell_X", "pend2")
  /\ statePend' = TRUE
  /\ UNCHANGED <<sm, locked, tellers, copyE, dataReady, dataPend>>

Unload ==                               \* the unload_pend branch
  \/ BlockPend("pend1", "lock_terminate")
  \/ LockE("lock_terminate", "read_terminate")
  \/ ReadTerminate \/ WriteTerminate
  \/ UnlockE("unlock_terminate", "tell_X")
  \/ TellX
  \/ BlockPend("pend2", "lock_X")

(* terminal_state_teller, for the condition of the while.                  *)
CheckX ==
  \/ LockE("lock_X", "is_X")
  \/ IsE("X", "is_X", "unlock_X")
  \/ UnlockE("unlock_X", IF "X" \in tellers THEN "done" ELSE "lock_tellers")

Entry == LockTellers \/ ReadTellers \/ UnlockTellers \/ Tell \/ ServeData \/ Unload \/ CheckX

------------------------------------------------------------------------------
(* The async request thread.                                               *)

StepA(from, to) == /\ pcA = from
                   /\ pcA' = to
                   /\ UNCHANGED <<entry, pcW>>

(* A request; its validation looks at the state without the lock.          *)
Receive(type) ==
  /\ nRequests < MaxRequests
  /\ StepA("receive", "lock")
  /\ event' = IF type = "UNLOAD_REQUEST" /\ sm = "data_ready" THEN "unload_request"
                                                             ELSE "terminate"
  /\ nRequests' = nRequests + 1
  /\ UNCHANGED <<sm, locked, copyA, flags>>

LockA == StepA("lock", "read") /\ Lock /\ UNCHANGED <<sm, copyA, event, nRequests, flags>>

ReadA ==
  /\ StepA("read", "write")
  /\ copyA' = sm
  /\ UNCHANGED <<sm, locked, event, nRequests, flags>>

WriteA ==
  /\ StepA("write", "unlock")
  /\ Write(copyA, event)
  /\ UNCHANGED <<locked, copyA, event, nRequests, flags>>

(* Bug: the thread goes on reading after an UNLOAD_REQUEST.                *)
UnlockAndRead ==
  /\ StepA("unlock", "receive")
  /\ Unlock
  /\ UNCHANGED <<sm, copyA, event, nRequests, flags>>

UnlockA ==
  /\ StepA("unlock", IF event = "unload_request" THEN "notify" ELSE "receive")
  /\ Unlock
  /\ UNCHANGED <<sm, copyA, event, nRequests, flags>>

NotifyA ==                              \* ddtp_signal_data_ready
  /\ StepA("notify", "done")
  /\ dataReady' = TRUE
  /\ UNCHANGED <<sm, locked, copyA, event, nRequests, dataPend, statePend>>

Async == (\E type \in Requests : Receive(type)) \/ LockA \/ ReadA \/ WriteA \/ UnlockA \/ NotifyA

------------------------------------------------------------------------------
(* The watcher, while its reference count and its poll are all right.      *)

StepW(from, to) == /\ pcW = from
                   /\ pcW' = to
                   /\ UNCHANGED <<sm, entry, async>>

Gate ==                                 \* ddtp_block_until_state_pend
  /\ statePend
  /\ StepW("gate", "unlock")
  /\ statePend' = FALSE
  /\ UNCHANGED <<locked, dataReady, dataPend>>

UnlockForLock == StepW("unlock", "is_X") /\ Unlock /\ UNCHANGED flags

IsX ==
  /\ StepW("is_X", IF sm = "X" THEN "unlock_leave" ELSE "unlock_poll")
  /\ UNCHANGED <<locked, flags>>

UnlockAgain == /\ \/ StepW("unlock_poll", "poll")
                  \/ StepW("unlock_leave", "leave")
               /\ Unlock
               /\ UNCHANGED flags

Poll ==                                 \* an event, ddtp_signal_data_ready
  /\ StepW("poll", "gate")
  /\ dataReady' = TRUE
  /\ UNCHANGED <<locked, dataPend, statePend>>

Leave ==                                \* ddtp_signal_data_pend, pthread_exit
  /\ StepW("leave", "done")
  /\ dataPend' = TRUE
  /\ UNCHANGED <<locked, dataReady, statePend>>

Watcher == Gate \/ UnlockForLock \/ IsX \/ UnlockAgain \/ Poll \/ Leave

------------------------------------------------------------------------------
Next == Entry \/ Async \/ Watcher

Spec == Init /\ [][Next]_vars

(* The entry thread asks for data_ready, load_wait and unload_pend one     *)
(* after the other, and the async thread may move the machine in between,  *)
(* lock or no lock.  The order of the questions still finds a state: no    *)
(* iteration of the loop passes without taking a branch.                   *)
BranchChosen == pcE = "tell" => tellers \cap {"data_ready", "unload_pend"} # {}

(* No process_event writes a transition from a state that another one has  *)
(* left: sm_lock does not order the two writers, the flags and the         *)
(* transition table do.                                                    *)
NoLostUpdate == /\ pcE = "write_terminate" => copyE = sm
                /\ pcA = "write" => copyA = sm

(* With the lock broken the threads still take no step that they could not *)
(* take were every visit to the state machine atomic, as it is modelled in *)
(* DdtpServer: the three questions of the entry thread count as one at the *)
(* first of them, a refused request where it is validated, another where   *)
(* its transition is written.                                              *)
PcE == CASE pcE \in {"lock_X", "is_X"}                         -> "check"
         [] pcE = "unlock_X"         -> IF "X" \in tellers THEN "done" ELSE "observe"
         [] pcE \in {"lock_tellers", "is_data_ready"}          -> "observe"
         [] pcE \in {"is_load_wait", "is_unload_pend", "unlock_tellers", "tell"} -> "announce"
         [] pcE \in {"lock_terminate", "read_terminate", "write_terminate"}      -> "terminate"
         [] pcE \in {"unlock_terminate", "tell_X"}             -> "announce_x"
         [] OTHER                                              -> pcE
PcA == CASE pcA = "receive"                                    -> "read"
         [] pcA \in {"lock"} \cup InsideA /\ event = "terminate" -> "read"
         [] pcA \in {"lock", "read", "write"} /\ event # "terminate" -> "unload"
         [] pcA = "unlock" /\ event # "terminate"              -> "notify"
         [] OTHER                                              -> pcA
PcW == CASE pcW \in {"unlock", "is_X"} -> "look"
         [] pcW = "unlock_poll"        -> "poll"
         [] pcW = "unlock_leave"       -> "leave"
         [] OTHER                      -> pcW
Teller == IF PcE # "announce" THEN "none"
          ELSE IF "data_ready" \in tellers THEN "data_ready" ELSE "unload_pend"
Atomic == INSTANCE DdtpStateAtomic WITH pcE <- PcE, pcA <- PcA, pcW <- PcW, teller <- Teller
ImplementsAtomic == Atomic!Spec

(* lock.h:36: sm_lock is among the "locking primitives w/ struct for locks *)
(* and values to lock on for update".                                      *)
LockExcludes == ~(pcE \in InsideE /\ pcA \in InsideA)
==============================================================================
