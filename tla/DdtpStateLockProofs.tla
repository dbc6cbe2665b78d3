------------------------ MODULE DdtpStateLockProofs ------------------------
(***************************************************************************)
(* Theorems about DdtpStateLock.  None of them relies on sm_lock: the      *)
(* invariant says in which states of the machine each thread can be where, *)
(* which orders the two writers without it.                                *)
(***************************************************************************)
EXTENDS DdtpStateLock, TLAPS

LEMMA WriteValues ==
  /\ ServerOn("data_ready", "terminate") = "data_ready"
  /\ ServerOn("data_ready", "unload_request") = "unload_pend"
  /\ ServerOn("unload_pend", "terminate") = "X"
<1> DEFINE Rows(state, what) == {r \in ServerTable : r[1] = state /\ r[2] = what}
<1>1. ASSUME NEW state, NEW what, NEW next, Rows(state, what) = {<<state, what, next>>}
      PROVE  ServerOn(state, what) = next
  <2>1. Rows(state, what) # {}
    BY <1>1
  <2>2. (CHOOSE r \in Rows(state, what) : TRUE) = <<state, what, next>>
    BY <1>1
  <2>3. ServerOn(state, what) = (CHOOSE r \in Rows(state, what) : TRUE)[3]
    BY <2>1 DEF ServerOn, ProcessEvent, Dispatch, Execute, Target, StateMapping, EventMapping
  <2>4. <<state, what, next>>[3] = next
    OBVIOUS
  <2> HIDE DEF Rows
  <2> QED
    BY <2>2, <2>3, <2>4
<1>2. Rows("data_ready", "unload_request") = {<<"data_ready", "unload_request", "unload_pend">>}
  BY DEF ServerTable
<1>3. Rows("unload_pend", "terminate") = {<<"unload_pend", "terminate", "X">>}
  BY DEF ServerTable
<1>4. Rows("data_ready", "terminate") = {}
  BY DEF ServerTable
<1>5. ServerOn("data_ready", "terminate") = "data_ready"
  BY <1>4 DEF ServerOn, ProcessEvent, Dispatch, Execute, Target, StateMapping, EventMapping
<1> HIDE DEF Rows
<1> QED
  BY <1>1, <1>2, <1>3, <1>5

(* The async thread moves the machine out of data_ready, nobody else does. *)
AsyncAt ==
  /\ sm \in {"data_ready", "unload_pend", "X"}
  /\ event \in {"terminate", "unload_request"}
  /\ sm = "data_ready" <=>
       \/ pcA \in {"receive", "lock", "read", "write"}
       \/ pcA = "unlock" /\ event = "terminate"
  /\ pcA \in PcsA
  /\ pcA = "write" => copyA = "data_ready"

(* The entry thread is in the unload_pend branch only afterwards.          *)
Leaving == {"unlock_terminate", "tell_X", "pend2"}
EntryAt ==
  /\ pcE \in {"pend1", "lock_terminate", "read_terminate", "write_terminate"} =>
       sm = "unload_pend"
  /\ pcE = "write_terminate" => copyE = "unload_pend"
  /\ pcE \in Leaving => sm = "X"
  /\ sm = "X" => pcE \in Leaving \cup {"lock_X", "is_X", "unlock_X", "done"}
  /\ sm = "X" /\ pcE = "unlock_X" => "X" \in tellers

(* What the answers gathered in tellers mean by the time they are used.    *)
TellersAt ==
  /\ tellers \subseteq {"data_ready", "unload_pend", "X"}
  /\ pcE = "is_data_ready" => tellers = {}
  /\ "unload_pend" \in tellers => sm # "data_ready"
  /\ "X" \in tellers => sm = "X"
  /\ pcE \in {"is_load_wait", "is_unload_pend"} => "data_ready" \in tellers \/ sm = "unload_pend"
  /\ pcE \in {"unlock_tellers", "tell"} => tellers \cap {"data_ready", "unload_pend"} # {}

StateInv == AsyncAt /\ EntryAt /\ TellersAt

LEMMA StateInit == Init => StateInv
BY DEF Init, StateInv, AsyncAt, EntryAt, TellersAt, Leaving, PcsA, InsideA

LEMMA WatcherStep ==
  ASSUME StateInv, Watcher \/ UNCHANGED vars
  PROVE  StateInv'
<1>1. UNCHANGED <<sm, entry, async>>
  BY DEF Watcher, Gate, UnlockForLock, IsX, UnlockAgain, Poll, Leave, StepW, vars
<1> QED
  BY <1>1 DEF StateInv, AsyncAt, EntryAt, TellersAt, entry, async

LEMMA AsyncStep ==
  ASSUME StateInv, Async
  PROVE  StateInv'
<1> USE DEF StateInv, StepA, entry, PcsA, InsideA
<1>1. UNCHANGED <<pcE, tellers, copyE>>
  BY DEF Async, Receive, LockA, ReadA, WriteA, UnlockA, NotifyA
<1>2. UNCHANGED sm \/ (sm = "data_ready" /\ sm' = "unload_pend")
  <2>1. CASE WriteA
    BY <2>1, WriteValues DEF WriteA, Write, AsyncAt
  <2> QED
    BY <2>1 DEF Async, Receive, LockA, ReadA, UnlockA, NotifyA
<1>3. AsyncAt'
  <2>1. ASSUME NEW type \in Requests, Receive(type)
        PROVE  AsyncAt'
    BY <2>1 DEF Receive, AsyncAt
  <2>2. CASE LockA
    BY <2>2 DEF LockA, AsyncAt
  <2>3. CASE ReadA
    BY <2>3 DEF ReadA, AsyncAt
  <2>4. CASE WriteA
    BY <2>4, WriteValues DEF WriteA, Write, AsyncAt
  <2>5. CASE UnlockA
    BY <2>5 DEF UnlockA, AsyncAt
  <2>6. CASE NotifyA
    BY <2>6 DEF NotifyA, AsyncAt
  <2> QED
    BY <2>1, <2>2, <2>3, <2>4, <2>5, <2>6 DEF Async
<1>4. EntryAt' /\ TellersAt'
  BY <1>1, <1>2 DEF EntryAt, TellersAt, Leaving
<1> QED
  BY <1>3, <1>4

LEMMA EntryStep ==
  ASSUME StateInv, Entry
  PROVE  StateInv'
<1> USE DEF StateInv, StepE, async
<1>1. CASE LockTellers
  BY <1>1 DEF LockTellers, AsyncAt, EntryAt, TellersAt, Leaving
<1>2. CASE ReadTellers
  <2>1. UNCHANGED <<sm, async, copyE>>
    BY <1>2 DEF ReadTellers, IsE
  <2>2. AsyncAt' /\ EntryAt'
    BY <1>2, <2>1 DEF ReadTellers, IsE, AsyncAt, EntryAt, Leaving
  <2>3. TellersAt'
    BY <1>2, <2>1 DEF ReadTellers, IsE, AsyncAt, EntryAt, TellersAt, Leaving
  <2> QED
    BY <2>2, <2>3
<1>3. CASE UnlockTellers
  BY <1>3 DEF UnlockTellers, UnlockE, AsyncAt, EntryAt, TellersAt, Leaving
<1>4. CASE Tell
  <2>1. pcE = "tell" /\ pcE' = Branch /\ UNCHANGED <<sm, async, tellers, copyE>>
    BY <1>4 DEF Tell
  <2>2. Branch \in {"await_data", "pend1", "lock_X"}
        /\ (Branch = "pend1" => tellers = {"unload_pend"})
    BY DEF Branch
  <2> QED
    BY <2>1, <2>2 DEF AsyncAt, EntryAt, TellersAt, Leaving
<1>5. CASE ServeData
  BY <1>5 DEF ServeData, AsyncAt, EntryAt, TellersAt, Leaving
<1>6. CASE Unload
  <2>1. CASE ReadTerminate \/ TellX
    BY <2>1 DEF ReadTerminate, TellX, AsyncAt, EntryAt, TellersAt, Leaving
  <2>2. CASE WriteTerminate
    BY <2>2, WriteValues DEF WriteTerminate, Write, AsyncAt, EntryAt, TellersAt, Leaving
  <2>3. CASE LockE("lock_terminate", "read_terminate") \/ UnlockE("unlock_terminate", "tell_X")
    BY <2>3 DEF LockE, UnlockE, AsyncAt, EntryAt, TellersAt, Leaving
  <2>4. CASE BlockPend("pend1", "lock_terminate") \/ BlockPend("pend2", "lock_X")
    BY <2>4 DEF BlockPend, AsyncAt, EntryAt, TellersAt, Leaving
  <2> QED
    BY <1>6, <2>1, <2>2, <2>3, <2>4 DEF Unload
<1>7. CASE CheckX
  BY <1>7 DEF CheckX, LockE, UnlockE, IsE, AsyncAt, EntryAt, TellersAt, Leaving
<1> QED
  BY <1>1, <1>2, <1>3, <1>4, <1>5, <1>6, <1>7 DEF Entry

LEMMA StateInvariant == Spec => []StateInv
<1>1. StateInv /\ [Next]_vars => StateInv'
  BY WatcherStep, AsyncStep, EntryStep DEF Next
<1>2. QED
  BY <1>1, StateInit, PTL DEF Spec

(* With the lock broken, every iteration of the entry thread's loop still  *)
(* takes a branch.                                                         *)
THEOREM BranchIsChosen == Spec => []BranchChosen
<1>1. StateInv => BranchChosen
  BY DEF StateInv, TellersAt, BranchChosen
<1>2. QED
  BY <1>1, StateInvariant, PTL

(* With the lock broken, no two process_events cross.                      *)
THEOREM UpdatesAreNotLost == Spec => []NoLostUpdate
<1>1. StateInv => NoLostUpdate
  BY DEF StateInv, AsyncAt, EntryAt, NoLostUpdate
<1>2. QED
  BY <1>1, StateInvariant, PTL

------------------------------------------------------------------------------
(* The lock's steps are those of DdtpStateAtomic, or leave its state alone. *)

LEMMA SameTransitions ==
  \A state, what : Atomic!ServerOn(state, what) = ServerOn(state, what)
BY DEF Atomic!ServerOn, Atomic!ProcessEvent, Atomic!Dispatch, Atomic!Execute, Atomic!Target,
       Atomic!StateMapping, Atomic!EventMapping, Atomic!ServerTable,
       ServerOn, ProcessEvent, Dispatch, Execute, Target, StateMapping, EventMapping, ServerTable

(* Where a thread that leaves its variables alone is.                      *)
LEMMA SamePlaces ==
  /\ UNCHANGED <<pcE, tellers>> => UNCHANGED <<PcE, Teller>>
  /\ UNCHANGED <<pcA, event>> => UNCHANGED PcA
  /\ UNCHANGED pcW => UNCHANGED PcW
BY DEF PcE, Teller, PcA, PcW

LEMMA WatcherImplements ==
  ASSUME Watcher
  PROVE  [Atomic!Next]_(Atomic!vars)
<1> USE DEF StepW, entry, async, flags, Atomic!flags, Atomic!vars, Atomic!StepW
<1>1. UNCHANGED <<sm, PcE, Teller, PcA>>
  BY SamePlaces DEF Watcher, Gate, UnlockForLock, IsX, UnlockAgain, Poll, Leave
<1>2. CASE Gate
  <2>1. PcW = "gate" /\ PcW' = "look"
    BY <1>2 DEF Gate, PcW
  <2> QED BY <1>1, <1>2, <2>1 DEF Gate, Atomic!WatchGate, Atomic!Watcher, Atomic!Next
<1>3. CASE UnlockForLock \/ UnlockAgain
  <2>1. UNCHANGED <<PcW, flags>>
    BY <1>3 DEF UnlockForLock, UnlockAgain, PcW
  <2> QED BY <1>1, <2>1
<1>4. CASE IsX
  <2>1. PcW = "look" /\ PcW' = (IF sm = "X" THEN "leave" ELSE "poll") /\ UNCHANGED flags
    BY <1>4 DEF IsX, PcW
  <2> QED BY <1>1, <2>1 DEF Atomic!WatchLook, Atomic!Watcher, Atomic!Next
<1>5. CASE Poll
  <2>1. PcW = "poll" /\ PcW' = "gate"
    BY <1>5 DEF Poll, PcW
  <2> QED BY <1>1, <1>5, <2>1 DEF Poll, Atomic!WatchPoll, Atomic!Watcher, Atomic!Next
<1>6. CASE Leave
  <2>1. PcW = "leave" /\ PcW' = "done"
    BY <1>6 DEF Leave, PcW
  <2> QED BY <1>1, <1>6, <2>1 DEF Leave, Atomic!WatchLeave, Atomic!Watcher, Atomic!Next
<1> QED BY <1>2, <1>3, <1>4, <1>5, <1>6 DEF Watcher

LEMMA AsyncImplements ==
  ASSUME StateInv, Async
  PROVE  [Atomic!Next]_(Atomic!vars)
<1> USE DEF StepA, entry, flags, Atomic!flags, Atomic!vars, Atomic!StepA, InsideA
<1>1. UNCHANGED <<PcE, Teller, PcW>>
  BY SamePlaces DEF Async, Receive, LockA, ReadA, WriteA, UnlockA, NotifyA
<1>2. event \in {"terminate", "unload_request"}
  BY DEF StateInv, AsyncAt
<1>3. ASSUME NEW type \in Requests, Receive(type)
      PROVE  [Atomic!Next]_(Atomic!vars)
  <2>1. PcA = "read" /\ sm = "data_ready" /\ UNCHANGED <<sm, flags>>
    BY <1>3 DEF Receive, PcA, StateInv, AsyncAt
  <2>2. type \in Atomic!Requests
    BY DEF Requests, Atomic!Requests
  <2>3. PcA' = IF type = "UNLOAD_REQUEST" /\ sm = "data_ready" THEN "unload" ELSE "read"
    BY <1>3 DEF Receive, PcA
  <2>4. sm = Atomic!ServerOn(sm, "terminate")
    BY <2>1, WriteValues, SameTransitions
  <2> QED BY <1>1, <2>1, <2>2, <2>3, <2>4 DEF Atomic!AsyncRead, Atomic!Async, Atomic!Next
<1>4. CASE LockA \/ ReadA
  <2>1. UNCHANGED <<PcA, sm, flags>>
    BY <1>2, <1>4 DEF LockA, ReadA, PcA
  <2> QED BY <1>1, <2>1
<1>5. CASE WriteA
  <2>1. copyA = sm /\ sm = "data_ready" /\ UNCHANGED flags /\ UNCHANGED event
    BY <1>5 DEF WriteA, StateInv, AsyncAt
  <2>2. CASE event = "terminate"
    <3>1. UNCHANGED <<PcA, sm>>
      BY <1>5, <2>1, <2>2, WriteValues DEF WriteA, Write, PcA
    <3> QED BY <1>1, <2>1, <3>1
  <2>3. CASE event = "unload_request"
    <3>1. PcA = "unload" /\ PcA' = "notify"
      BY <1>5, <2>1, <2>3 DEF WriteA, PcA
    <3>2. sm' = Atomic!ServerOn(sm, "unload_request")
      BY <1>5, <2>1, <2>3, WriteValues, SameTransitions DEF WriteA, Write
    <3> QED BY <1>1, <2>1, <3>1, <3>2 DEF Atomic!AsyncUnload, Atomic!Async, Atomic!Next
  <2> QED BY <1>2, <2>2, <2>3
<1>6. CASE UnlockA
  <2>1. UNCHANGED <<PcA, sm, flags>>
    BY <1>2, <1>6 DEF UnlockA, PcA
  <2> QED BY <1>1, <2>1
<1>7. CASE NotifyA
  <2>1. PcA = "notify" /\ PcA' = "done"
    BY <1>7 DEF NotifyA, PcA
  <2> QED BY <1>1, <1>7, <2>1 DEF NotifyA, Atomic!AsyncNotify, Atomic!Async, Atomic!Next
<1> QED BY <1>3, <1>4, <1>5, <1>6, <1>7 DEF Async

LEMMA EntryImplements ==
  ASSUME StateInv, Entry
  PROVE  [Atomic!Next]_(Atomic!vars)
<1> USE DEF StepE, async, flags, Atomic!flags, Atomic!vars, Atomic!StepE
<1>1. UNCHANGED <<PcA, PcW>>
  BY SamePlaces
     DEF Entry, LockTellers, ReadTellers, IsE, UnlockTellers, UnlockE, LockE, Tell, ServeData,
         Unload, BlockPend, ReadTerminate, WriteTerminate, TellX, CheckX
<1>2. CASE LockTellers \/ UnlockTellers
  <2>1. UNCHANGED <<PcE, Teller, sm, flags>>
    BY <1>2 DEF LockTellers, UnlockTellers, UnlockE, PcE, Teller
  <2> QED BY <1>1, <2>1
<1>3. CASE IsE("data_ready", "is_data_ready", "is_load_wait")
  <2>1. PcE = "observe" /\ PcE' = "announce" /\ UNCHANGED <<sm, flags>>
    BY <1>3 DEF IsE, PcE
  <2>2. tellers = {} /\ (sm = "data_ready" \/ sm = "unload_pend")
    BY <1>3 DEF IsE, StateInv, AsyncAt, EntryAt, TellersAt, Leaving
  <2>3. Teller' = sm
    BY <1>3, <2>1, <2>2 DEF IsE, Teller
  <2> QED BY <1>1, <2>1, <2>3 DEF Atomic!Observe, Atomic!Entry, Atomic!Next
<1>4. CASE \/ IsE("load_wait", "is_load_wait", "is_unload_pend")
           \/ IsE("unload_pend", "is_unload_pend", "unlock_tellers")
  <2>1. UNCHANGED <<PcE, sm, flags>> /\ ("data_ready" \in tellers' <=> "data_ready" \in tellers)
    BY <1>4 DEF IsE, PcE
  <2>2. UNCHANGED Teller
    BY <2>1 DEF Teller
  <2> QED BY <1>1, <2>1, <2>2
<1>5. CASE Tell
  <2>1. PcE = "announce" /\ pcE' = Branch
    BY <1>5 DEF Tell, PcE
  <2>2. Branch = IF "data_ready" \in tellers THEN "await_data" ELSE "pend1"
    BY <1>5 DEF Tell, Branch, StateInv, EntryAt, TellersAt, Leaving
  <2>3. Teller = IF "data_ready" \in tellers THEN "data_ready" ELSE "unload_pend"
    BY <2>1 DEF Teller
  <2>4. PcE' = pcE'
    BY <2>1, <2>2 DEF PcE
  <2>5. Teller' = "none"
    BY <2>1, <2>2, <2>4 DEF Teller
  <2> QED BY <1>1, <1>5, <2>1, <2>2, <2>3, <2>4, <2>5 
         DEF Tell, Atomic!Announce, Atomic!Entry, Atomic!Next
<1>6. CASE ServeData
  <2>1. PcE = "await_data" /\ PcE' = "check" /\ UNCHANGED Teller
    BY <1>6 DEF ServeData, PcE, Teller
  <2> QED BY <1>1, <1>6, <2>1 DEF ServeData, Atomic!ServeData, Atomic!Entry, Atomic!Next
<1>7. CASE BlockPend("pend1", "lock_terminate")
  <2>1. PcE = "pend1" /\ PcE' = "terminate" /\ UNCHANGED Teller
    BY <1>7 DEF BlockPend, PcE, Teller
  <2> QED BY <1>1, <1>7, <2>1 DEF BlockPend, Atomic!AwaitPend, Atomic!Entry, Atomic!Next
<1>8. CASE \/ LockE("lock_terminate", "read_terminate") \/ ReadTerminate
           \/ UnlockE("unlock_terminate", "tell_X")
  <2>1. UNCHANGED <<PcE, Teller, sm, flags>>
    BY <1>8 DEF LockE, UnlockE, ReadTerminate, PcE, Teller
  <2> QED BY <1>1, <2>1
<1>9. CASE WriteTerminate
  <2>1. PcE = "terminate" /\ PcE' = "announce_x" /\ UNCHANGED <<Teller, flags>>
    BY <1>9 DEF WriteTerminate, PcE, Teller
  <2>2. sm' = Atomic!ServerOn(sm, "terminate")
    BY <1>9, WriteValues, SameTransitions DEF WriteTerminate, Write, StateInv, EntryAt
  <2> QED BY <1>1, <2>1, <2>2 DEF Atomic!Terminate, Atomic!Entry, Atomic!Next
<1>10. CASE TellX
  <2>1. PcE = "announce_x" /\ PcE' = "pend2" /\ UNCHANGED Teller
    BY <1>10 DEF TellX, PcE, Teller
  <2> QED BY <1>1, <1>10, <2>1 DEF TellX, Atomic!AnnounceEnd, Atomic!Entry, Atomic!Next
<1>11. CASE BlockPend("pend2", "lock_X")
  <2>1. PcE = "pend2" /\ PcE' = "check" /\ UNCHANGED Teller
    BY <1>11 DEF BlockPend, PcE, Teller
  <2> QED BY <1>1, <1>11, <2>1 DEF BlockPend, Atomic!AwaitPend, Atomic!Entry, Atomic!Next
<1>12. CASE LockE("lock_X", "is_X")
  <2>1. UNCHANGED <<PcE, Teller, sm, flags>>
    BY <1>12 DEF LockE, PcE, Teller
  <2> QED BY <1>1, <2>1
<1>13. CASE IsE("X", "is_X", "unlock_X")
  <2>1. "X" \in tellers' <=> sm = "X"
    BY <1>13 DEF IsE, StateInv, TellersAt
  <2>2. PcE = "check" /\ PcE' = (IF sm = "X" THEN "done" ELSE "observe")
    BY <1>13, <2>1 DEF IsE, PcE
  <2>3. UNCHANGED <<Teller, sm, flags>>
    BY <1>13, <2>2 DEF IsE, Teller
  <2> QED BY <1>1, <2>2, <2>3 DEF Atomic!Check, Atomic!Entry, Atomic!Next
<1>14. CASE UnlockE("unlock_X", IF "X" \in tellers THEN "done" ELSE "lock_tellers")
  <2>1. UNCHANGED <<PcE, sm, flags>>
    BY <1>14 DEF UnlockE, PcE
  <2>2. UNCHANGED Teller
    BY <1>14, <2>1 DEF UnlockE, Teller, PcE
  <2> QED BY <1>1, <2>1, <2>2
<1> QED BY <1>2, <1>3, <1>4, <1>5, <1>6, <1>7, <1>8, <1>9, <1>10, <1>11, <1>12, <1>13, <1>14
        DEF Entry, ReadTellers, Unload, CheckX

(* Whatever the broken lock lets happen, and for any number of requests,   *)
(* the three threads do nothing they could not do were every visit to the  *)
(* state machine one step: DdtpServer may take them so.                    *)
THEOREM VisitsAreAtomic == Spec => ImplementsAtomic
<1>1. Init => Atomic!Init
  BY DEF Init, Atomic!Init, PcE, PcA, PcW, Teller
<1>2. StateInv /\ [Next]_vars => [Atomic!Next]_(Atomic!vars)
  <2>1. ASSUME UNCHANGED vars
        PROVE  UNCHANGED Atomic!vars
    <3>1. UNCHANGED <<PcE, Teller, PcA, PcW>>
      BY <2>1, SamePlaces DEF vars, entry, async
    <3> QED BY <2>1, <3>1 DEF vars, flags, Atomic!vars, Atomic!flags
  <2> QED BY <2>1, EntryImplements, AsyncImplements, WatcherImplements DEF Next
<1> QED BY <1>1, <1>2, StateInvariant, PTL DEF Spec, ImplementsAtomic, Atomic!Spec
==============================================================================
