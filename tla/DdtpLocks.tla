------------------------------ MODULE DdtpLocks ------------------------------
(***************************************************************************)
(* One flag of lock.cpp (data_ready, data_pend or state_pend: the three    *)
(* are the same code over different fields) at the granularity of the      *)
(* pthread calls.  A signaller raises the flag under the mutex, unlocks    *)
(* and only then calls pthread_cond_signal; a waiter tests the flag under  *)
(* the mutex, sleeps while it is down, and lowers it before it unlocks.    *)
(***************************************************************************)
EXTENDS Naturals

CONSTANTS
  Threads,     \* the threads that share the flag; each may block and signal
  NoThread,    \* the owner of a free mutex
  MaxCalls     \* bound: calls plus spurious wakeups of each thread

ASSUME NoThreadAssumption == NoThread \notin Threads
ASSUME MaxCallsAssumption == MaxCalls \in Nat

VARIABLES
  flag,        \* ddtp_data_ready, ddtp_data_pend or ddtp_state_pend
  mutex,       \* the owner of the flag's *_lock
  pc,          \* where each thread is inside lock.cpp
  budget       \* calls and spurious wakeups each thread may still make

vars == <<flag, mutex, pc, budget>>

BlockHolding  == {"b_test", "b_unlock"}
SignalHolding == {"s_set", "s_unlock"}
Blocking      == {"b_lock", "b_test", "b_sleep", "b_relock"}
PCs == {"idle", "s_lock", "s_wake"} \cup Blocking \cup BlockHolding \cup SignalHolding

Sleepers == {t \in Threads : pc[t] = "b_sleep"}

TypeOK ==
  /\ flag \in BOOLEAN
  /\ mutex \in Threads \cup {NoThread}
  /\ pc \in [Threads -> PCs]
  /\ budget \in [Threads -> 0 .. MaxCalls]

(* Bug: ddtp_locks_init leaves the mutex as it found it.                   *)
InitGarbage ==
  /\ flag = FALSE
  /\ mutex = "garbage"
  /\ pc = [t \in Threads |-> "idle"]
  /\ budget = [t \in Threads |-> MaxCalls]

Init ==
  /\ flag = FALSE
  /\ mutex = NoThread
  /\ pc = [t \in Threads |-> "idle"]
  /\ budget = [t \in Threads |-> MaxCalls]

------------------------------------------------------------------------------
Spend(t) == /\ budget[t] > 0
            /\ budget' = [budget EXCEPT ![t] = @ - 1]

Step(t, from, to) == /\ pc[t] = from
                     /\ pc' = [pc EXCEPT ![t] = to]

Acquire(t) == /\ mutex = NoThread
              /\ mutex' = t

CallBlock(t)  == Spend(t) /\ Step(t, "idle", "b_lock") /\ UNCHANGED <<flag, mutex>>
CallSignal(t) == Spend(t) /\ Step(t, "idle", "s_lock") /\ UNCHANGED <<flag, mutex>>

BlockLock(t)  == Step(t, "b_lock", "b_test") /\ Acquire(t) /\ UNCHANGED <<flag, budget>>

(* Bug: the waiter sleeps with the mutex held.                             *)
BlockSleepHolding(t) ==
  /\ ~flag
  /\ Step(t, "b_test", "b_sleep")
  /\ UNCHANGED <<flag, mutex, budget>>

(* pthread_cond_wait: unlocking and joining the wait set are one step.     *)
BlockSleep(t) ==
  /\ ~flag
  /\ Step(t, "b_test", "b_sleep")
  /\ mutex' = NoThread
  /\ UNCHANGED <<flag, budget>>

(* pthread_cond_wait may return though nobody signalled.                   *)
SpuriousWake(t) == Spend(t) /\ Step(t, "b_sleep", "b_relock") /\ UNCHANGED <<flag, mutex>>

BlockRelock(t) == Step(t, "b_relock", "b_test") /\ Acquire(t) /\ UNCHANGED <<flag, budget>>

(* Bug: the waiter leaves the flag up.                                     *)
BlockTakeNothing(t) ==
  /\ flag
  /\ Step(t, "b_test", "b_unlock")
  /\ UNCHANGED <<flag, mutex, budget>>

BlockTake(t) ==
  /\ flag
  /\ Step(t, "b_test", "b_unlock")
  /\ flag' = FALSE
  /\ UNCHANGED <<mutex, budget>>

BlockUnlock(t) ==
  /\ Step(t, "b_unlock", "idle")
  /\ mutex' = NoThread
  /\ UNCHANGED <<flag, budget>>

SignalLock(t) == Step(t, "s_lock", "s_set") /\ Acquire(t) /\ UNCHANGED <<flag, budget>>

SignalSet(t) ==
  /\ Step(t, "s_set", "s_unlock")
  /\ flag' = TRUE
  /\ UNCHANGED <<mutex, budget>>

SignalUnlock(t) ==
  /\ Step(t, "s_unlock", "s_wake")
  /\ mutex' = NoThread
  /\ UNCHANGED <<flag, budget>>

(* Bug: nobody is woken.                                                   *)
SignalWakeNobody(t) ==
  /\ pc[t] = "s_wake"
  /\ pc' = [pc EXCEPT ![t] = "idle"]
  /\ UNCHANGED <<flag, mutex, budget>>

(* pthread_cond_signal, after the mutex was released: one sleeper, if any. *)
SignalWake(t) ==
  /\ pc[t] = "s_wake"
  /\ \/ /\ Sleepers = {}
        /\ pc' = [pc EXCEPT ![t] = "idle"]
     \/ \E u \in Sleepers : pc' = [pc EXCEPT ![t] = "idle", ![u] = "b_relock"]
  /\ UNCHANGED <<flag, mutex, budget>>

Progress(t) ==
  \/ BlockLock(t) \/ BlockSleep(t) \/ BlockRelock(t) \/ BlockTake(t) \/ BlockUnlock(t)
  \/ SignalLock(t) \/ SignalSet(t) \/ SignalUnlock(t) \/ SignalWake(t)

Next == \E t \in Threads : CallBlock(t) \/ CallSignal(t) \/ SpuriousWake(t) \/ Progress(t)

Spec == Init /\ [][Next]_vars

(* A thread inside lock.cpp is eventually scheduled; nobody has to call    *)
(* in, and wakeups without a signal cannot be counted on.                  *)
FairSpec == Spec /\ \A t \in Threads : WF_vars(Progress(t))

------------------------------------------------------------------------------
(* The flag is read and written by the mutex's owner only: whoever is      *)
(* between lock and unlock in lock.cpp owns the mutex, so there is at most *)
(* one such thread.                                                        *)
OwnerInside ==
  \A t \in Threads : (pc[t] \in BlockHolding \cup SignalHolding) <=> mutex = t

(* No wakeup is lost although pthread_cond_signal follows the unlock: if   *)
(* the flag is up and somebody sleeps, another thread is still on its way  *)
(* to signal or to test the flag.                                          *)
OnTheWay == {"s_unlock", "s_wake", "b_lock", "b_relock", "b_test"}
NoLostWakeup ==
  flag /\ Sleepers # {} => \E t \in Threads : pc[t] \in OnTheWay

(* The pthread code implements the binary flag its callers rely on.        *)
Abstract == INSTANCE BinaryFlag
              WITH raised <- flag, blocked <- {t \in Threads : pc[t] \in Blocking}
ImplementsFlag     == Abstract!Spec
ImplementsFairFlag == Abstract!FairSpec
==============================================================================
