--------------------------- MODULE DdtpLocksProofs ---------------------------
(* The safety of lock.cpp's flags, for every set of threads and any number *)
(* of calls.  The inductive invariant is the conjunction of the three      *)
(* invariants of DdtpLocks: none of them is inductive without TypeOK, and  *)
(* OwnerInside is what makes a test of the flag and the sleep that follows *)
(* one step for everybody else.                                            *)
EXTENDS DdtpLocks, TLAPS

USE DEF PCs, Blocking, BlockHolding, SignalHolding

(* Every variable keeps its type.                                          *)
LEMMA TypeInit == Init => TypeOK
<1> SUFFICES ASSUME Init PROVE TypeOK
  OBVIOUS
<1>1. flag \in BOOLEAN /\ mutex \in Threads \cup {NoThread}
  BY DEF Init
<1>2. pc \in [Threads -> PCs]
  BY DEF Init
<1>3. budget \in [Threads -> 0 .. MaxCalls]
  BY MaxCallsAssumption DEF Init
<1> QED
  BY <1>1, <1>2, <1>3 DEF TypeOK

LEMMA TypeStep == TypeOK /\ [Next]_vars => TypeOK'
<1> SUFFICES ASSUME TypeOK, [Next]_vars
             PROVE  TypeOK'
  OBVIOUS
<1> USE MaxCallsAssumption DEF TypeOK
<1>1. CASE UNCHANGED vars
  BY <1>1 DEF vars
<1>2. ASSUME NEW t \in Threads, CallBlock(t) \/ CallSignal(t) \/ SpuriousWake(t)
      PROVE  TypeOK'
  BY <1>2 DEF CallBlock, CallSignal, SpuriousWake, Spend, Step
<1>3. ASSUME NEW t \in Threads, BlockLock(t) \/ BlockRelock(t) \/ SignalLock(t)
      PROVE  TypeOK'
  BY <1>3 DEF BlockLock, BlockRelock, SignalLock, Step, Acquire
<1>4. ASSUME NEW t \in Threads, BlockSleep(t) \/ BlockUnlock(t) \/ SignalUnlock(t)
      PROVE  TypeOK'
  BY <1>4 DEF BlockSleep, BlockUnlock, SignalUnlock, Step
<1>5. ASSUME NEW t \in Threads, BlockTake(t) \/ SignalSet(t)
      PROVE  TypeOK'
  BY <1>5 DEF BlockTake, SignalSet, Step
<1>6. ASSUME NEW t \in Threads, SignalWake(t)
      PROVE  TypeOK'
  BY <1>6 DEF SignalWake, Sleepers
<1>7. QED
  BY <1>1, <1>2, <1>3, <1>4, <1>5, <1>6 DEF Next, Progress

(* The type invariant of the flag code holds in every behaviour.           *)
THEOREM TypeCorrect == Spec => []TypeOK
  BY TypeInit, TypeStep, PTL DEF Spec

(* Only the owner of the mutex is between lock and unlock.                 *)
LEMMA OwnerStep == TypeOK /\ OwnerInside /\ [Next]_vars => OwnerInside'
<1> SUFFICES ASSUME TypeOK, OwnerInside, [Next]_vars
             PROVE  OwnerInside'
  OBVIOUS
<1> USE NoThreadAssumption DEF TypeOK, OwnerInside
<1>1. CASE UNCHANGED vars
  BY <1>1 DEF vars
<1>2. ASSUME NEW t \in Threads, CallBlock(t) \/ CallSignal(t) \/ SpuriousWake(t)
      PROVE  OwnerInside'
  BY <1>2 DEF CallBlock, CallSignal, SpuriousWake, Spend, Step
<1>3. ASSUME NEW t \in Threads, BlockLock(t) \/ BlockRelock(t) \/ SignalLock(t)
      PROVE  OwnerInside'
  BY <1>3 DEF BlockLock, BlockRelock, SignalLock, Step, Acquire
<1>4. ASSUME NEW t \in Threads, BlockSleep(t) \/ BlockUnlock(t) \/ SignalUnlock(t)
      PROVE  OwnerInside'
  BY <1>4 DEF BlockSleep, BlockUnlock, SignalUnlock, Step
<1>5. ASSUME NEW t \in Threads, BlockTake(t) \/ SignalSet(t)
      PROVE  OwnerInside'
  BY <1>5 DEF BlockTake, SignalSet, Step
<1>6. ASSUME NEW t \in Threads, SignalWake(t)
      PROVE  OwnerInside'
  BY <1>6 DEF SignalWake, Sleepers
<1>7. QED
  BY <1>1, <1>2, <1>3, <1>4, <1>5, <1>6 DEF Next, Progress

(* Threads inside a critical section of lock.cpp own its mutex, so no two  *)
(* of them read or write the flag at the same time.                        *)
THEOREM MutualExclusion == Spec => []OwnerInside
<1>1. Init => OwnerInside
  BY NoThreadAssumption DEF Init, OwnerInside
<1>2. QED
  BY <1>1, TypeCorrect, OwnerStep, PTL DEF Spec

------------------------------------------------------------------------------
LEMMA WakeupStep ==
  TypeOK /\ NoLostWakeup /\ [Next]_vars => NoLostWakeup'
<1> SUFFICES ASSUME TypeOK, NoLostWakeup, [Next]_vars, flag', Sleepers' # {}
             PROVE  \E t \in Threads : pc'[t] \in OnTheWay
  BY DEF NoLostWakeup
<1> USE DEF TypeOK, OnTheWay
<1>1. CASE UNCHANGED vars
  BY <1>1 DEF vars, NoLostWakeup, Sleepers
<1>2. ASSUME NEW t \in Threads,
             CallBlock(t) \/ CallSignal(t) \/ SpuriousWake(t) \/ BlockLock(t)
               \/ BlockRelock(t) \/ SignalLock(t) \/ BlockUnlock(t)
      PROVE  \E u \in Threads : pc'[u] \in OnTheWay
  <2>1. flag /\ Sleepers # {}
    BY <1>2 DEF CallBlock, CallSignal, SpuriousWake, BlockLock, BlockRelock, SignalLock,
                BlockUnlock, Step, Sleepers
  <2>2. PICK u \in Threads : pc[u] \in OnTheWay
    BY <2>1 DEF NoLostWakeup
  <2>3. pc'[u] \in OnTheWay
    BY <1>2, <2>2 DEF CallBlock, CallSignal, SpuriousWake, BlockLock, BlockRelock, SignalLock,
                      BlockUnlock, Step
  <2> QED
    BY <2>3
<1>3. ASSUME NEW t \in Threads, BlockSleep(t) \/ BlockTake(t)
      PROVE  FALSE
  BY <1>3 DEF BlockSleep, BlockTake
<1>4. ASSUME NEW t \in Threads, SignalSet(t) \/ SignalUnlock(t)
      PROVE  pc'[t] \in OnTheWay
  BY <1>4 DEF SignalSet, SignalUnlock, Step
<1>5. ASSUME NEW t \in Threads, SignalWake(t)
      PROVE  \E u \in Threads : pc'[u] \in OnTheWay
  <2>1. Sleepers # {}
    BY <1>5 DEF SignalWake, Sleepers
  <2>2. PICK u \in Sleepers : pc' = [pc EXCEPT ![t] = "idle", ![u] = "b_relock"]
    BY <1>5, <2>1 DEF SignalWake
  <2> QED
    BY <2>2 DEF Sleepers
<1>6. QED
  BY <1>1, <1>2, <1>3, <1>4, <1>5 DEF Next, Progress

(* Although lock.cpp signals the condition variable after it has released  *)
(* the mutex, a raised flag never stands beside a sleeper that nobody is   *)
(* going to wake.                                                          *)
THEOREM WakeupsAreNotLost == Spec => []NoLostWakeup
<1>1. Init => NoLostWakeup
  BY DEF Init, NoLostWakeup
<1>2. QED
  BY <1>1, TypeCorrect, WakeupStep, PTL DEF Spec

------------------------------------------------------------------------------
BlockedNow == {t \in Threads : pc[t] \in Blocking}

(* A step of the pthread code is a step of the binary flag or leaves it    *)
(* alone: lowering the flag is where a block takes effect, raising it is   *)
(* where a signal does.                                                    *)
LEMMA FlagStep == TypeOK /\ [Next]_vars => [Abstract!Next]_(Abstract!vars)
<1> SUFFICES ASSUME TypeOK, [Next]_vars
             PROVE  Abstract!Next \/ UNCHANGED <<flag, BlockedNow>>
  BY DEF Abstract!vars, BlockedNow
<1> USE DEF TypeOK, BlockedNow
<1>1. CASE UNCHANGED vars
  BY <1>1 DEF vars
<1>2. ASSUME NEW t \in Threads, CallBlock(t)
      PROVE  Abstract!Block(t)
  BY <1>2 DEF CallBlock, Step, Abstract!Block
<1>3. ASSUME NEW t \in Threads, BlockTake(t)
      PROVE  Abstract!Take(t)
  BY <1>3 DEF BlockTake, Step, Abstract!Take
<1>4. ASSUME NEW t \in Threads, SignalSet(t)
      PROVE  Abstract!Signal(t)
  BY <1>4 DEF SignalSet, Step, Abstract!Signal
<1>5. ASSUME NEW t \in Threads,
             CallSignal(t) \/ SpuriousWake(t) \/ BlockLock(t) \/ BlockSleep(t) \/ BlockRelock(t)
               \/ BlockUnlock(t) \/ SignalLock(t) \/ SignalUnlock(t)
      PROVE  UNCHANGED <<flag, BlockedNow>>
  BY <1>5 DEF CallSignal, SpuriousWake, BlockLock, BlockSleep, BlockRelock, BlockUnlock,
              SignalLock, SignalUnlock, Step
<1>6. ASSUME NEW t \in Threads, SignalWake(t)
      PROVE  UNCHANGED <<flag, BlockedNow>>
  BY <1>6 DEF SignalWake, Sleepers
<1>7. QED
  BY <1>1, <1>2, <1>3, <1>4, <1>5, <1>6 DEF Next, Progress, Abstract!Next

(* lock.cpp's block and signal implement an atomic binary flag: the rest   *)
(* of the server may be modelled with one step for each of them.           *)
THEOREM LocksImplementFlag == Spec => ImplementsFlag
<1>1. Init => Abstract!Init
  BY DEF Init, Abstract!Init
<1>2. QED
  BY <1>1, TypeCorrect, FlagStep, PTL DEF Spec, ImplementsFlag, Abstract!Spec
==============================================================================
