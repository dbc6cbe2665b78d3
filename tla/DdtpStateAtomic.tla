--------------------------- MODULE DdtpStateAtomic ---------------------------
(***************************************************************************)
(* The three threads of a session that serves data, as DdtpServer takes    *)
(* them: the entry thread learns the state, the async thread validates and *)
(* processes a request, and the watcher looks for the end, in one step     *)
(* each.  DdtpStateLock shows that they may be taken so.                   *)
(***************************************************************************)
EXTENDS DdtpProtocol

VARIABLES
  sm,                              \* the state of the state machine
  pcE, pcA, pcW,                   \* where the three threads are
  teller,                          \* the state the entry thread is about to tell
  dataReady, dataPend, statePend   \* the flags of lock.cpp

flags == <<dataReady, dataPend, statePend>>
vars  == <<sm, pcE, pcA, pcW, teller, flags>>

Init ==
  /\ sm = "data_ready" /\ teller = "none"
  /\ pcE = "check" /\ pcA = "read" /\ pcW = "gate"
  /\ dataReady = FALSE /\ dataPend = FALSE /\ statePend = TRUE

StepE(from, to) == pcE = from /\ pcE' = to /\ UNCHANGED <<pcA, pcW>>
StepA(from, to) == pcA = from /\ pcA' = to /\ UNCHANGED <<pcE, pcW, teller>>
StepW(from, to) == pcW = from /\ pcW' = to /\ UNCHANGED <<sm, pcE, pcA, teller>>

------------------------------------------------------------------------------
(* The entry thread.                                                       *)

Observe ==
  /\ StepE("observe", "announce")
  /\ teller' = sm
  /\ UNCHANGED <<sm, flags>>

Announce ==
  /\ StepE("announce", IF teller = "data_ready" THEN "await_data" ELSE "pend1")
  /\ teller \in {"data_ready", "unload_pend"} /\ teller' = "none"
  /\ statePend' = TRUE
  /\ UNCHANGED <<sm, dataReady, dataPend>>

ServeData ==
  /\ dataReady
  /\ StepE("await_data", "check")
  /\ dataReady' = FALSE /\ dataPend' = TRUE
  /\ UNCHANGED <<sm, teller, statePend>>

AwaitPend(from, to) ==
  /\ dataPend
  /\ StepE(from, to)
  /\ dataPend' = FALSE
  /\ UNCHANGED <<sm, teller, dataReady, statePend>>

Terminate ==
  /\ StepE("terminate", "announce_x")
  /\ sm' = ServerOn(sm, "terminate")
  /\ UNCHANGED <<teller, flags>>

AnnounceEnd ==
  /\ StepE("announce_x", "pend2")
  /\ statePend' = TRUE
  /\ UNCHANGED <<sm, teller, dataReady, dataPend>>

Check ==
  /\ StepE("check", IF sm = "X" THEN "done" ELSE "observe")
  /\ UNCHANGED <<sm, teller, flags>>

Entry == \/ Observe \/ Announce \/ ServeData
         \/ AwaitPend("pend1", "terminate") \/ Terminate \/ AnnounceEnd
         \/ AwaitPend("pend2", "check") \/ Check

------------------------------------------------------------------------------
(* The async request thread: a request the state allows, or the event      *)
(* terminate.                                                              *)
AsyncRead(type) ==
  /\ IF type = "UNLOAD_REQUEST" /\ sm = "data_ready"
       THEN StepA("read", "unload") /\ UNCHANGED sm
       ELSE StepA("read", "read") /\ sm' = ServerOn(sm, "terminate")
  /\ UNCHANGED flags

AsyncUnload ==
  /\ StepA("unload", "notify")
  /\ sm' = ServerOn(sm, "unload_request")
  /\ UNCHANGED flags

AsyncNotify ==
  /\ StepA("notify", "done")
  /\ dataReady' = TRUE
  /\ UNCHANGED <<sm, dataPend, statePend>>

Async == (\E type \in Requests : AsyncRead(type)) \/ AsyncUnload \/ AsyncNotify

------------------------------------------------------------------------------
(* The watcher.                                                            *)

WatchGate ==
  /\ statePend
  /\ StepW("gate", "look")
  /\ statePend' = FALSE
  /\ UNCHANGED <<dataReady, dataPend>>

WatchLook == StepW("look", IF sm = "X" THEN "leave" ELSE "poll") /\ UNCHANGED flags

WatchPoll ==
  /\ StepW("poll", "gate")
  /\ dataReady' = TRUE
  /\ UNCHANGED <<dataPend, statePend>>

WatchLeave ==
  /\ StepW("leave", "done")
  /\ dataPend' = TRUE
  /\ UNCHANGED <<dataReady, statePend>>

Watcher == WatchGate \/ WatchLook \/ WatchPoll \/ WatchLeave

Next == Entry \/ Async \/ Watcher

Spec == Init /\ [][Next]_vars
==============================================================================
