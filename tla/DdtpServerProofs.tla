-------------------------- MODULE DdtpServerProofs --------------------------
(* Safety of the server for every set of records, every crc function and   *)
(* every combination of failures and bounds.                               *)
EXTENDS DdtpServer, DdtpDeliveryProofs, TLAPS

USE DEF flags, machine, records, threads, kernel, wire

------------------------------------------------------------------------------
(* Who may change what.  Each lemma names the actions that touch a group   *)
(* of variables; every other step leaves the group alone.                  *)

LEMMA RecordsFrame ==
  ASSUME [Next]_vars
  PROVE  \/ UNCHANGED records
         \/ Accepting \/ SkipEvent \/ (\E r \in Records : HandleRecord(r))
         \/ SendRecord \/ ClearDedup
<1>1. CASE UNCHANGED vars
  BY <1>1 DEF vars
<1>2. CASE Environment
  BY <1>2 DEF Environment, ClientRequest, ClientLeaves, FileEvent
<1>3. CASE JoinEntry
  BY <1>3 DEF JoinEntry
<1>4. CASE \E s \in Sessions : Watcher(s) \/ Async(s)
  BY <1>4 DEF Watcher, WatchCount, WatchGate, WatchLook, WatchPoll, WatchNotify, WatchLeave,
              Async, AsyncRead, AsyncUnload, AsyncNotify
<1>5. CASE Entry
  <2>1. CASE EntryBegin \/ Observe \/ Announce \/ Check \/ ReadRequest \/ OpenWatch
             \/ TakeReference \/ SpawnWatcher \/ ReleaseReference
    BY <2>1 DEF EntryBegin, Observe, Announce, Check, ReadRequest, OpenWatch, TakeReference,
                SpawnWatcher, ReleaseReference
  <2>2. CASE Answer \/ ApplyLoad \/ SpawnAsync \/ AwaitData \/ ReadError \/ ReadDry
    BY <2>2 DEF Answer, BrokenPipe, ApplyLoad, SpawnAsync, AwaitData, ReadError, ReadDry
  <2>3. CASE Handled \/ Drained \/ AwaitRound \/ Terminate \/ AnnounceEnd \/ AwaitWatcher
    BY <2>3 DEF Handled, Drained, SignalPend, AwaitRound, AwaitWatcher, AwaitPend, Terminate,
                AnnounceEnd
  <2> QED
    BY <1>5, <2>1, <2>2, <2>3 DEF Entry
<1>6. QED
  BY <1>1, <1>2, <1>3, <1>4, <1>5 DEF Next

LEMMA KernelFrame ==
  ASSUME [Next]_vars
  PROVE  \/ UNCHANGED kernel
         \/ (\E s \in Sessions, event \in Events : FileEvent(s, event))
         \/ OpenWatch \/ SkipEvent \/ (\E r \in Records : HandleRecord(r))
<1>1. CASE UNCHANGED vars
  BY <1>1 DEF vars
<1>2. CASE Environment
  BY <1>2 DEF Environment, ClientRequest, ClientLeaves
<1>3. CASE Accepting \/ JoinEntry
  BY <1>3 DEF Accepting, RunSession, SessionFails, AcceptClient, JoinEntry
<1>4. CASE \E s \in Sessions : Watcher(s) \/ Async(s)
  BY <1>4 DEF Watcher, WatchCount, WatchGate, WatchLook, WatchPoll, WatchNotify, WatchLeave,
              Async, AsyncRead, AsyncUnload, AsyncNotify
<1>5. CASE Entry
  <2>1. CASE EntryBegin \/ Observe \/ Announce \/ Check \/ ReadRequest
             \/ TakeReference \/ SpawnWatcher \/ ReleaseReference
    BY <2>1 DEF EntryBegin, Observe, Announce, Check, ReadRequest, TakeReference,
                SpawnWatcher, ReleaseReference
  <2>2. CASE Answer \/ ApplyLoad \/ SpawnAsync \/ AwaitData \/ ReadError \/ ReadDry
             \/ SendRecord
    BY <2>2 DEF Answer, BrokenPipe, ApplyLoad, SpawnAsync, AwaitData, ReadError, ReadDry,
                SendRecord
  <2>3. CASE Handled \/ Drained \/ AwaitRound \/ Terminate \/ AnnounceEnd \/ AwaitWatcher
             \/ ClearDedup
    BY <2>3 DEF Handled, Drained, SignalPend, AwaitRound, AwaitWatcher, AwaitPend, Terminate,
                AnnounceEnd, ClearDedup
  <2> QED
    BY <1>5, <2>1, <2>2, <2>3 DEF Entry
<1>6. QED
  BY <1>1, <1>2, <1>3, <1>4, <1>5 DEF Next

LEMMA WireFrame ==
  ASSUME [Next]_vars
  PROVE  \/ UNCHANGED wire
         \/ (\E type \in Payloads : ClientRequest(type)) \/ ClientLeaves
         \/ Accepting \/ JoinEntry \/ ReadRequest \/ Answer
         \/ (\E s \in Sessions : AsyncRead(s))
<1>1. CASE UNCHANGED vars
  BY <1>1 DEF vars
<1>2. CASE Environment
  BY <1>2 DEF Environment, FileEvent
<1>3. CASE Accepting \/ JoinEntry
  BY <1>3
<1>4. CASE \E s \in Sessions : Watcher(s) \/ Async(s)
  BY <1>4 DEF Watcher, WatchCount, WatchGate, WatchLook, WatchPoll, WatchNotify, WatchLeave,
              Async, AsyncUnload, AsyncNotify
<1>5. CASE Entry
  <2>1. CASE EntryBegin \/ Observe \/ Announce \/ Check \/ OpenWatch
             \/ TakeReference \/ SpawnWatcher \/ ReleaseReference
    BY <2>1 DEF EntryBegin, Observe, Announce, Check, OpenWatch, TakeReference,
                SpawnWatcher, ReleaseReference
  <2>2. CASE ApplyLoad \/ SpawnAsync \/ AwaitData \/ ReadError \/ ReadDry
             \/ SendRecord \/ SkipEvent \/ (\E r \in Records : HandleRecord(r))
    BY <2>2 DEF ApplyLoad, SpawnAsync, AwaitData, ReadError, ReadDry,
                SendRecord, BrokenPipe, SkipEvent, HandleRecord, Take
  <2>3. CASE Handled \/ Drained \/ AwaitRound \/ Terminate \/ AnnounceEnd \/ AwaitWatcher
             \/ ClearDedup
    BY <2>3 DEF Handled, Drained, SignalPend, AwaitRound, AwaitWatcher, AwaitPend, Terminate,
                AnnounceEnd, ClearDedup
  <2> QED
    BY <1>5, <2>1, <2>2, <2>3 DEF Entry
<1>6. QED
  BY <1>1, <1>2, <1>3, <1>4, <1>5 DEF Next

LEMMA MachineFrame ==
  ASSUME [Next]_vars
  PROVE  \/ UNCHANGED machine
         \/ Accepting \/ Observe \/ ReadRequest \/ OpenWatch \/ TakeReference \/ SpawnWatcher
         \/ ReleaseReference \/ ApplyLoad \/ Terminate \/ ReadError
         \/ (\E s \in Sessions : AsyncRead(s) \/ AsyncUnload(s))
<1>1. CASE UNCHANGED vars
  BY <1>1 DEF vars
<1>2. CASE Environment
  BY <1>2 DEF Environment, ClientRequest, ClientLeaves, FileEvent
<1>3. CASE JoinEntry
  BY <1>3 DEF JoinEntry
<1>4. CASE \E s \in Sessions : Watcher(s) \/ Async(s)
  BY <1>4 DEF Watcher, WatchCount, WatchGate, WatchLook, WatchPoll, WatchNotify, WatchLeave,
              Async, AsyncNotify
<1>5. CASE Entry
  <2>1. CASE EntryBegin \/ Announce \/ Check \/ Answer \/ SpawnAsync \/ AwaitData
    BY <2>1 DEF EntryBegin, Announce, Check, Answer, BrokenPipe, SpawnAsync, AwaitData
  <2>2. CASE ReadDry \/ SendRecord \/ SkipEvent \/ (\E r \in Records : HandleRecord(r))
    BY <2>2 DEF ReadDry, SendRecord, BrokenPipe, SkipEvent, HandleRecord, Take
  <2>3. CASE Handled \/ Drained \/ AwaitRound \/ AnnounceEnd \/ AwaitWatcher \/ ClearDedup
    BY <2>3 DEF Handled, Drained, SignalPend, AwaitRound, AwaitWatcher, AwaitPend,
                AnnounceEnd, ClearDedup
  <2> QED
    BY <1>5, <2>1, <2>2, <2>3 DEF Entry
<1>6. QED
  BY <1>1, <1>2, <1>3, <1>4, <1>5 DEF Next

LEMMA FlagsFrame ==
  ASSUME [Next]_vars
  PROVE  \/ UNCHANGED flags
         \/ Accepting \/ Announce \/ AwaitData \/ Handled \/ Drained
         \/ AwaitRound \/ AnnounceEnd \/ AwaitWatcher
         \/ (\E s \in Sessions : WatchGate(s) \/ WatchNotify(s) \/ WatchLeave(s) \/ AsyncNotify(s))
<1>1. CASE UNCHANGED vars
  BY <1>1 DEF vars
<1>2. CASE Environment
  BY <1>2 DEF Environment, ClientRequest, ClientLeaves, FileEvent
<1>3. CASE JoinEntry
  BY <1>3 DEF JoinEntry
<1>4. CASE \E s \in Sessions : Watcher(s) \/ Async(s)
  BY <1>4 DEF Watcher, WatchCount, WatchLook, WatchPoll, Async, AsyncRead, AsyncUnload
<1>5. CASE Entry
  <2>1. CASE EntryBegin \/ Observe \/ Check \/ ReadRequest \/ OpenWatch
             \/ TakeReference \/ SpawnWatcher \/ ReleaseReference
    BY <2>1 DEF EntryBegin, Observe, Check, ReadRequest, OpenWatch, TakeReference,
                SpawnWatcher, ReleaseReference
  <2>2. CASE Answer \/ ApplyLoad \/ SpawnAsync \/ ReadError \/ ReadDry \/ Terminate \/ ClearDedup
    BY <2>2 DEF Answer, BrokenPipe, ApplyLoad, SpawnAsync, ReadError, ReadDry, Terminate, ClearDedup
  <2>3. CASE SendRecord \/ SkipEvent \/ (\E r \in Records : HandleRecord(r))
    BY <2>3 DEF SendRecord, BrokenPipe, SkipEvent, HandleRecord, Take
  <2> QED
    BY <1>5, <2>1, <2>2, <2>3 DEF Entry
<1>6. QED
  BY <1>1, <1>2, <1>3, <1>4, <1>5 DEF Next

------------------------------------------------------------------------------
(* Types.                                                                  *)

LEMMA ServerOnType ==
  ASSUME NEW state \in ServerStates, NEW event
  PROVE  ServerOn(state, event) \in ServerStates
BY DEF ServerOn, ProcessEvent, Dispatch, Execute, Target, StateMapping, EventMapping,
       ServerTable, ServerStates

(* The entry thread only runs once a client was accepted.                  *)
Accepted == entryPc # "none" => session > 0

LEMMA ThreadsStep ==
  ASSUME ThreadsOK, Accepted, teller \in ServerStates, [Next]_vars
  PROVE  ThreadsOK' /\ Accepted'
<1> USE DEF ThreadsOK, Accepted
<1>1. CASE UNCHANGED vars
  BY <1>1 DEF vars
<1>2. CASE Environment
  BY <1>2 DEF Environment, ClientRequest, ClientLeaves, FileEvent
<1>3. CASE Accepting \/ JoinEntry
  <2>1. ASSUME AcceptClient
        PROVE  session' \in 0 .. MaxSessions /\ session' > 0
    BY <2>1, BoundsAssumption DEF AcceptClient
  <2>2. CASE RunSession \/ SessionFails
    BY <2>1, <2>2 DEF RunSession, SessionFails, AcceptClient, EntryPcs
  <2>3. CASE JoinEntry
    BY <2>3 DEF JoinEntry, EntryPcs
  <2> QED
    BY <1>3, <2>2, <2>3 DEF Accepting
<1>4. ASSUME NEW s \in Sessions, Watcher(s)
      PROVE  ThreadsOK' /\ Accepted'
  BY <1>4 DEF Watcher, WatchCount, WatchGate, WatchLook, WatchPoll, WatchNotify, WatchLeave,
              WatchStep, WatchPcs
<1>5. ASSUME NEW s \in Sessions, Async(s)
      PROVE  ThreadsOK' /\ Accepted'
  BY <1>5 DEF Async, AsyncRead, AsyncUnload, AsyncNotify, AsyncStep, AsyncPcs
<1>6. CASE Entry
  <2> USE DEF EntryStep, EntryOnly, EntryPcs
  <2>1. CASE EntryBegin \/ Observe \/ Check
    BY <2>1 DEF EntryBegin, Observe, Check
  <2>7. CASE Announce
    <3>1. BranchOf(teller) \in EntryPcs \/ teller \notin ServerStates
      BY DEF BranchOf, ServerStates
    <3> QED
      BY <2>7, <3>1 DEF Announce
  <2>2. CASE ReadRequest \/ OpenWatch \/ TakeReference \/ ReleaseReference
    BY <2>2 DEF ReadRequest, OpenWatch, LoadFails, TakeReference, ReleaseReference
  <2>3. CASE SpawnWatcher \/ SpawnAsync
    BY <2>3 DEF SpawnWatcher, SpawnAsync, WatchPcs, AsyncPcs
  <2>4. CASE Answer \/ ApplyLoad \/ AwaitData \/ ReadError \/ ReadDry
    BY <2>4 DEF Answer, BrokenPipe, ApplyLoad, AwaitData, ReadError, ReadDry
  <2>5. CASE SendRecord \/ SkipEvent \/ (\E r \in Records : HandleRecord(r))
    BY <2>5 DEF SendRecord, BrokenPipe, SkipEvent, HandleRecord, Take
  <2>6. CASE Handled \/ Drained \/ AwaitRound \/ Terminate \/ AnnounceEnd \/ AwaitWatcher
             \/ ClearDedup
    BY <2>6 DEF Handled, Drained, SignalPend, AwaitRound, AwaitWatcher, AwaitPend, Terminate,
                AnnounceEnd, ClearDedup
  <2> QED
    BY <1>6, <2>1, <2>2, <2>3, <2>4, <2>5, <2>6, <2>7 DEF Entry
<1>7. QED
  BY <1>1, <1>2, <1>3, <1>4, <1>5, <1>6 DEF Next

LEMMA FlagsStep ==
  ASSUME FlagsOK, [Next]_vars
  PROVE  FlagsOK'
BY FlagsFrame DEF FlagsOK, Accepting, RunSession, SessionFails, AcceptClient, Announce, AwaitData,
   Handled, Drained, SignalPend, AwaitRound, AwaitWatcher, AwaitPend, AnnounceEnd, WatchGate,
   WatchNotify, WatchLeave, AsyncNotify

LEMMA MachineStep ==
  ASSUME MachineOK, [Next]_vars
  PROVE  MachineOK'
<1> USE DEF MachineOK, MaxReferences, ErrorCodes
<1>1. CASE UNCHANGED machine
  BY <1>1
<1>2. CASE Accepting
  BY <1>2 DEF Accepting, RunSession, SessionFails, AcceptClient, ServerStates
<1>3. CASE Observe \/ OpenWatch \/ TakeReference \/ SpawnWatcher
  BY <1>3 DEF Observe, OpenWatch, LoadFails, TakeReference, SpawnWatcher
<1>4. CASE ReleaseReference \/ ReadError
  BY <1>4 DEF ReleaseReference, ReadError, DropReference
<1>5. CASE ReadRequest \/ ApplyLoad \/ Terminate
  BY <1>5, ServerOnType DEF ReadRequest, Reject, ApplyLoad, Terminate
<1>6. CASE \E s \in Sessions : AsyncRead(s) \/ AsyncUnload(s)
  BY <1>6, ServerOnType DEF AsyncRead, Reject, AsyncUnload
<1>7. QED
  BY <1>1, <1>2, <1>3, <1>4, <1>5, <1>6, MachineFrame

LEMMA RecordsStep ==
  ASSUME RecordsOK, [Next]_vars
  PROVE  RecordsOK'
<1> USE DEF RecordsOK
<1>1. CASE UNCHANGED records
  BY <1>1
<1>2. CASE Accepting
  <2>1. UNCHANGED <<gq, gdm>> /\ sent' = <<>> /\ taken' = <<>>
    BY <1>2 DEF Accepting, RunSession, SessionFails, AcceptClient
  <2> QED
    BY <2>1
<1>3. CASE SkipEvent
  BY <1>3 DEF SkipEvent, Take
<1>4. ASSUME NEW r \in Records, HandleRecord(r)
      PROVE  RecordsOK'
  <2>1. taken' = Append(taken, r) /\ UNCHANGED sent
    BY <1>4 DEF HandleRecord, Take
  <2>2. \/ UNCHANGED <<gq, gdm>>
        \/ gq' = Append(gq, r) /\ gdm' = gdm \cup {CrcOf[r]}
    BY <1>4 DEF HandleRecord
  <2>3. CrcOf[r] \in Crcs
    BY DataAssumption
  <2>4. taken' \in Seq(Records \cup {PidZero}) /\ sent' \in Seq(Records)
    BY <2>1
  <2>5. Append(gq, r) \in Seq(Records)
    OBVIOUS
  <2>6. gq' \in Seq(Records)
    BY <2>2, <2>5
  <2>7. gdm' \subseteq Crcs
    BY <2>2, <2>3
  <2> QED
    BY <2>4, <2>6, <2>7
<1>5. CASE SendRecord
  <2>1. gq # <<>> /\ UNCHANGED <<gdm, taken>>
    BY <1>5 DEF SendRecord, BrokenPipe
  <2>2. \/ UNCHANGED <<gq, sent>>
        \/ gq' = Tail(gq) /\ (sent' = sent \/ sent' = Append(sent, Head(gq)))
    BY <1>5 DEF SendRecord, BrokenPipe
  <2>3. Tail(gq) \in Seq(Records) /\ Append(sent, Head(gq)) \in Seq(Records)
    BY <2>1
  <2> QED
    BY <2>1, <2>2, <2>3
<1>6. CASE ClearDedup
  BY <1>6 DEF ClearDedup
<1>7. QED
  BY <1>1, <1>2, <1>3, <1>4, <1>5, <1>6, RecordsFrame

LEMMA KernelStep ==
  ASSUME KernelOK, ThreadsOK, Accepted, [Next]_vars
  PROVE  KernelOK'
<1> USE DEF KernelOK
<1>1. CASE UNCHANGED kernel
  BY <1>1
<1>2. ASSUME NEW s \in Sessions, NEW event \in Events, FileEvent(s, event)
      PROVE  KernelOK'
  BY <1>2, BoundsAssumption DEF FileEvent
<1>3. CASE OpenWatch
  <2>1. UNCHANGED <<kq, nEvents>> /\ (UNCHANGED watched \/ watched' = watched \cup {session})
    BY <1>3 DEF OpenWatch, LoadFails
  <2>2. session \in Sessions
    BY <1>3, BoundsAssumption DEF OpenWatch, LoadFails, EntryStep, ThreadsOK, Accepted, Sessions
  <2> QED
    BY <2>1, <2>2
<1>4. ASSUME NEW event, Take(event)
      PROVE  KernelOK'
  <2>1. kq[session] # <<>> /\ UNCHANGED <<watched, nEvents>>
    BY <1>4 DEF Take
  <2>2. kq' = [kq EXCEPT ![session] = Tail(kq[session])]
    BY <1>4 DEF Take
  <2>3. session \in Sessions => Tail(kq[session]) \in Seq(Events)
    BY <2>1
  <2>4. kq' \in [Sessions -> Seq(Events)]
    BY <2>2, <2>3
  <2> QED
    BY <2>1, <2>4
<1>5. QED
  BY <1>1, <1>2, <1>3, <1>4, KernelFrame DEF SkipEvent, HandleRecord

LEMMA WireStep ==
  ASSUME WireOK, errorCode \in ErrorCodes, [Next]_vars
  PROVE  WireOK'
<1> USE DEF WireOK
<1>1. CASE UNCHANGED wire
  BY <1>1
<1>2. ASSUME NEW type \in Payloads, ClientRequest(type)
      PROVE  WireOK'
  BY <1>2, BoundsAssumption DEF ClientRequest
<1>3. CASE ClientLeaves \/ JoinEntry
  BY <1>3 DEF ClientLeaves, JoinEntry
<1>4. CASE Accepting
  <2>1. inbox' = <<>> /\ nRequests' = 0 /\ reply' = <<>> /\ peer' \in {"open", "closed"}
    BY <1>4 DEF Accepting, RunSession, SessionFails, AcceptClient
  <2> QED
    BY <2>1, BoundsAssumption
<1>5. ASSUME NEW type \in Payloads, Receive(type), UNCHANGED <<nRequests, peer, reply>>
      PROVE  WireOK'
  BY <1>5 DEF Receive
<1>6. CASE Answer
  BY <1>6 DEF Answer, BrokenPipe
<1>7. QED
  BY <1>1, <1>2, <1>3, <1>4, <1>5, <1>6, WireFrame DEF ReadRequest, AsyncRead

TypeInv == TypeOK /\ Accepted

LEMMA TypeStep == TypeInv /\ [Next]_vars => TypeInv'
BY ThreadsStep, FlagsStep, MachineStep, RecordsStep, KernelStep, WireStep
   DEF TypeInv, TypeOK, MachineOK

LEMMA TypeInit == Init => TypeInv
<1> SUFFICES ASSUME Init
             PROVE  TypeInv
  OBVIOUS
<1>1. ThreadsOK /\ Accepted
  BY BoundsAssumption DEF Init, ThreadsOK, Accepted, EntryPcs, WatchPcs, AsyncPcs
<1>2. FlagsOK
  BY DEF Init, FlagsOK
<1>3. MachineOK
  BY DEF Init, MachineOK, ServerStates, MaxReferences, ErrorCodes
<1>4. RecordsOK
  BY DEF Init, RecordsOK
<1>5. KernelOK
  BY BoundsAssumption DEF Init, KernelOK
<1>6. WireOK
  BY BoundsAssumption DEF Init, WireOK
<1> QED
  BY <1>1, <1>2, <1>3, <1>4, <1>5, <1>6 DEF TypeInv, TypeOK

(* Every variable of the server keeps its type.                            *)
THEOREM ServerTypes == Spec => []TypeOK
<1>1. TypeInv => TypeOK
  BY DEF TypeInv
<1>2. QED
  BY <1>1, TypeInit, TypeStep, PTL DEF Spec

------------------------------------------------------------------------------
(* The strengthenings.  Loading, Serving and the branches in between: the  *)
(* entry thread's place decides which states the machine can be in, and    *)
(* what the other threads and the globals may look like.                   *)

Loading == {"open_watch", "take_ref", "spawn_watch", "drop_ref", "answer", "apply"}
Between == {"check", "observe", "announce"}
Serving == {"await_data", "handle", "handled", "drain"}
Unloading == {"data_ready", "unload_pend"}

(* The state machine against the entry thread.                             *)
EntryControl ==
  /\ entryPc \in {"begin", "request"} \cup Loading => sm = "load_wait"
  /\ entryPc = "spawn_async" => sm = IF errorCode = 0 THEN "data_ready" ELSE "X"
  /\ entryPc \in {"observe", "announce"} => sm # "X"
  /\ entryPc = "announce" =>
       /\ teller = "load_wait" <=> sm = "load_wait"
       /\ teller = "unload_pend" => sm = "unload_pend"
       /\ teller # "X"
  /\ entryPc \in Serving => sm \in Unloading
  /\ entryPc \in {"pend1", "terminate"} => sm = "unload_pend"
  /\ entryPc \in {"announce_x", "pend2", "clear"} => sm = "X"
  /\ mainPc = "accept" <=> entryPc = "none"

(* Only the async thread of the running session reads requests, and only   *)
(* while the machine is in data_ready: its rejections change nothing.      *)
AsyncControl ==
  \A s \in Sessions : asyncPc[s] \in {"read", "unload"} =>
    s = session /\ sm = "data_ready" /\ entryPc \in Between \cup Serving

(* Records are in gq while the entry thread handles them, and keys in gdm  *)
(* from there to the end of the unload_pend branch.                        *)
GlobalsControl ==
  /\ gq # <<>> => entryPc \in {"handle", "handled", "drain"}
  /\ gdm # {} =>
       \/ entryPc \in Serving \cup {"pend1", "terminate", "announce_x", "pend2", "clear"}
       \/ entryPc \in Between /\ sm \in Unloading

(* One answer, before the machine leaves load_wait.                        *)
ReplyControl ==
  /\ sm = "load_wait" => sent = <<>> /\ (entryPc # "apply" => reply = <<>>)
  /\ entryPc = "apply" => reply = <<errorCode>>
  /\ entryPc = "spawn_async" => sent = <<>>
  /\ sm \in Unloading => reply = <<0>>
  /\ Len(reply) <= 1
  /\ sent # <<>> => reply = <<0>>

(* A finished round leaves data_pend up until the first block lowers it.   *)
RoundControl ==
  /\ entryPc = "drain" => dataPend
  /\ sent # <<>> =>
       /\ entryPc \in {"observe", "announce", "pend1"} \cup Serving => dataPend
       /\ entryPc = "check" /\ sm # "X" => dataPend

(* Where the entry thread can be while a watcher lives.                    *)
WatchedRegion ==
  \/ entryPc \in {"answer", "apply"} /\ errorCode = 0
  \/ entryPc = "spawn_async" /\ sm = "data_ready"
  \/ entryPc \in Between /\ sm \in Unloading
  \/ entryPc \in Serving \cup {"pend1"}
  \/ entryPc \in {"terminate", "announce_x", "pend2"} /\ ~dataPend

WatcherControl ==
  "async_thread" \notin Faults =>
    \A s \in Sessions : Live(s) => s = session /\ WatchedRegion

(* The watcher of a session that serves data stays, and has its token.     *)
TokenControl ==
  Faults \cap HandshakeFaults = {} =>
    /\ entryPc \in {"spawn_watch", "drop_ref"} => refCount = 1
    /\ entryPc = "drop_ref" => errorCode # 0
    /\ (\/ entryPc \in {"answer", "apply"} /\ errorCode = 0
        \/ entryPc \in {"spawn_async"} \cup Between \cup Serving /\ sm = "data_ready") =>
          /\ refCount = 1
          /\ watchPc[session] \in {"count", "gate", "look", "poll", "notify"}
    /\ entryPc = "await_data" /\ sm = "data_ready" /\ ~dataReady =>
          statePend \/ watchPc[session] \in {"look", "poll", "notify"}

------------------------------------------------------------------------------
LEMMA ServerOnValues ==
  /\ ServerOn("load_wait", "load_fail") = "X"
  /\ ServerOn("load_wait", "load_success") = "data_ready"
  /\ ServerOn("load_wait", "terminate") = "load_wait"
  /\ ServerOn("data_ready", "terminate") = "data_ready"
  /\ ServerOn("data_ready", "unload_request") = "unload_pend"
  /\ ServerOn("unload_pend", "terminate") = "X"
<1> DEFINE Rows(state, event) == {r \in ServerTable : r[1] = state /\ r[2] = event}
<1>1. ASSUME NEW state, NEW event, NEW next, Rows(state, event) = {<<state, event, next>>}
      PROVE  ServerOn(state, event) = next
  <2>1. Rows(state, event) # {}
    BY <1>1
  <2>2. (CHOOSE r \in Rows(state, event) : TRUE) = <<state, event, next>>
    BY <1>1
  <2>3. ServerOn(state, event) = (CHOOSE r \in Rows(state, event) : TRUE)[3]
    BY <2>1 DEF ServerOn, ProcessEvent, Dispatch, Execute, Target, StateMapping, EventMapping
  <2>4. <<state, event, next>>[3] = next
    OBVIOUS
  <2> HIDE DEF Rows
  <2> QED
    BY <2>2, <2>3, <2>4
<1>2. ASSUME NEW state, NEW event, Rows(state, event) = {}
      PROVE  ServerOn(state, event) = state
  BY <1>2 DEF ServerOn, ProcessEvent, Dispatch, Execute, Target, StateMapping, EventMapping
<1>3. Rows("load_wait", "load_fail") = {<<"load_wait", "load_fail", "X">>}
  BY DEF ServerTable
<1>4. Rows("load_wait", "load_success") = {<<"load_wait", "load_success", "data_ready">>}
  BY DEF ServerTable
<1>5. Rows("data_ready", "unload_request") = {<<"data_ready", "unload_request", "unload_pend">>}
  BY DEF ServerTable
<1>6. Rows("unload_pend", "terminate") = {<<"unload_pend", "terminate", "X">>}
  BY DEF ServerTable
<1>7. Rows("load_wait", "terminate") = {} /\ Rows("data_ready", "terminate") = {}
  BY DEF ServerTable
<1> HIDE DEF Rows
<1>8. /\ ServerOn("load_wait", "load_fail") = "X"
      /\ ServerOn("load_wait", "load_success") = "data_ready"
  BY <1>1, <1>3, <1>4
<1>9. /\ ServerOn("data_ready", "unload_request") = "unload_pend"
      /\ ServerOn("unload_pend", "terminate") = "X"
  BY <1>1, <1>5, <1>6
<1>10. /\ ServerOn("load_wait", "terminate") = "load_wait"
       /\ ServerOn("data_ready", "terminate") = "data_ready"
  BY <1>2, <1>7
<1> QED
  BY <1>8, <1>9, <1>10

(* What a step of a watcher or of the environment cannot change.           *)
LEMMA OutsideFrame ==
  ASSUME Environment \/ (\E s \in Sessions : Watcher(s)) \/ UNCHANGED vars
  PROVE  UNCHANGED <<session, mainPc, entryPc, asyncPc, machine, records, reply>>
<1>1. CASE UNCHANGED vars
  BY <1>1 DEF vars
<1>2. CASE Environment
  BY <1>2 DEF Environment, ClientRequest, ClientLeaves, FileEvent
<1>3. CASE \E s \in Sessions : Watcher(s)
  BY <1>3 DEF Watcher, WatchCount, WatchGate, WatchLook, WatchPoll, WatchNotify, WatchLeave,
              WatchStep
<1> QED
  BY <1>1, <1>2, <1>3

(* The async thread under AsyncControl.                                    *)
LEMMA AsyncFrame ==
  ASSUME AsyncControl, NEW s \in Sessions, Async(s)
  PROVE  /\ UNCHANGED <<session, mainPc, entryPc, watchPc, teller, refCount, errorCode, records,
                       reply, dataPend, statePend>>
         /\ UNCHANGED sm \/ (AsyncUnload(s) /\ sm = "data_ready" /\ sm' = "unload_pend")
<1>1. CASE AsyncRead(s)
  BY <1>1, ServerOnValues DEF AsyncRead, AsyncStep, AsyncControl, Reject
<1>2. CASE AsyncUnload(s)
  BY <1>2, ServerOnValues DEF AsyncUnload, AsyncStep, AsyncControl
<1>3. CASE AsyncNotify(s)
  BY <1>3 DEF AsyncNotify, AsyncStep
<1> QED
  BY <1>1, <1>2, <1>3 DEF Async

LEMMA EntryControlStep ==
  ASSUME TypeInv, EntryControl, AsyncControl, [Next]_vars
  PROVE  EntryControl'
<1> USE DEF EntryControl, Loading, Serving, Unloading
<1>1. CASE Environment \/ (\E s \in Sessions : Watcher(s)) \/ UNCHANGED vars
  BY <1>1, OutsideFrame
<1>2. ASSUME NEW s \in Sessions, Async(s)
      PROVE  EntryControl'
  <2>1. CASE UNCHANGED sm
    BY <1>2, <2>1, AsyncFrame
  <2>2. CASE AsyncUnload(s) /\ sm = "data_ready" /\ sm' = "unload_pend"
    <3>1. entryPc \in Between \cup Serving
      BY <2>2 DEF AsyncUnload, AsyncStep, AsyncControl
    <3> QED
      BY <1>2, <2>2, <3>1, AsyncFrame DEF Between
  <2> QED
    BY <1>2, <2>1, <2>2, AsyncFrame
<1>3. CASE Accepting \/ JoinEntry
  <2>1. CASE RunSession
    BY <2>1 DEF RunSession, AcceptClient
  <2>2. CASE SessionFails
    <3>1. entryPc' = "none" /\ mainPc' = "accept"
      BY <2>2 DEF SessionFails, AcceptClient
    <3> QED
      BY <3>1
  <2>3. CASE JoinEntry
    BY <2>3 DEF JoinEntry
  <2> QED
    BY <1>3, <2>1, <2>2, <2>3 DEF Accepting
<1>4. CASE Entry
  <2> USE DEF EntryStep, EntryOnly, Running
  <2>1. CASE EntryBegin \/ Observe \/ Check
    BY <2>1 DEF EntryBegin, Observe, Check, TypeInv, TypeOK, MachineOK, ServerStates
  <2>2. CASE Announce
    BY <2>2 DEF Announce, BranchOf, TypeInv, TypeOK, MachineOK, ServerStates
  <2>3. CASE ReadRequest
    BY <2>3, ServerOnValues DEF ReadRequest, Reject
  <2>4. CASE OpenWatch \/ TakeReference \/ ReleaseReference
    BY <2>4 DEF OpenWatch, LoadFails, TakeReference, ReleaseReference
  <2>5. CASE SpawnWatcher
    BY <2>5 DEF SpawnWatcher
  <2>6. CASE Answer \/ SpawnAsync
    BY <2>6 DEF Answer, BrokenPipe, SpawnAsync
  <2>7. CASE ApplyLoad \/ Terminate
    BY <2>7, ServerOnValues DEF ApplyLoad, Terminate
  <2>8. CASE AwaitData \/ ReadError \/ ReadDry
    BY <2>8 DEF AwaitData, ReadError, ReadDry
  <2>9. CASE SendRecord \/ SkipEvent \/ (\E r \in Records : HandleRecord(r))
    BY <2>9 DEF SendRecord, BrokenPipe, SkipEvent, HandleRecord, Take
  <2>10. CASE Handled \/ Drained
    BY <2>10 DEF Handled, Drained, SignalPend
  <2>11. CASE AwaitRound \/ AnnounceEnd \/ AwaitWatcher \/ ClearDedup
    BY <2>11 DEF AwaitRound, AwaitWatcher, AwaitPend, AnnounceEnd, ClearDedup
  <2> QED
    BY <1>4, <2>1, <2>2, <2>3, <2>4, <2>5, <2>6, <2>7, <2>8, <2>9, <2>10, <2>11 DEF Entry
<1>5. QED
  BY <1>1, <1>2, <1>3, <1>4 DEF Next

LEMMA AsyncControlStep ==
  ASSUME TypeInv, EntryControl, AsyncControl, [Next]_vars
  PROVE  AsyncControl'
<1> USE DEF AsyncControl, Between, Serving
<1>1. CASE Environment \/ (\E s \in Sessions : Watcher(s)) \/ UNCHANGED vars
  BY <1>1, OutsideFrame
<1>2. ASSUME NEW s \in Sessions, Async(s)
      PROVE  AsyncControl'
  <2>1. CASE AsyncRead(s)
    BY <2>1, ServerOnValues DEF AsyncRead, AsyncStep, Reject, TypeInv, TypeOK, ThreadsOK
  <2>2. CASE AsyncUnload(s) \/ AsyncNotify(s)
    BY <2>2, ServerOnValues DEF AsyncUnload, AsyncNotify, AsyncStep, TypeInv, TypeOK, ThreadsOK
  <2> QED
    BY <1>2, <2>1, <2>2 DEF Async
<1>3. CASE Accepting \/ JoinEntry
  <2>1. entryPc \in {"none", "done"}
    BY <1>3 DEF Accepting, RunSession, SessionFails, AcceptClient, JoinEntry, EntryControl
  <2>2. UNCHANGED asyncPc
    BY <1>3 DEF Accepting, RunSession, SessionFails, AcceptClient, JoinEntry
  <2> QED
    BY <2>1, <2>2
<1>4. CASE SpawnAsync
  BY <1>4 DEF SpawnAsync, EntryStep, TypeInv, TypeOK, ThreadsOK
<1>5. CASE EntryBegin \/ ReadRequest \/ OpenWatch \/ TakeReference \/ SpawnWatcher
           \/ ReleaseReference
  BY <1>5 DEF EntryBegin, ReadRequest, OpenWatch, LoadFails, TakeReference, SpawnWatcher,
              ReleaseReference, EntryStep, EntryOnly
<1>6. CASE Answer \/ ApplyLoad \/ Terminate \/ AwaitRound \/ AnnounceEnd \/ AwaitWatcher
           \/ ClearDedup
  BY <1>6 DEF Answer, BrokenPipe, ApplyLoad, Terminate, AwaitRound, AwaitWatcher, AwaitPend,
              AnnounceEnd, ClearDedup, EntryStep, EntryOnly
<1>7. CASE Observe \/ Check \/ AwaitData \/ ReadError \/ ReadDry
  BY <1>7 DEF Observe, Check, AwaitData, ReadError, ReadDry, EntryStep, EntryOnly
<1>8. CASE Announce
  BY <1>8 DEF Announce, BranchOf, EntryStep, EntryOnly, EntryControl, TypeInv, TypeOK, MachineOK,
              ServerStates
<1>9. CASE SendRecord \/ SkipEvent \/ (\E r \in Records : HandleRecord(r)) \/ Handled \/ Drained
  BY <1>9 DEF SendRecord, BrokenPipe, SkipEvent, HandleRecord, Take, Handled, Drained, SignalPend,
              EntryStep, EntryOnly
<1>10. QED
  BY <1>1, <1>2, <1>3, <1>4, <1>5, <1>6, <1>7, <1>8, <1>9 DEF Next, Entry

LEMMA GlobalsControlStep ==
  ASSUME TypeInv, EntryControl, AsyncControl, GlobalsControl, [Next]_vars
  PROVE  GlobalsControl'
<1> USE DEF GlobalsControl, EntryControl, Between, Serving, Unloading, Loading
<1>1. CASE Environment \/ (\E s \in Sessions : Watcher(s)) \/ UNCHANGED vars
  BY <1>1, OutsideFrame
<1>2. ASSUME NEW s \in Sessions, Async(s)
      PROVE  GlobalsControl'
  BY <1>2, AsyncFrame
<1>3. CASE Accepting \/ JoinEntry
  BY <1>3 DEF Accepting, RunSession, SessionFails, AcceptClient, JoinEntry
<1>4. CASE Entry
  <2> USE DEF EntryStep, EntryOnly
  <2>1. CASE EntryBegin \/ Observe \/ Check
    BY <2>1 DEF EntryBegin, Observe, Check, TypeInv, TypeOK, MachineOK, ServerStates
  <2>2. CASE Announce
    BY <2>2 DEF Announce, BranchOf, TypeInv, TypeOK, MachineOK, ServerStates
  <2>3. CASE ReadRequest \/ OpenWatch \/ TakeReference \/ ReleaseReference \/ SpawnWatcher
    BY <2>3 DEF ReadRequest, OpenWatch, LoadFails, TakeReference, ReleaseReference, SpawnWatcher
  <2>4. CASE Answer \/ SpawnAsync \/ ApplyLoad \/ Terminate
    BY <2>4 DEF Answer, BrokenPipe, SpawnAsync, ApplyLoad, Terminate
  <2>5. CASE AwaitData \/ ReadError \/ ReadDry \/ Handled \/ Drained
    BY <2>5 DEF AwaitData, ReadError, ReadDry, Handled, Drained, SignalPend
  <2>6. CASE SendRecord \/ SkipEvent \/ (\E r \in Records : HandleRecord(r))
    BY <2>6 DEF SendRecord, BrokenPipe, SkipEvent, HandleRecord, Take
  <2>7. CASE AwaitRound \/ AnnounceEnd \/ AwaitWatcher \/ ClearDedup
    BY <2>7 DEF AwaitRound, AwaitWatcher, AwaitPend, AnnounceEnd, ClearDedup
  <2> QED
    BY <1>4, <2>1, <2>2, <2>3, <2>4, <2>5, <2>6, <2>7 DEF Entry
<1>5. QED
  BY <1>1, <1>2, <1>3, <1>4 DEF Next

LEMMA ReplyControlStep ==
  ASSUME TypeInv, EntryControl, AsyncControl, ReplyControl, [Next]_vars
  PROVE  ReplyControl'
<1> USE DEF ReplyControl, EntryControl, Between, Serving, Unloading, Loading
<1>1. CASE Environment \/ (\E s \in Sessions : Watcher(s)) \/ UNCHANGED vars
  BY <1>1, OutsideFrame
<1>2. ASSUME NEW s \in Sessions, Async(s)
      PROVE  ReplyControl'
  BY <1>2, AsyncFrame
<1>3. CASE Accepting
  <2>1. sm' = "load_wait" /\ sent' = <<>> /\ reply' = <<>> /\ entryPc' \in {"none", "begin"}
    BY <1>3 DEF Accepting, RunSession, SessionFails, AcceptClient
  <2> QED
    BY <2>1
<1>4. CASE JoinEntry
  BY <1>4 DEF JoinEntry
<1>5. CASE Entry
  <2> USE DEF EntryStep, EntryOnly
  <2>1. CASE EntryBegin \/ Observe \/ Check
    BY <2>1 DEF EntryBegin, Observe, Check
  <2>2. CASE Announce
    BY <2>2 DEF Announce, BranchOf, TypeInv, TypeOK, MachineOK, ServerStates
  <2>3. CASE ReadRequest \/ OpenWatch \/ TakeReference \/ ReleaseReference \/ SpawnWatcher
    BY <2>3, ServerOnValues
       DEF ReadRequest, Reject, OpenWatch, LoadFails, TakeReference, ReleaseReference, SpawnWatcher
  <2>4. CASE Answer
    <3>1. CASE BrokenPipe("answer")
      BY <3>1 DEF BrokenPipe
    <3>2. CASE entryPc = "answer" /\ entryPc' = "apply" /\ reply' = Append(reply, errorCode)
               /\ UNCHANGED <<machine, records>>
      <4>1. reply' = <<errorCode>> /\ sent' = <<>> /\ sm' = "load_wait"
        BY <3>2
      <4> QED
        BY <3>2, <4>1
    <3> QED
      BY <2>4, <3>1, <3>2 DEF Answer
  <2>5. CASE ApplyLoad
    BY <2>5, ServerOnValues DEF ApplyLoad
  <2>6. CASE SpawnAsync \/ Terminate
    BY <2>6, ServerOnValues DEF SpawnAsync, Terminate
  <2>7. CASE AwaitData \/ ReadError \/ ReadDry \/ Handled \/ Drained
    BY <2>7 DEF AwaitData, ReadError, ReadDry, Handled, Drained, SignalPend
  <2>8. CASE SendRecord
    BY <2>8 DEF SendRecord, BrokenPipe
  <2>9. CASE SkipEvent \/ (\E r \in Records : HandleRecord(r))
    BY <2>9 DEF SkipEvent, HandleRecord, Take
  <2>10. CASE AwaitRound \/ AnnounceEnd \/ AwaitWatcher \/ ClearDedup
    BY <2>10 DEF AwaitRound, AwaitWatcher, AwaitPend, AnnounceEnd, ClearDedup
  <2> QED
    BY <1>5, <2>1, <2>2, <2>3, <2>4, <2>5, <2>6, <2>7, <2>8, <2>9, <2>10 DEF Entry
<1>6. QED
  BY <1>1, <1>2, <1>3, <1>4, <1>5 DEF Next

------------------------------------------------------------------------------
ServerInv == TypeInv /\ EntryControl /\ AsyncControl /\ GlobalsControl /\ ReplyControl

LEMMA ServerInvariant == Spec => []ServerInv
<1>1. Init => ServerInv
  <2> SUFFICES ASSUME Init
               PROVE  ServerInv
    OBVIOUS
  <2>1. EntryControl /\ AsyncControl
    BY DEF Init, EntryControl, AsyncControl, Loading, Serving
  <2>2. GlobalsControl /\ ReplyControl
    BY DEF Init, GlobalsControl, ReplyControl, Unloading
  <2> QED
    BY <2>1, <2>2, TypeInit DEF ServerInv
<1>2. ServerInv /\ [Next]_vars => ServerInv'
  BY TypeStep, EntryControlStep, AsyncControlStep, GlobalsControlStep, ReplyControlStep
     DEF ServerInv
<1>3. QED
  BY <1>1, <1>2, PTL DEF Spec

(* A new session starts with an empty gq and gdm, however the one before   *)
(* it ended and whatever threads it left behind.                           *)
THEOREM SessionsStartEmpty == Spec => []NothingLeftOver
<1>1. ServerInv => NothingLeftOver
  BY DEF ServerInv, GlobalsControl, NothingLeftOver, Serving, Between
<1>2. QED
  BY <1>1, ServerInvariant, PTL

(* A session answers once, and sends records only after LOAD_SUCCEED.      *)
THEOREM OneAnswerBeforeData == Spec => []AnswersOnceThenData
<1>1. ServerInv => AnswersOnceThenData
  BY DEF ServerInv, ReplyControl, AnswersOnceThenData
<1>2. QED
  BY <1>1, ServerInvariant, PTL

------------------------------------------------------------------------------
(* The session of a client that has left.                                  *)

(* Where its entry thread turns: validation rejects what the zeroed buffer *)
(* holds, and the tables have no row for terminate in either state.        *)
LEMMA AbandonedStep ==
  ASSUME ServerInv, Abandoned, [Next]_vars
  PROVE  Abandoned' \/ mainPc' = "killed"
<1> USE DEF Abandoned
<1> USE DEF ServerInv, EntryControl, AsyncControl, Serving, Between, Unloading
<1>1. session \in Sessions
  BY DEF TypeInv, TypeOK, ThreadsOK, Accepted, Sessions
<1>2. ASSUME NEW type, Receive(type)
      PROVE  ~Allowed(type) /\ UNCHANGED inbox
  BY <1>2 DEF Receive, Allowed
<1>3. CASE Environment \/ UNCHANGED vars
  <2>1. UNCHANGED <<session, mainPc, entryPc, asyncPc, sm>>
    BY <1>3, OutsideFrame
  <2>2. UNCHANGED <<peer, inbox>>
    BY <1>3 DEF Environment, ClientRequest, ClientLeaves, FileEvent, vars
  <2> QED
    BY <2>1, <2>2
<1>4. ASSUME NEW s \in Sessions, Watcher(s)
      PROVE  Abandoned'
  <2>1. UNCHANGED <<session, mainPc, entryPc, asyncPc, sm>>
    BY <1>4, OutsideFrame
  <2>2. UNCHANGED <<peer, inbox>>
    BY <1>4 DEF Watcher, WatchCount, WatchGate, WatchLook, WatchPoll, WatchNotify, WatchLeave
  <2> QED
    BY <2>1, <2>2
<1>5. ASSUME NEW s \in Sessions, Async(s)
      PROVE  Abandoned'
  <2>1. CASE AsyncRead(s)
    <3>1. s = session /\ sm = "data_ready" /\ asyncPc[s] = "read"
      BY <2>1 DEF AsyncRead, AsyncStep
    <3>2. UNCHANGED <<session, mainPc, entryPc, inbox, peer>> /\ sm' = sm
      BY <1>2, <2>1, <3>1, ServerOnValues DEF AsyncRead, AsyncStep, Reject
    <3>3. asyncPc' = [asyncPc EXCEPT ![s] = "read"]
      BY <1>2, <2>1 DEF AsyncRead, AsyncStep
    <3>4. asyncPc' = asyncPc
      BY <3>1, <3>3 DEF TypeInv, TypeOK, ThreadsOK
    <3> QED
      BY <3>2, <3>4
  <2>2. CASE AsyncUnload(s)
    BY <2>2 DEF AsyncUnload, AsyncStep
  <2>3. CASE AsyncNotify(s)
    <3>1. UNCHANGED <<session, mainPc, entryPc, sm, inbox, peer>>
      BY <2>3 DEF AsyncNotify, AsyncStep
    <3>2. asyncPc[s] = "notify" /\ asyncPc' = [asyncPc EXCEPT ![s] = "done"]
      BY <2>3 DEF AsyncNotify, AsyncStep
    <3>3. asyncPc[session] = "read" => asyncPc'[session] = "read"
      BY <3>2 DEF TypeInv, TypeOK, ThreadsOK
    <3> QED
      BY <3>1, <3>3
  <2> QED
    BY <1>5, <2>1, <2>2, <2>3 DEF Async
<1>6. CASE Accepting \/ JoinEntry
  BY <1>1, <1>6 DEF Accepting, RunSession, SessionFails, AcceptClient, JoinEntry
<1>7. CASE Entry
  <2> USE DEF EntryStep, EntryOnly
  <2>1. CASE EntryBegin \/ Observe \/ Check
    BY <1>1, <2>1 DEF EntryBegin, Observe, Check
  <2>2. CASE Announce
    BY <1>1, <2>2 DEF Announce, BranchOf, TypeInv, TypeOK, MachineOK, ServerStates
  <2>3. CASE ReadRequest
    BY <1>2, <1>1, <2>3, ServerOnValues DEF ReadRequest, Reject
  <2>4. CASE OpenWatch \/ TakeReference \/ SpawnWatcher \/ ReleaseReference
    BY <1>1, <2>4 DEF OpenWatch, LoadFails, TakeReference, SpawnWatcher, ReleaseReference
  <2>5. CASE Answer \/ ApplyLoad \/ SpawnAsync \/ Terminate
    BY <1>1, <2>5 DEF Answer, BrokenPipe, ApplyLoad, SpawnAsync, Terminate
  <2>6. CASE AwaitData \/ ReadError \/ ReadDry \/ Handled \/ Drained
    BY <1>1, <2>6 DEF AwaitData, ReadError, ReadDry, Handled, Drained, SignalPend
  <2>7. CASE SendRecord \/ SkipEvent \/ (\E r \in Records : HandleRecord(r))
    BY <1>1, <2>7 DEF SendRecord, BrokenPipe, SkipEvent, HandleRecord, Take
  <2>8. CASE AwaitRound \/ AnnounceEnd \/ AwaitWatcher \/ ClearDedup
    BY <1>1, <2>8 DEF AwaitRound, AwaitWatcher, AwaitPend, AnnounceEnd, ClearDedup
  <2> QED
    BY <1>7, <2>1, <2>2, <2>3, <2>4, <2>5, <2>6, <2>7, <2>8 DEF Entry
<1>8. QED
  BY <1>3, <1>4, <1>5, <1>6, <1>7 DEF Next

(* The session of a client that left without an unload request goes on     *)
(* for ever, against any interleaving, or a write ends the process.        *)
THEOREM AbandonedSessionsStay == Spec => AbandonedSessionStays
<1>1. ServerInv /\ [Next]_vars
        => [Abandoned => Abandoned' \/ mainPc' = "killed"]_vars
  BY AbandonedStep
<1>2. QED
  BY <1>1, ServerInvariant, PTL DEF Spec, AbandonedSessionStays

------------------------------------------------------------------------------
(* The hand-over of data_pend at the end of a session, and the watcher.    *)

(* A step of a watcher, of the environment or of nobody and data_pend.     *)
LEMMA OutsidePend ==
  ASSUME TypeInv, Environment \/ (\E s \in Sessions : Watcher(s)) \/ UNCHANGED vars
  PROVE  dataPend => dataPend'
<1>1. CASE UNCHANGED vars
  BY <1>1 DEF vars, flags
<1>2. CASE Environment
  BY <1>2 DEF Environment, ClientRequest, ClientLeaves, FileEvent, flags
<1>3. CASE \E s \in Sessions : Watcher(s)
  BY <1>3 DEF Watcher, WatchCount, WatchGate, WatchLook, WatchPoll, WatchNotify, WatchLeave, flags
<1> QED
  BY <1>1, <1>2, <1>3

LEMMA RoundControlStep ==
  ASSUME ServerInv, RoundControl, [Next]_vars
  PROVE  RoundControl'
<1> USE DEF RoundControl, Serving
<1> USE DEF ServerInv, EntryControl, ReplyControl, Loading, Unloading
<1>1. CASE Environment \/ (\E s \in Sessions : Watcher(s)) \/ UNCHANGED vars
  BY <1>1, OutsideFrame, OutsidePend
<1>2. ASSUME NEW s \in Sessions, Async(s)
      PROVE  RoundControl'
  BY <1>2, AsyncFrame
<1>3. CASE Accepting
  <2>1. sent' = <<>> /\ entryPc' \in {"none", "begin"}
    BY <1>3 DEF Accepting, RunSession, SessionFails, AcceptClient
  <2> QED
    BY <2>1
<1>4. CASE JoinEntry
  BY <1>4 DEF JoinEntry
<1>5. CASE Entry
  <2> USE DEF EntryStep, EntryOnly, flags, records, machine
  <2>1. CASE EntryBegin \/ Observe \/ Check
    BY <2>1 DEF EntryBegin, Observe, Check
  <2>2. CASE Announce
    BY <2>2 DEF Announce, BranchOf, TypeInv, TypeOK, MachineOK, ServerStates
  <2>3. CASE ReadRequest \/ OpenWatch \/ TakeReference \/ ReleaseReference \/ SpawnWatcher
    BY <2>3, ServerOnValues
       DEF ReadRequest, Reject, OpenWatch, LoadFails, TakeReference, ReleaseReference, SpawnWatcher
  <2>4. CASE Answer \/ ApplyLoad
    BY <2>4 DEF Answer, BrokenPipe, ApplyLoad
  <2>5. CASE SpawnAsync \/ Terminate
    BY <2>5 DEF SpawnAsync, Terminate
  <2>6. CASE AwaitData \/ ReadError \/ ReadDry \/ Handled \/ Drained
    BY <2>6 DEF AwaitData, ReadError, ReadDry, Handled, Drained, SignalPend
  <2>7. CASE SendRecord
    BY <2>7 DEF SendRecord, BrokenPipe
  <2>8. CASE SkipEvent \/ (\E r \in Records : HandleRecord(r))
    BY <2>8 DEF SkipEvent, HandleRecord, Take
  <2>9. CASE AwaitRound \/ AnnounceEnd \/ AwaitWatcher \/ ClearDedup
    BY <2>9 DEF AwaitRound, AwaitWatcher, AwaitPend, AnnounceEnd, ClearDedup
  <2> QED
    BY <1>5, <2>1, <2>2, <2>3, <2>4, <2>5, <2>6, <2>7, <2>8, <2>9 DEF Entry
<1>6. QED
  BY <1>1, <1>2, <1>3, <1>4, <1>5 DEF Next

(* A client that unloads after its first record never waits in the first   *)
(* block of the unload_pend branch: the rounds leave data_pend up.         *)
THEOREM UnloadFindsRound == Spec => []RoundBeforeUnload
<1>1. Init => RoundControl
  BY DEF Init, RoundControl
<1>2. ServerInv /\ RoundControl /\ [Next]_vars => RoundControl'
  BY RoundControlStep
<1>3. RoundControl => RoundBeforeUnload
  BY DEF RoundControl, RoundBeforeUnload
<1>4. QED
  BY <1>1, <1>2, <1>3, ServerInvariant, PTL DEF Spec

LEMMA WatcherControlStep ==
  ASSUME ServerInv, WatcherControl, [Next]_vars, "async_thread" \notin Faults
  PROVE  WatcherControl'
<1> USE DEF WatcherControl, WatchedRegion, Serving, Between, Live
<1> USE DEF ServerInv, EntryControl, Loading, Unloading
<1>1. CASE Environment \/ UNCHANGED vars
  BY <1>1, OutsideFrame DEF vars, Environment, ClientRequest, ClientLeaves, FileEvent
<1>2. ASSUME NEW s \in Sessions, Watcher(s)
      PROVE  WatcherControl'
  <2>1. UNCHANGED <<session, entryPc, machine>>
    BY <1>2, OutsideFrame
  <2>2. watchPc[s] \notin {"none", "done"} /\ \A u \in Sessions : u # s => watchPc'[u] = watchPc[u]
    BY <1>2 DEF Watcher, WatchCount, WatchGate, WatchLook, WatchPoll, WatchNotify, WatchLeave,
                WatchStep, TypeInv, TypeOK, ThreadsOK
  <2>3. UNCHANGED dataPend \/ watchPc'[s] = "done"
    BY <1>2 DEF Watcher, WatchCount, WatchGate, WatchLook, WatchPoll, WatchNotify, WatchLeave,
                WatchStep, flags, TypeInv, TypeOK, ThreadsOK
  <2> QED
    BY <2>1, <2>2, <2>3
<1>3. ASSUME NEW s \in Sessions, Async(s)
      PROVE  WatcherControl'
  <2>1. asyncPc[s] \in {"unload"} => entryPc \in Between \cup Serving
    BY DEF AsyncControl
  <2>2. AsyncUnload(s) => asyncPc[s] = "unload"
    BY DEF AsyncUnload, AsyncStep
  <2> QED
    BY <1>3, <2>1, <2>2, AsyncFrame
<1>4. CASE Accepting \/ JoinEntry
  <2>1. UNCHANGED watchPc /\ entryPc \in {"none", "done"}
    BY <1>4 DEF Accepting, RunSession, SessionFails, AcceptClient, JoinEntry
  <2> QED
    BY <2>1
<1>5. CASE SpawnWatcher
  <2>1. entryPc = "spawn_watch" /\ UNCHANGED session
    BY <1>5 DEF SpawnWatcher, EntryStep
  <2>2. \A s \in Sessions : s # session => watchPc'[s] = watchPc[s]
    BY <1>5 DEF SpawnWatcher, TypeInv, TypeOK, ThreadsOK
  <2>3. UNCHANGED watchPc \/ (entryPc' = "answer" /\ errorCode' = 0)
    BY <1>5 DEF SpawnWatcher, EntryStep
  <2> QED
    BY <2>1, <2>2, <2>3
<1>6. CASE Entry /\ ~SpawnWatcher
  <2> USE DEF EntryStep, EntryOnly, flags, machine
  <2>1. CASE EntryBegin \/ Observe \/ Check
    BY <2>1 DEF EntryBegin, Observe, Check
  <2>2. CASE Announce
    BY <2>2 DEF Announce, BranchOf, TypeInv, TypeOK, MachineOK, ServerStates
  <2>3. CASE ReadRequest \/ OpenWatch \/ TakeReference \/ ReleaseReference
    BY <2>3 DEF ReadRequest, OpenWatch, LoadFails, TakeReference, ReleaseReference
  <2>4. CASE Answer
    BY <2>4 DEF Answer, BrokenPipe
  <2>5. CASE ApplyLoad \/ SpawnAsync \/ Terminate
    BY <2>5, ServerOnValues DEF ApplyLoad, SpawnAsync, Terminate
  <2>6. CASE AwaitData \/ ReadError \/ ReadDry \/ Handled \/ Drained
    BY <2>6 DEF AwaitData, ReadError, ReadDry, Handled, Drained, SignalPend
  <2>7. CASE SendRecord \/ SkipEvent \/ (\E r \in Records : HandleRecord(r))
    BY <2>7 DEF SendRecord, BrokenPipe, SkipEvent, HandleRecord, Take
  <2>8. CASE AwaitRound \/ AnnounceEnd \/ AwaitWatcher \/ ClearDedup
    BY <2>8 DEF AwaitRound, AwaitWatcher, AwaitPend, AnnounceEnd, ClearDedup
  <2> QED
    BY <1>6, <2>1, <2>2, <2>3, <2>4, <2>5, <2>6, <2>7, <2>8 DEF Entry
<1>7. QED
  BY <1>1, <1>2, <1>3, <1>4, <1>5, <1>6 DEF Next

(* A session whose async thread could be made is joined by its watcher     *)
(* before the next client is accepted.                                     *)
THEOREM WatchersJoined == Spec => []WatcherJoined
<1>1. Init => WatcherControl
  BY DEF Init, WatcherControl, Live
<1>2. ServerInv /\ WatcherControl /\ [Next]_vars => WatcherControl'
  BY WatcherControlStep DEF WatcherControl
<1>3. ServerInv /\ WatcherControl => WatcherJoined
  BY DEF ServerInv, EntryControl, WatcherControl, WatchedRegion, WatcherJoined, Serving, Between
<1>4. QED
  BY <1>1, <1>2, <1>3, ServerInvariant, PTL DEF Spec

LEMMA TokenControlStep ==
  ASSUME ServerInv, WatcherControl, TokenControl, [Next]_vars,
         Faults \cap HandshakeFaults = {}
  PROVE  TokenControl'
<1> USE DEF TokenControl, Serving, Between
<1> USE DEF ServerInv, EntryControl, Loading, Unloading
<1>1. CASE Environment \/ UNCHANGED vars
  BY <1>1, OutsideFrame
     DEF vars, flags, machine, threads, Environment, ClientRequest, ClientLeaves, FileEvent
<1>2. ASSUME NEW s \in Sessions, Watcher(s)
      PROVE  TokenControl'
  <2>1. UNCHANGED <<session, entryPc, machine>>
    BY <1>2, OutsideFrame
  <2>2. mainPc # "killed" /\ watchPc[s] \notin {"none", "done"}
    BY <1>2 DEF Watcher, WatchCount, WatchGate, WatchLook, WatchPoll, WatchNotify, WatchLeave,
                WatchStep, Running
  <2>3. s = session
    BY <2>2 DEF WatcherControl, Live, HandshakeFaults
  <2>4. watchPc \in [Sessions -> WatchPcs]
    BY DEF TypeInv, TypeOK, ThreadsOK
  <2>5. entryPc # "none" => mainPc = "join"
    BY <2>2 DEF TypeInv, TypeOK, ThreadsOK
  <2> USE <2>1, <2>3, <2>4 DEF WatchStep, flags, machine
  <2>6. CASE WatchCount(s)
    BY <2>6 DEF WatchCount
  <2>7. CASE WatchGate(s)
    BY <2>7 DEF WatchGate
  <2>8. CASE WatchLook(s)
    BY <2>5, <2>8 DEF WatchLook
  <2>9. CASE WatchPoll(s)
    BY <2>9 DEF WatchPoll, HandshakeFaults
  <2>10. CASE WatchNotify(s)
    BY <2>10 DEF WatchNotify
  <2>11. CASE WatchLeave(s)
    BY <2>11 DEF WatchLeave
  <2> QED
    BY <1>2, <2>6, <2>7, <2>8, <2>9, <2>10, <2>11 DEF Watcher
<1>3. ASSUME NEW s \in Sessions, Async(s)
      PROVE  TokenControl'
  <2>1. dataReady => dataReady'
    BY <1>3 DEF Async, AsyncRead, AsyncUnload, AsyncNotify, flags
  <2>2. asyncPc[s] = "unload" => entryPc \in Between \cup Serving
    BY DEF AsyncControl
  <2>3. AsyncUnload(s) => asyncPc[s] = "unload"
    BY DEF AsyncUnload, AsyncStep
  <2> QED
    BY <1>3, <2>1, <2>2, <2>3, AsyncFrame
<1>4. CASE Accepting \/ JoinEntry
  BY <1>4 DEF Accepting, RunSession, SessionFails, AcceptClient, JoinEntry
<1>5. CASE SpawnWatcher
  <2>1. session \in Sessions
    BY <1>5 DEF SpawnWatcher, EntryStep, TypeInv, TypeOK, ThreadsOK, Accepted, Sessions
  <2>2. watchPc \in [Sessions -> WatchPcs]
    BY DEF TypeInv, TypeOK, ThreadsOK
  <2> QED
    BY <1>5, <2>1, <2>2 DEF SpawnWatcher, EntryStep
<1>6. CASE Entry /\ ~SpawnWatcher
  <2> USE DEF EntryStep, EntryOnly, flags, machine
  <2>1. CASE EntryBegin \/ Observe \/ Check
    BY <2>1 DEF EntryBegin, Observe, Check
  <2>2. CASE Announce
    BY <2>2 DEF Announce, BranchOf, TypeInv, TypeOK, MachineOK, ServerStates
  <2>3. CASE ReadRequest \/ OpenWatch
    BY <2>3, ServerOnValues DEF ReadRequest, Reject, OpenWatch, LoadFails
  <2>4. CASE TakeReference \/ ReleaseReference
    BY <2>4 DEF TakeReference, ReleaseReference, DropReference, MaxReferences,
                TypeInv, TypeOK, MachineOK
  <2>5. CASE Answer
    BY <2>5 DEF Answer, BrokenPipe
  <2>6. CASE ApplyLoad \/ SpawnAsync \/ Terminate
    BY <2>6, ServerOnValues DEF ApplyLoad, SpawnAsync, Terminate
  <2>7. CASE AwaitData \/ ReadDry \/ Handled \/ Drained
    BY <2>7 DEF AwaitData, ReadDry, Handled, Drained, SignalPend
  <2>8. CASE ReadError
    <3>1. session \in Sessions
      BY <2>8 DEF ReadError, TypeInv, TypeOK, ThreadsOK, Accepted, Sessions
    <3>2. Head(kq[session]) \in Events
      BY <2>8, <3>1 DEF ReadError, TypeInv, TypeOK, KernelOK
    <3> QED
      BY <2>8, <3>2, DataAssumption DEF ReadError, Events, HandshakeFaults
  <2>9. CASE SendRecord \/ SkipEvent \/ (\E r \in Records : HandleRecord(r))
    BY <2>9 DEF SendRecord, BrokenPipe, SkipEvent, HandleRecord, Take
  <2>10. CASE AwaitRound \/ AnnounceEnd \/ AwaitWatcher \/ ClearDedup
    BY <2>10 DEF AwaitRound, AwaitWatcher, AwaitPend, AnnounceEnd, ClearDedup
  <2> QED
    BY <1>6, <2>1, <2>2, <2>3, <2>4, <2>5, <2>6, <2>7, <2>8, <2>9, <2>10 DEF Entry
<1>7. QED
  BY <1>1, <1>2, <1>3, <1>4, <1>5, <1>6 DEF Next

(* With a working poll the entry thread and its watcher never wait for     *)
(* each other.                                                             *)
THEOREM HandshakeStaysAlive == Spec => []HandshakeAlive
<1>1. Init => WatcherControl /\ TokenControl
  BY DEF Init, WatcherControl, TokenControl, Live, Serving, Between
<1>2. ServerInv /\ WatcherControl /\ TokenControl /\ [Next]_vars
        => WatcherControl' /\ TokenControl'
  BY WatcherControlStep, TokenControlStep DEF WatcherControl, TokenControl
<1>3. ServerInv /\ TokenControl => HandshakeAlive
  BY DEF TokenControl, HandshakeAlive, Serving
<1>4. QED
  BY <1>1, <1>2, <1>3, ServerInvariant, PTL DEF Spec

------------------------------------------------------------------------------
(* What a client receives.                                                 *)

Reports == Records \cup {PidZero}

LEMMA RecordsHaveCrc == DOMAIN CrcOf = Records /\ Records \subseteq Reports
BY DataAssumption DEF Reports

LEMMA FirstReportsAre == FirstReports = FirstIn(taken, CrcOf)
BY RecordsHaveCrc DEF FirstReports, FirstIn

(* gdm holds the crc of every record the session has read, from its first  *)
(* request to the end of the unload_pend branch.                           *)
Ended == entryPc \in {"none", "done"} \/ (entryPc = "check" /\ sm = "X")
SeenControl == ~Ended => gdm = Seen(taken, CrcOf)

(* A record in gq still has its key in gdm when it is popped.              *)
QueueControl == \A n \in DOMAIN gq : CrcOf[gq[n]] \in gdm

DeliveryInv == SeenControl /\ QueueControl /\ Lists(sent \o gq, taken, CrcOf)


(* Only the next client starts over after a session has ended.             *)
LEMMA EndedStep ==
  ASSUME ServerInv, Ended, [Next]_vars
  PROVE  Ended' \/ Accepting
<1> USE DEF Ended
<1>1. CASE Environment \/ (\E s \in Sessions : Watcher(s)) \/ UNCHANGED vars
  BY <1>1, OutsideFrame DEF machine
<1>2. ASSUME NEW s \in Sessions, Async(s)
      PROVE  Ended'
  BY <1>2, AsyncFrame DEF ServerInv
<1>3. CASE JoinEntry
  BY <1>3 DEF JoinEntry
<1>4. CASE Entry
  <2> USE DEF EntryStep, EntryOnly
  <2>1. CASE EntryBegin \/ Observe \/ Announce \/ Check
    BY <2>1 DEF EntryBegin, Observe, Announce, Check
  <2>2. CASE ReadRequest \/ OpenWatch \/ TakeReference \/ SpawnWatcher \/ ReleaseReference
    BY <2>2 DEF ReadRequest, OpenWatch, LoadFails, TakeReference, SpawnWatcher, ReleaseReference
  <2>3. CASE Answer \/ ApplyLoad \/ SpawnAsync
    BY <2>3 DEF Answer, BrokenPipe, ApplyLoad, SpawnAsync
  <2>4. CASE AwaitData \/ SkipEvent \/ (\E r \in Records : HandleRecord(r)) \/ ReadError \/ ReadDry
    BY <2>4 DEF AwaitData, SkipEvent, HandleRecord, Take, ReadError, ReadDry
  <2>5. CASE Handled \/ SendRecord \/ Drained
    BY <2>5 DEF Handled, SendRecord, BrokenPipe, Drained, SignalPend
  <2>6. CASE AwaitRound \/ Terminate \/ AnnounceEnd \/ AwaitWatcher \/ ClearDedup
    BY <2>6 DEF AwaitRound, AwaitWatcher, AwaitPend, Terminate, AnnounceEnd, ClearDedup
  <2> QED
    BY <1>4, <2>1, <2>2, <2>3, <2>4, <2>5, <2>6 DEF Entry
<1>5. QED
  BY <1>1, <1>2, <1>3, <1>4 DEF Next

LEMMA DeliveryStep ==
  ASSUME ServerInv, DeliveryInv, [Next]_vars
  PROVE  DeliveryInv'
<1> USE DEF DeliveryInv
<1>1. gq \in Seq(Records) /\ sent \in Seq(Records) /\ taken \in Seq(Reports)
  BY DEF ServerInv, TypeInv, TypeOK, RecordsOK, Reports
<1>2. sent \o gq \in Seq(Records)
  BY <1>1
<1>3. CASE Accepting
  <2>1. gq = <<>> /\ gdm = {}
    BY <1>3 DEF Accepting, RunSession, SessionFails, AcceptClient, ServerInv, EntryControl,
                GlobalsControl, Serving, Between
  <2>2. gq' = <<>> /\ gdm' = {} /\ sent' = <<>> /\ taken' = <<>>
    BY <1>3, <2>1 DEF Accepting, RunSession, SessionFails, AcceptClient
  <2> QED
    BY <2>2, NothingTaken DEF SeenControl, QueueControl
<1>4. CASE UNCHANGED records /\ ~Accepting
  <2>1. UNCHANGED <<gq, gdm, sent, taken>>
    BY <1>4 DEF records
  <2>2. Ended => Ended'
    BY <1>4, EndedStep
  <2> QED
    BY <2>1, <2>2 DEF SeenControl, QueueControl
<1>5. ASSUME NEW e \in Reports, Take(e)
      PROVE  /\ gdm = Seen(taken, CrcOf) /\ taken' = Append(taken, e) /\ UNCHANGED sent
             /\ Seen(taken', CrcOf) = gdm \cup (IF e \in Records THEN {CrcOf[e]} ELSE {})
  <2>1. entryPc = "handle" /\ taken' = Append(taken, e) /\ UNCHANGED sent
    BY <1>5 DEF Take, EntryStep
  <2>2. gdm = Seen(taken, CrcOf)
    BY <2>1 DEF SeenControl, Ended
  <2> QED
    BY <1>1, <2>1, <2>2, RecordsHaveCrc, SeenAppend
<1>6. CASE SkipEvent
  <2>1. PidZero \in Reports /\ PidZero \notin Records
    BY DataAssumption DEF Reports
  <2>2. UNCHANGED <<gq, gdm, sent>> /\ taken' = Append(taken, PidZero) /\ Seen(taken', CrcOf) = gdm
    BY <1>5, <1>6, <2>1 DEF SkipEvent
  <2>3. Lists(sent \o gq, taken', CrcOf)
    BY <1>1, <1>2, <2>1, <2>2, RecordsHaveCrc, ListsOld
  <2> QED
    BY <2>2, <2>3 DEF SeenControl, QueueControl
<1>7. ASSUME NEW r \in Records, HandleRecord(r)
      PROVE  DeliveryInv'
  <2>1. r \in Reports
    BY DEF Reports
  <2>2. /\ gdm = Seen(taken, CrcOf) /\ taken' = Append(taken, r) /\ UNCHANGED sent
        /\ Seen(taken', CrcOf) = gdm \cup {CrcOf[r]}
    BY <1>5, <1>7, <2>1 DEF HandleRecord
  <2>3. CASE CrcOf[r] \in gdm
    <3>1. UNCHANGED <<gq, gdm>>
      BY <1>7, <2>3 DEF HandleRecord
    <3>2. Lists(sent \o gq, taken', CrcOf)
      BY <1>1, <1>2, <2>1, <2>2, <2>3, RecordsHaveCrc, ListsOld
    <3>3. gdm' = Seen(taken', CrcOf)
      BY <2>2, <2>3, <3>1
    <3> QED
      BY <2>2, <3>1, <3>2, <3>3 DEF SeenControl, QueueControl
  <2>4. CASE CrcOf[r] \notin gdm
    <3>1. gq' = Append(gq, r) /\ gdm' = gdm \cup {CrcOf[r]}
      BY <1>7, <2>4 DEF HandleRecord
    <3>2. sent \o Append(gq, r) = Append(sent \o gq, r)
      BY <1>1
    <3>3. Lists(Append(sent \o gq, r), taken', CrcOf)
      BY <1>1, <1>2, <2>2, <2>4, RecordsHaveCrc, ListsNew
    <3>4. Lists(sent' \o gq', taken', CrcOf)
      BY <2>2, <3>1, <3>2, <3>3
    <3>5. QueueControl'
      BY <1>1, <3>1 DEF QueueControl
    <3>6. SeenControl'
      BY <2>2, <3>1 DEF SeenControl
    <3> QED
      BY <3>4, <3>5, <3>6
  <2> QED
    BY <2>3, <2>4
<1>8. CASE SendRecord
  <2>1. gq # <<>> /\ UNCHANGED <<gdm, taken>>
    BY <1>8 DEF SendRecord, BrokenPipe, records
  <2>2. CrcOf[Head(gq)] \in gdm
    BY <1>1, <2>1 DEF QueueControl
  <2>3. \/ UNCHANGED <<gq, sent>>
        \/ gq' = Tail(gq) /\ sent' = Append(sent, Head(gq))
    BY <1>8, <2>2 DEF SendRecord, BrokenPipe, records
  <2>4. Append(sent, Head(gq)) \o Tail(gq) = sent \o gq
    BY <1>1, <2>1
  <2>5. sent' \o gq' = sent \o gq
    BY <2>3, <2>4
  <2>6. \A n \in DOMAIN Tail(gq) : n + 1 \in DOMAIN gq /\ Tail(gq)[n] = gq[n + 1]
    BY <1>1, <2>1
  <2>7. QueueControl'
    BY <2>1, <2>3, <2>6 DEF QueueControl
  <2>8. ~Ended
    BY <1>8 DEF SendRecord, BrokenPipe, EntryStep, Ended
  <2> QED
    BY <2>1, <2>5, <2>7, <2>8 DEF SeenControl
<1>9. CASE ClearDedup
  <2>1. gq = <<>> /\ UNCHANGED <<gq, sent, taken>>
    BY <1>9 DEF ClearDedup, EntryStep, ServerInv, GlobalsControl
  <2>2. Ended'
    BY <1>9 DEF ClearDedup, EntryStep, ServerInv, EntryControl, Ended, machine
  <2> QED
    BY <2>1, <2>2 DEF SeenControl, QueueControl
<1>10. QED
  BY <1>3, <1>4, <1>6, <1>7, <1>8, <1>9, RecordsFrame

(* For every instance and every interleaving, the records sent and those   *)
(* still in gq are the first reports of each crc32 the session has read    *)
(* from its inotify descriptor, in the order of the kernel.                *)
THEOREM FirstReportsDelivered == Spec => []DeliversFirstReports
<1>1. Init => DeliveryInv
  <2> SUFFICES ASSUME Init
               PROVE  DeliveryInv
    OBVIOUS
  <2>1. gq = <<>> /\ gdm = {} /\ sent = <<>> /\ taken = <<>>
    BY DEF Init
  <2> QED
    BY <2>1, NothingTaken DEF DeliveryInv, SeenControl, QueueControl
<1>2. ServerInv /\ DeliveryInv /\ [Next]_vars => DeliveryInv'
  BY DeliveryStep
<1>3. DeliveryInv => DeliversFirstReports
  BY FirstReportsAre DEF DeliveryInv, Lists, DeliversFirstReports
<1>4. QED
  BY <1>1, <1>2, <1>3, ServerInvariant, PTL DEF Spec

(* No session turns terminal with records read and not sent, whenever the  *)
(* unload request comes.                                                   *)
THEOREM RemainingRecordsAreSent == Spec => []RemainingRecordsSent
<1>1. Init => DeliveryInv
  BY NothingTaken DEF Init, DeliveryInv, SeenControl, QueueControl
<1>2. ServerInv /\ DeliveryInv /\ [Next]_vars => DeliveryInv'
  BY DeliveryStep
<1>3. ServerInv /\ DeliveryInv => RemainingRecordsSent
  <2> SUFFICES ASSUME ServerInv, DeliveryInv, sm = "X" \/ entryPc \in {"pend1", "terminate"}
               PROVE  Len(sent) = Cardinality(FirstReports)
    BY DEF RemainingRecordsSent
  <2>1. gq = <<>>
    BY DEF ServerInv, GlobalsControl, EntryControl, Serving, Unloading
  <2>2. sent \o gq = sent
    BY <2>1 DEF ServerInv, TypeInv, TypeOK, RecordsOK
  <2> QED
    BY <2>2, FirstReportsAre DEF DeliveryInv, Lists
<1>4. QED
  BY <1>1, <1>2, <1>3, ServerInvariant, PTL DEF Spec

------------------------------------------------------------------------------
(* The server implements DdtpSession.                                      *)

(* A session whose file is not loaded holds no reference, so an answer     *)
(* never tells of one that was not free.                                   *)
RefControl ==
  /\ errorCode # 5
  /\ sm = "load_wait" =>
       refCount = 0 \/ entryPc \in {"spawn_watch", "drop_ref", "answer", "apply"}

LEMMA RefControlStep ==
  ASSUME ServerInv, RefControl, [Next]_vars
  PROVE  RefControl'
<1> USE DEF RefControl, ServerInv, EntryControl, Serving, Unloading, Loading
<1>1. CASE Environment \/ (\E s \in Sessions : Watcher(s)) \/ UNCHANGED vars
  BY <1>1, OutsideFrame
<1>2. ASSUME NEW s \in Sessions, Async(s)
      PROVE  RefControl'
  BY <1>2, AsyncFrame
<1>3. CASE Accepting \/ JoinEntry
  BY <1>3 DEF Accepting, RunSession, SessionFails, AcceptClient, JoinEntry
<1>4. CASE Entry
  <2> USE DEF EntryStep, EntryOnly
  <2>1. CASE EntryBegin \/ Observe \/ Announce \/ Check
    BY <2>1 DEF EntryBegin, Observe, Announce, Check
  <2>2. CASE ReadRequest \/ OpenWatch \/ SpawnWatcher \/ ReleaseReference
    BY <2>2, ServerOnValues
       DEF ReadRequest, Reject, OpenWatch, LoadFails, SpawnWatcher, ReleaseReference
  <2>3. CASE TakeReference
    BY <2>3 DEF TakeReference, MaxReferences
  <2>4. CASE Answer \/ SpawnAsync \/ ApplyLoad \/ Terminate
    BY <2>4, ServerOnValues DEF Answer, BrokenPipe, SpawnAsync, ApplyLoad, Terminate
  <2>5. CASE AwaitData \/ ReadError \/ ReadDry \/ Handled \/ Drained
    BY <2>5 DEF AwaitData, ReadError, ReadDry, Handled, Drained, SignalPend
  <2>6. CASE SendRecord \/ SkipEvent \/ (\E r \in Records : HandleRecord(r))
    BY <2>6 DEF SendRecord, BrokenPipe, SkipEvent, HandleRecord, Take
  <2>7. CASE AwaitRound \/ AnnounceEnd \/ AwaitWatcher \/ ClearDedup
    BY <2>7 DEF AwaitRound, AwaitWatcher, AwaitPend, AnnounceEnd, ClearDedup
  <2> QED
    BY <1>4, <2>1, <2>2, <2>3, <2>4, <2>5, <2>6, <2>7 DEF Entry
<1>5. QED
  BY <1>1, <1>2, <1>3, <1>4 DEF Next

(* DdtpSession counts as FiniteSets does.                                  *)
LEMMA SameCardinality == \A S : Session!Cardinality(S) = Cardinality(S)
  BY DEF Session!Cardinality, Cardinality, Session!IsFiniteSet, IsFiniteSet

PromiseVars == <<session, reply, taken, sent>>

(* Whatever is not a step of DdtpSession leaves its variables alone.       *)
LEMMA PromiseFrame ==
  ASSUME ServerInv, [Next]_vars
  PROVE  \/ UNCHANGED PromiseVars
         \/ Accepting \/ Answer \/ SkipEvent \/ (\E r \in Records : HandleRecord(r)) \/ SendRecord
<1> USE DEF PromiseVars
<1>1. CASE Environment \/ (\E s \in Sessions : Watcher(s)) \/ UNCHANGED vars
  BY <1>1, OutsideFrame
<1>2. ASSUME NEW s \in Sessions, Async(s)
      PROVE  UNCHANGED PromiseVars
  BY <1>2, AsyncFrame DEF ServerInv
<1>3. CASE JoinEntry
  BY <1>3 DEF JoinEntry
<1>4. CASE Entry
  <2> USE DEF EntryStep, EntryOnly
  <2>1. CASE EntryBegin \/ Observe \/ Announce \/ Check
    BY <2>1 DEF EntryBegin, Observe, Announce, Check
  <2>2. CASE ReadRequest \/ OpenWatch \/ TakeReference \/ SpawnWatcher \/ ReleaseReference
    BY <2>2 DEF ReadRequest, OpenWatch, LoadFails, TakeReference, SpawnWatcher, ReleaseReference
  <2>3. CASE ApplyLoad \/ SpawnAsync \/ AwaitData \/ ReadError \/ ReadDry
    BY <2>3 DEF ApplyLoad, SpawnAsync, AwaitData, ReadError, ReadDry
  <2>4. CASE Handled \/ Drained
    BY <2>4 DEF Handled, Drained, SignalPend
  <2>5. CASE AwaitRound \/ Terminate \/ AnnounceEnd \/ AwaitWatcher \/ ClearDedup
    BY <2>5 DEF AwaitRound, AwaitWatcher, AwaitPend, Terminate, AnnounceEnd, ClearDedup
  <2> QED
    BY <1>4, <2>1, <2>2, <2>3, <2>4, <2>5 DEF Entry
<1>5. QED
  BY <1>1, <1>2, <1>3, <1>4 DEF Next

LEMMA PromiseStep ==
  ASSUME ServerInv, DeliveryInv, RefControl, [Next]_vars
  PROVE  [Session!Next]_(Session!vars)
<1>1. /\ gq \in Seq(Records) /\ sent \in Seq(Records) /\ taken \in Seq(Reports)
      /\ errorCode \in ErrorCodes /\ reply \in Seq(ErrorCodes)
  BY DEF ServerInv, TypeInv, TypeOK, RecordsOK, MachineOK, WireOK, Reports
<1>2. ASSUME entryPc \in Serving
      PROVE  reply = <<0>>
  BY <1>2 DEF ServerInv, EntryControl, ReplyControl
<1>3. CASE UNCHANGED PromiseVars
  BY <1>3 DEF PromiseVars, Session!vars, Session!deliveryVars
<1>4. CASE Accepting
  BY <1>4 DEF Accepting, RunSession, SessionFails, AcceptClient, Session!Next,
              Session!NextClient
<1>5. CASE Answer
  <2>1. CASE BrokenPipe("answer")
    BY <2>1 DEF BrokenPipe, Session!vars, Session!deliveryVars
  <2>2. CASE /\ entryPc = "answer" /\ reply' = Append(reply, errorCode)
             /\ UNCHANGED <<session, records>>
    <3>1. reply = <<>>
      BY <2>2 DEF ServerInv, EntryControl, ReplyControl, Loading
    <3>2. reply' = <<errorCode>>
      BY <2>2, <3>1
    <3>3. errorCode \in Session!Answers
      BY <1>1 DEF RefControl, ErrorCodes, Session!Answers
    <3> QED
      BY <2>2, <3>1, <3>2, <3>3 DEF Session!Next, Session!Answer, Session!deliveryVars
  <2> QED
    BY <1>5, <2>1, <2>2 DEF Answer, EntryStep
<1>6. ASSUME NEW e \in Reports, Take(e)
      PROVE  Session!Next
  <2>1. reply = <<0>>
    BY <1>2, <1>6 DEF Take, EntryStep, Serving
  <2>2. taken' = Append(taken, e) /\ UNCHANGED <<session, reply, sent>>
    BY <1>6 DEF Take, EntryStep
  <2> QED
    BY <2>1, <2>2
       DEF Reports, Session!Next, Session!Serve, Session!DeliveryNext, Session!Report
<1>7. CASE SkipEvent \/ (\E r \in Records : HandleRecord(r))
  BY <1>6, <1>7 DEF SkipEvent, HandleRecord, Reports
<1>8. CASE SendRecord
  <2>1. CASE BrokenPipe("drain")
    BY <2>1 DEF BrokenPipe, Session!vars, Session!deliveryVars
  <2>2. CASE /\ entryPc = "drain" /\ gq # <<>> /\ UNCHANGED <<session, reply, taken>>
             /\ sent' = IF CrcOf[Head(gq)] \in gdm THEN Append(sent, Head(gq)) ELSE sent
    <3>1. reply = <<0>>
      BY <1>2, <2>2 DEF Serving
    <3>2. sent' = Append(sent, Head(gq))
      BY <1>1, <2>2 DEF DeliveryInv, QueueControl
    <3>3. PICK n \in FirstIn(taken, CrcOf) :
            /\ Cardinality({m \in FirstIn(taken, CrcOf) : m <= n}) = Len(sent) + 1
            /\ taken[n] = Head(gq)
      BY <1>1, <2>2, RecordsHaveCrc, NextInRank DEF DeliveryInv
    <3>4. Session!FirstReports = FirstIn(taken, CrcOf)
      BY RecordsHaveCrc DEF Session!FirstReports, FirstIn
    <3>5. Session!Rank(n) = Len(sent) + 1
      BY <3>3, <3>4, SameCardinality DEF Session!Rank
    <3> QED
      BY <2>2, <3>1, <3>2, <3>3, <3>4, <3>5
         DEF Session!Next, Session!Serve, Session!DeliveryNext, Session!Deliver
  <2> QED
    BY <1>8, <2>1, <2>2 DEF SendRecord, EntryStep
<1>9. QED
  BY <1>3, <1>4, <1>5, <1>7, <1>8, PromiseFrame

(* Every step of the server is one of DdtpSession or leaves its variables  *)
(* alone, whatever fails and whatever threads earlier sessions left.       *)
THEOREM ServerImplementsSession == Spec => ImplementsSession
<1>1. Init => DeliveryInv /\ RefControl /\ Session!Init
  <2> SUFFICES ASSUME Init
               PROVE  DeliveryInv /\ RefControl /\ Session!Init
    OBVIOUS
  <2>1. gq = <<>> /\ gdm = {} /\ sent = <<>> /\ taken = <<>>
    BY DEF Init
  <2>2. DeliveryInv
    BY <2>1, NothingTaken DEF DeliveryInv, SeenControl, QueueControl
  <2> QED
    BY <2>2 DEF Init, RefControl, Session!Init, Session!DeliveryInit
<1>2. ServerInv /\ DeliveryInv /\ RefControl /\ [Next]_vars => DeliveryInv' /\ RefControl'
  BY DeliveryStep, RefControlStep
<1>3. ServerInv /\ DeliveryInv /\ RefControl /\ [Next]_vars => [Session!Next]_(Session!vars)
  BY PromiseStep
<1>4. QED
  BY <1>1, <1>2, <1>3, ServerInvariant, PTL DEF Spec, ImplementsSession, Session!Spec
==============================================================================
