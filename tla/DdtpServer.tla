----------------------------- MODULE DdtpServer -----------------------------
(***************************************************************************)
(* ddtp-serve: the accept loop of server.cpp and, for each client, the     *)
(* entry thread, the inotify watcher thread and the async request thread   *)
(* of thread.cpp.  They share the protocol state machine, the three binary *)
(* flags of lock.cpp, the watcher reference count, the global queue gq and *)
(* the dedup map gdm.  A block or a signal on a flag is one step here      *)
(* (DdtpLocks shows that lock.cpp implements them so).                     *)
(*                                                                         *)
(* The watcher and async threads are detached: they may outlive their      *)
(* session, and then go on over the same globals and stack frame as the    *)
(* next one.  Threads, inotify descriptors and kernel queues are therefore *)
(* indexed by the session that made them.                                  *)
(***************************************************************************)
EXTENDS DdtpProtocol, Naturals, Sequences, FiniteSets

CONSTANTS
  Records,       \* access events the kernel may report (pid # 0, fit in a read)
  Crcs,          \* crc32 values
  CrcOf,         \* the crc32 calc_crc gives each record
  PidZero,       \* an event of the scheduler: pid = 0
  Oversize,      \* an event with a name, too long for the 130 byte buffer
  Faults,        \* which library calls may fail in this instance
  RepoClient,    \* the peer orders its requests as client.cpp does
  MaxSessions,   \* bound: clients accepted
  MaxRequests,   \* bound: payloads one client sends
  MaxEvents      \* bound: file events in the whole run

FaultKinds ==
  {"entry_thread", "malloc", "inotify_init", "calloc", "add_watch", "watch_thread",
   "async_thread", "poll", "poll_eintr", "named_event", "client_leaves"}

ASSUME DataAssumption ==
  /\ CrcOf \in [Records -> Crcs]
  /\ PidZero \notin Records
  /\ Oversize \notin Records \cup {PidZero}
ASSUME EnvironmentAssumption == Faults \subseteq FaultKinds /\ RepoClient \in BOOLEAN
ASSUME BoundsAssumption == {MaxSessions, MaxRequests, MaxEvents} \subseteq Nat

Sessions == 1 .. MaxSessions
Events == Records \cup {PidZero} \cup (IF "named_event" \in Faults THEN {Oversize} ELSE {})
Payloads == Requests \cup {"other"}       \* by type; "other" is no request
MaxReferences == 1                       \* DDTP_MAX_REFERENCES
ErrorCodes == {0, 1, 2, 3, 5, 6}         \* DDTP_LOAD_ERROR4 cannot happen

VARIABLES
  session,       \* number of clients accepted; the current or last session
  mainPc,        \* the accept loop: "accept", "join", or "killed" by SIGPIPE
  entryPc,       \* the entry thread of the current session
  watchPc,       \* the watcher thread of each session
  asyncPc,       \* the async request thread of each session
  sm,            \* the state of sml::sm<ddtp_server>
  teller,        \* the state the entry thread saw at the top of its loop
  refCount,      \* ddtp_ref_count
  dataReady, dataPend, statePend,        \* the flags of lock.cpp
  gq,            \* the global queue of records to send
  gdm,           \* the keys of the global dedup map
  errorCode,     \* what _ddtp_load_file_inotify returns: 0 or DDTP_LOAD_ERRORn
  watched,       \* sessions whose inotify descriptor has its watch
  kq,            \* the kernel's event queue of each inotify descriptor
  nEvents,       \* file events so far (for the bound)
  inbox,         \* requests on the connection, not yet read
  nRequests,     \* requests sent on the connection (for the bound)
  peer,          \* the client's end of the connection: "open" or "closed"
  reply,         \* answers to LOAD_REQUEST written: codes, 0 for LOAD_SUCCEED
  sent,          \* records written to the client
  taken          \* history: events this session has read from its descriptor

flags   == <<dataReady, dataPend, statePend>>
machine == <<sm, teller, refCount, errorCode>>
records == <<gq, gdm, sent, taken>>
threads == <<mainPc, entryPc, watchPc, asyncPc>>
kernel  == <<watched, kq, nEvents>>
wire    == <<inbox, nRequests, peer, reply>>
vars    == <<session, threads, flags, machine, records, kernel, wire>>

EntryPcs == {"none", "begin", "observe", "announce", "request", "open_watch", "take_ref",
             "spawn_watch", "drop_ref", "answer", "apply", "spawn_async",
             "await_data", "handle", "handled", "drain",
             "pend1", "terminate", "announce_x", "pend2", "clear", "check", "done"}
WatchPcs == {"none", "count", "gate", "look", "poll", "notify", "leave", "done"}
AsyncPcs == {"none", "read", "unload", "notify", "done"}

ThreadsOK ==
  /\ session \in 0 .. MaxSessions
  /\ mainPc \in {"accept", "join", "killed"}
  /\ entryPc \in EntryPcs
  /\ watchPc \in [Sessions -> WatchPcs]
  /\ asyncPc \in [Sessions -> AsyncPcs]
FlagsOK == dataReady \in BOOLEAN /\ dataPend \in BOOLEAN /\ statePend \in BOOLEAN
MachineOK ==
  /\ sm \in ServerStates /\ teller \in ServerStates
  /\ refCount \in 0 .. MaxReferences
  /\ errorCode \in ErrorCodes
RecordsOK ==
  /\ gq \in Seq(Records) /\ gdm \subseteq Crcs
  /\ sent \in Seq(Records) /\ taken \in Seq(Records \cup {PidZero})
KernelOK ==
  /\ watched \subseteq Sessions
  /\ kq \in [Sessions -> Seq(Events)]
  /\ nEvents \in 0 .. MaxEvents
WireOK ==
  /\ inbox \in Seq(Payloads) /\ nRequests \in 0 .. MaxRequests
  /\ peer \in {"open", "closed"}
  /\ reply \in Seq(ErrorCodes)
TypeOK == ThreadsOK /\ FlagsOK /\ MachineOK /\ RecordsOK /\ KernelOK /\ WireOK

Init ==
  /\ session = 0
  /\ mainPc = "accept" /\ entryPc = "none"
  /\ watchPc = [s \in Sessions |-> "none"]
  /\ asyncPc = [s \in Sessions |-> "none"]
  /\ sm = "load_wait" /\ teller = "load_wait"
  /\ refCount = 0 /\ errorCode = 0
  /\ dataReady = FALSE /\ dataPend = FALSE /\ statePend = FALSE
  /\ gq = <<>> /\ gdm = {} /\ sent = <<>> /\ taken = <<>>
  /\ watched = {} /\ kq = [s \in Sessions |-> <<>>] /\ nEvents = 0
  /\ inbox = <<>> /\ nRequests = 0 /\ peer = "closed" /\ reply = <<>>

Running == mainPc # "killed"

------------------------------------------------------------------------------
(* The environment: the client and the users of the watched file.          *)

InOrder(type) ==                     \* client.cpp's order of requests
  \/ type = "LOAD_REQUEST"   /\ nRequests = 0
  \/ type = "UNLOAD_REQUEST" /\ sent # <<>>

ClientRequest(type) ==
  /\ Running
  /\ peer = "open" /\ nRequests < MaxRequests
  /\ RepoClient => InOrder(type)
  /\ inbox' = Append(inbox, type)
  /\ nRequests' = nRequests + 1
  /\ UNCHANGED <<session, threads, flags, machine, records, kernel, peer, reply>>

ClientLeaves ==
  /\ Running
  /\ "client_leaves" \in Faults
  /\ peer = "open"
  /\ peer' = "closed"
  /\ UNCHANGED <<session, threads, flags, machine, records, kernel, inbox, nRequests, reply>>

FileEvent(s, event) ==
  /\ Running
  /\ s \in watched /\ nEvents < MaxEvents
  /\ kq' = [kq EXCEPT ![s] = Append(@, event)]
  /\ nEvents' = nEvents + 1
  /\ UNCHANGED <<session, threads, flags, machine, records, watched, wire>>

------------------------------------------------------------------------------
(* server.cpp: accept one client, run its session, close the connection.   *)
(* Each session gets a new state machine and ddtp_locks_init; gq, gdm and  *)
(* the threads of earlier sessions stay as they are.                       *)

AcceptClient ==
  /\ mainPc = "accept" /\ session < MaxSessions
  /\ session' = session + 1
  /\ sm' = "load_wait" /\ teller' = "load_wait" /\ errorCode' = 0
  /\ refCount' = 0
  /\ dataReady' = FALSE /\ dataPend' = FALSE /\ statePend' = FALSE
  /\ inbox' = <<>> /\ nRequests' = 0 /\ reply' = <<>>
  /\ sent' = <<>> /\ taken' = <<>>
  /\ UNCHANGED <<gq, gdm, watchPc, asyncPc, kernel>>

RunSession ==
  /\ AcceptClient
  /\ mainPc' = "join" /\ entryPc' = "begin" /\ peer' = "open"

SessionFails ==                      \* pthread_create of the entry thread
  /\ AcceptClient
  /\ "entry_thread" \in Faults
  /\ peer' = "closed"
  /\ UNCHANGED <<mainPc, entryPc>>

JoinEntry ==
  /\ mainPc = "join" /\ entryPc = "done"
  /\ mainPc' = "accept" /\ entryPc' = "none"
  /\ peer' = "closed"
  /\ UNCHANGED <<session, watchPc, asyncPc, flags, machine, records, kernel, inbox, nRequests,
                 reply>>

------------------------------------------------------------------------------
(* The entry thread.                                                       *)

EntryStep(from, to) == /\ Running
                       /\ entryPc = from
                       /\ entryPc' = to
                       /\ UNCHANGED session

EntryOnly == UNCHANGED <<mainPc, watchPc, asyncPc>>

EntryBegin ==
  /\ \/ EntryStep("begin", "observe")
     \/ "malloc" \in Faults /\ EntryStep("begin", "done")
  /\ EntryOnly /\ UNCHANGED <<flags, machine, records, kernel, wire>>

Observe ==
  /\ EntryStep("observe", "announce")
  /\ teller' = sm
  /\ EntryOnly /\ UNCHANGED <<flags, sm, refCount, errorCode, records, kernel, wire>>

BranchOf(state) ==
  CASE state = "data_ready"  -> "await_data"
    [] state = "load_wait"   -> "request"
    [] state = "unload_pend" -> "pend1"
    [] state = "X"           -> "check"

(* Bug: the watcher is not told the state.                                 *)
AnnounceToNobody ==
  /\ EntryStep("announce", BranchOf(teller))
  /\ EntryOnly /\ UNCHANGED <<flags, machine, records, kernel, wire>>

Announce ==                          \* ddtp_signal_state_pend, then the branch
  /\ EntryStep("announce", BranchOf(teller))
  /\ statePend' = TRUE
  /\ EntryOnly /\ UNCHANGED <<dataReady, dataPend, machine, records, kernel, wire>>

Check ==
  /\ EntryStep("check", IF sm = "X" THEN "done" ELSE "observe")
  /\ EntryOnly /\ UNCHANGED <<flags, machine, records, kernel, wire>>

(* Bug: the buffer is not zeroed and holds what was read into it before.   *)
ReceiveStale(type) ==
  \/ inbox # <<>> /\ type = Head(inbox) /\ inbox' = Tail(inbox)
  \/ inbox = <<>> /\ peer = "closed" /\ UNCHANGED inbox

(* A payload off the socket.  After the client has left, a read returns no *)
(* bytes and the zeroed buffer has a type that is no request.              *)
Receive(type) ==
  \/ /\ inbox # <<>>
     /\ type = Head(inbox)
     /\ inbox' = Tail(inbox)
  \/ /\ inbox = <<>> /\ peer = "closed"
     /\ type = "other"
     /\ UNCHANGED inbox

(* _ddtp_server_validate_incoming_type: a request the state does not allow *)
(* is answered by the event terminate.                                     *)
Allowed(type) == \/ type = "LOAD_REQUEST"   /\ sm = "load_wait"
                 \/ type = "UNLOAD_REQUEST" /\ sm = "data_ready"
Reject == sm' = ServerOn(sm, "terminate")

ReadRequest ==
  \E type \in Payloads :
    /\ Receive(type)
    /\ IF Allowed(type) THEN EntryStep("request", "open_watch") /\ UNCHANGED sm
                        ELSE EntryStep("request", "check") /\ Reject
    /\ EntryOnly
    /\ UNCHANGED <<flags, teller, refCount, errorCode, records, kernel, nRequests, peer, reply>>

(* _ddtp_load_file_inotify, in the order of its calls.                     *)
LoadFails(code) == /\ EntryStep("open_watch", "answer")
                   /\ errorCode' = code
                   /\ UNCHANGED kernel

OpenWatch ==
  /\ \/ "inotify_init" \in Faults /\ LoadFails(1)
     \/ "calloc"       \in Faults /\ LoadFails(2)
     \/ "add_watch"    \in Faults /\ LoadFails(3)
     \/ /\ EntryStep("open_watch", "take_ref")
        /\ watched' = watched \cup {session}
        /\ UNCHANGED <<errorCode, kq, nEvents>>
  /\ EntryOnly /\ UNCHANGED <<flags, sm, teller, refCount, records, wire>>

TakeReference ==                     \* ddtp_increment_ref_count
  /\ IF refCount < MaxReferences
       THEN /\ EntryStep("take_ref", "spawn_watch")
            /\ refCount' = refCount + 1
            /\ UNCHANGED errorCode
       ELSE /\ EntryStep("take_ref", "answer")
            /\ errorCode' = 5
            /\ UNCHANGED refCount
  /\ EntryOnly /\ UNCHANGED <<flags, sm, teller, records, kernel, wire>>

SpawnWatcher ==
  /\ \/ /\ EntryStep("spawn_watch", "answer")
        /\ watchPc' = [watchPc EXCEPT ![session] = "count"]
        /\ errorCode' = 0
     \/ /\ "watch_thread" \in Faults
        /\ EntryStep("spawn_watch", "drop_ref")
        /\ errorCode' = 6
        /\ UNCHANGED watchPc
  /\ UNCHANGED <<mainPc, asyncPc, flags, sm, teller, refCount, records, kernel, wire>>

(* Bug: the test for 0 is missing.                                         *)
DropReferenceUnchecked == refCount' = refCount - 1
DropReference == refCount' = IF refCount > 0 THEN refCount - 1 ELSE refCount

ReleaseReference ==                  \* ddtp_decrement_ref_count after the failure
  /\ EntryStep("drop_ref", "answer")
  /\ DropReference
  /\ EntryOnly /\ UNCHANGED <<flags, sm, teller, errorCode, records, kernel, wire>>

(* A write to a client that has left is lost or raises SIGPIPE, which      *)
(* nobody handles: the process ends with all its threads.                  *)
BrokenPipe(at) ==
  /\ Running
  /\ entryPc = at /\ peer = "closed"
  /\ mainPc' = "killed"
  /\ UNCHANGED <<session, entryPc, watchPc, asyncPc, flags, machine, records, kernel, wire>>

(* _ddtp_process_client_payload: the answer is written before the event.   *)
Answer ==
  \/ /\ EntryStep("answer", "apply")
     /\ reply' = Append(reply, errorCode)
     /\ EntryOnly /\ UNCHANGED <<flags, machine, records, kernel, inbox, nRequests, peer>>
  \/ BrokenPipe("answer")

(* Bug: the machine is told of a success only.                             *)
ApplySuccess ==
  /\ EntryStep("apply", "spawn_async")
  /\ sm' = IF errorCode = 0 THEN ServerOn(sm, "load_success") ELSE sm
  /\ EntryOnly /\ UNCHANGED <<flags, teller, refCount, errorCode, records, kernel, wire>>

(* Bug: the machine is told nothing.                                       *)
ApplyNothing ==
  /\ EntryStep("apply", "spawn_async")
  /\ EntryOnly /\ UNCHANGED <<flags, machine, records, kernel, wire>>

ApplyLoad ==
  /\ EntryStep("apply", "spawn_async")
  /\ sm' = ServerOn(sm, IF errorCode = 0 THEN "load_success" ELSE "load_fail")
  /\ EntryOnly /\ UNCHANGED <<flags, teller, refCount, errorCode, records, kernel, wire>>

SpawnAsync ==
  /\ \/ /\ sm = "data_ready"
        /\ EntryStep("spawn_async", "check")
        /\ asyncPc' = [asyncPc EXCEPT ![session] = "read"]
     \/ /\ sm = "data_ready" /\ "async_thread" \in Faults
        /\ EntryStep("spawn_async", "done")        \* pthread_exit
        /\ UNCHANGED asyncPc
     \/ /\ sm # "data_ready"
        /\ EntryStep("spawn_async", "check")
        /\ UNCHANGED asyncPc
  /\ UNCHANGED <<mainPc, watchPc, flags, machine, records, kernel, wire>>

------------------------------------------------------------------------------
(* The data_ready branch: __handle_inotify_events reads the descriptor dry *)
(* (one event fits the buffer at a time), then gq is sent.                 *)

AwaitData ==                         \* ddtp_block_until_data_ready
  /\ dataReady
  /\ EntryStep("await_data", "handle")
  /\ dataReady' = FALSE
  /\ EntryOnly /\ UNCHANGED <<dataPend, statePend, machine, records, kernel, wire>>

Take(event) ==
  /\ EntryStep("handle", "handle")
  /\ kq[session] # <<>> /\ event = Head(kq[session])
  /\ kq' = [kq EXCEPT ![session] = Tail(@)]
  /\ taken' = Append(taken, event)
  /\ EntryOnly /\ UNCHANGED <<flags, machine, sent, watched, nEvents, wire>>

SkipEvent == Take(PidZero) /\ UNCHANGED <<gq, gdm>>

(* Bug: every record is queued, seen or not.                               *)
HandleRecordAgain(r) ==
  /\ Take(r)
  /\ gq' = Append(gq, r) /\ gdm' = gdm \cup {CrcOf[r]}

(* Bug: the record is queued but its key is not noted.                     *)
HandleRecordUnseen(r) ==
  /\ Take(r)
  /\ gq' = Append(gq, r)
  /\ UNCHANGED gdm

(* Bug: the key is noted but the record is not queued.                     *)
HandleRecordLost(r) ==
  /\ Take(r)
  /\ gdm' = gdm \cup {CrcOf[r]}
  /\ UNCHANGED gq

HandleRecord(r) ==                   \* _ddtp_data_dedup_update, then gq.push
  /\ Take(r)
  /\ IF CrcOf[r] \in gdm
       THEN UNCHANGED <<gq, gdm>>
       ELSE gq' = Append(gq, r) /\ gdm' = gdm \cup {CrcOf[r]}

(* read() of an event longer than the buffer: EINVAL, the event stays.     *)
ReadError ==
  /\ EntryStep("handle", "handled")
  /\ kq[session] # <<>> /\ Head(kq[session]) = Oversize
  /\ DropReference
  /\ EntryOnly /\ UNCHANGED <<flags, sm, teller, errorCode, records, kernel, wire>>

ReadDry ==
  /\ EntryStep("handle", "handled")
  /\ kq[session] = <<>>
  /\ EntryOnly /\ UNCHANGED <<flags, machine, records, kernel, wire>>

(* Bug: the condition is signalled, the flag is not raised.                *)
SignalPendOnly(from, to) ==
  /\ EntryStep(from, to)
  /\ EntryOnly /\ UNCHANGED <<flags, machine, records, kernel, wire>>

SignalPend(from, to) ==              \* ddtp_signal_data_pend
  /\ EntryStep(from, to)
  /\ dataPend' = TRUE
  /\ EntryOnly /\ UNCHANGED <<dataReady, statePend, machine, records, kernel, wire>>

Handled == SignalPend("handled", "drain")

(* Bug: the record queued last goes first.                                 *)
SendLast ==
  /\ gq # <<>>
  /\ EntryStep("drain", "drain")
  /\ gq' = SubSeq(gq, 1, Len(gq) - 1)
  /\ sent' = Append(sent, gq[Len(gq)])
  /\ EntryOnly /\ UNCHANGED <<flags, machine, gdm, taken, kernel, wire>>

SendRecord ==                        \* gq.pop, _ddtp_send_data_client_target
  /\ gq # <<>>
  /\ \/ /\ EntryStep("drain", "drain")
        /\ gq' = Tail(gq)
        /\ sent' = IF CrcOf[Head(gq)] \in gdm THEN Append(sent, Head(gq)) ELSE sent
        /\ EntryOnly /\ UNCHANGED <<flags, machine, gdm, taken, kernel, wire>>
     \/ BrokenPipe("drain")

(* Bug: the round ends with records still queued.                          *)
DrainedEarly == SignalPend("drain", "check")

Drained == gq = <<>> /\ SignalPend("drain", "check")

------------------------------------------------------------------------------
(* The unload_pend branch.                                                 *)

AwaitPend(from, to) ==               \* ddtp_block_until_data_pend
  /\ dataPend
  /\ EntryStep(from, to)
  /\ dataPend' = FALSE
  /\ EntryOnly /\ UNCHANGED <<dataReady, statePend, machine, records, kernel, wire>>

AwaitRound == AwaitPend("pend1", "terminate")

(* Bug: the second block on data_pend is missing.                          *)
AwaitNobody ==
  /\ EntryStep("pend2", "clear")
  /\ EntryOnly /\ UNCHANGED <<flags, machine, records, kernel, wire>>

AwaitWatcher == AwaitPend("pend2", "clear")

Terminate ==
  /\ EntryStep("terminate", "announce_x")
  /\ sm' = ServerOn(sm, "terminate")
  /\ EntryOnly /\ UNCHANGED <<flags, teller, refCount, errorCode, records, kernel, wire>>

(* Bug: the watcher is not told of the terminal state.                     *)
AnnounceEndToNobody ==
  /\ EntryStep("announce_x", "pend2")
  /\ EntryOnly /\ UNCHANGED <<flags, machine, records, kernel, wire>>

AnnounceEnd ==
  /\ EntryStep("announce_x", "pend2")
  /\ statePend' = TRUE
  /\ EntryOnly /\ UNCHANGED <<dataReady, dataPend, machine, records, kernel, wire>>

(* Bug: the dedup map survives its session.                                *)
KeepDedup ==
  /\ EntryStep("clear", "check")
  /\ EntryOnly /\ UNCHANGED <<flags, machine, records, kernel, wire>>

ClearDedup ==
  /\ EntryStep("clear", "check")
  /\ gdm' = {}
  /\ EntryOnly /\ UNCHANGED <<flags, machine, gq, sent, taken, kernel, wire>>

Entry ==
  \/ EntryBegin \/ Observe \/ Announce \/ Check
  \/ ReadRequest \/ OpenWatch \/ TakeReference \/ SpawnWatcher \/ ReleaseReference
  \/ Answer \/ ApplyLoad \/ SpawnAsync
  \/ AwaitData \/ SkipEvent \/ (\E r \in Records : HandleRecord(r)) \/ ReadError \/ ReadDry
  \/ Handled \/ SendRecord \/ Drained
  \/ AwaitRound \/ Terminate \/ AnnounceEnd \/ AwaitWatcher \/ ClearDedup

------------------------------------------------------------------------------
(* The watcher thread of session s.                                        *)

WatchStep(s, from, to) == /\ Running
                          /\ watchPc[s] = from
                          /\ watchPc' = [watchPc EXCEPT ![s] = to]
                          /\ UNCHANGED <<session, mainPc, entryPc, asyncPc>>

WatchCount(s) ==                     \* ddtp_get_ref_count
  /\ WatchStep(s, "count", IF refCount = 0 THEN "leave" ELSE "gate")
  /\ UNCHANGED <<flags, machine, records, kernel, wire>>

WatchGate(s) ==                      \* ddtp_block_until_state_pend
  /\ statePend
  /\ WatchStep(s, "gate", "look")
  /\ statePend' = FALSE
  /\ UNCHANGED <<dataReady, dataPend, machine, records, kernel, wire>>

(* Between two sessions the state machine is a dead stack object: a left   *)
(* over watcher may read anything there.                                   *)
WatchLook(s) ==
  /\ \E state \in IF mainPc = "join" THEN {sm} ELSE ServerStates :
       WatchStep(s, "look", IF state = "X" THEN "leave" ELSE "poll")
  /\ UNCHANGED <<flags, machine, records, kernel, wire>>

WatchPoll(s) ==
  /\ \/ kq[s] # <<>> /\ WatchStep(s, "poll", "notify")
     \/ "poll_eintr" \in Faults /\ WatchStep(s, "poll", "count")
     \/ "poll" \in Faults /\ WatchStep(s, "poll", "leave")
  /\ UNCHANGED <<flags, machine, records, kernel, wire>>

(* Bug: the flag raised is data_pend.                                      *)
WatchNotifyPend(s) ==
  /\ WatchStep(s, "notify", "count")
  /\ dataPend' = TRUE
  /\ UNCHANGED <<dataReady, statePend, machine, records, kernel, wire>>

WatchNotify(s) ==                    \* ddtp_signal_data_ready
  /\ WatchStep(s, "notify", "count")
  /\ dataReady' = TRUE
  /\ UNCHANGED <<dataPend, statePend, machine, records, kernel, wire>>

WatchLeave(s) ==                     \* ddtp_signal_data_pend, pthread_exit
  /\ WatchStep(s, "leave", "done")
  /\ dataPend' = TRUE
  /\ UNCHANGED <<dataReady, statePend, machine, records, kernel, wire>>

Watcher(s) == \/ WatchCount(s) \/ WatchGate(s) \/ WatchLook(s)
              \/ WatchPoll(s) \/ WatchNotify(s) \/ WatchLeave(s)

------------------------------------------------------------------------------
(* The async request thread of session s.                                  *)

AsyncStep(s, from, to) == /\ Running
                          /\ asyncPc[s] = from
                          /\ asyncPc' = [asyncPc EXCEPT ![s] = to]
                          /\ UNCHANGED <<session, mainPc, entryPc, watchPc>>

AsyncRead(s) ==
  \E type \in Payloads :
    /\ Receive(type)
    /\ IF Allowed(type) THEN UNCHANGED sm ELSE Reject
    /\ AsyncStep(s, "read", IF Allowed(type) /\ type = "UNLOAD_REQUEST" THEN "unload" ELSE "read")
    /\ UNCHANGED <<flags, teller, refCount, errorCode, records, kernel, nRequests, peer, reply>>

(* Bug: the thread goes on reading.                                        *)
AsyncUnloadAgain(s) ==
  /\ AsyncStep(s, "unload", "read")
  /\ sm' = ServerOn(sm, "unload_request")
  /\ UNCHANGED <<flags, teller, refCount, errorCode, records, kernel, wire>>

AsyncUnload(s) ==
  /\ AsyncStep(s, "unload", "notify")
  /\ sm' = ServerOn(sm, "unload_request")
  /\ UNCHANGED <<flags, teller, refCount, errorCode, records, kernel, wire>>

AsyncNotify(s) ==                    \* ddtp_signal_data_ready, pthread_exit
  /\ AsyncStep(s, "notify", "done")
  /\ dataReady' = TRUE
  /\ UNCHANGED <<dataPend, statePend, machine, records, kernel, wire>>

Async(s) == AsyncRead(s) \/ AsyncUnload(s) \/ AsyncNotify(s)

------------------------------------------------------------------------------
Environment ==
  \/ \E type \in Payloads : ClientRequest(type)
  \/ ClientLeaves
  \/ \E s \in Sessions, event \in Events : FileEvent(s, event)

Accepting == RunSession \/ SessionFails

Next ==
  \/ Environment
  \/ Accepting
  \/ JoinEntry
  \/ Entry
  \/ \E s \in Sessions : Watcher(s) \/ Async(s)

Spec == Init /\ [][Next]_vars

(* The scheduler runs every thread that can run.  Nobody has to connect,   *)
(* to send a request, or to touch the file.                                *)
FairSpec ==
  /\ Spec
  /\ WF_vars(JoinEntry)
  /\ WF_vars(Entry)
  /\ \A s \in Sessions : WF_vars(Watcher(s)) /\ WF_vars(Async(s))

------------------------------------------------------------------------------
(* What the client receives.                                               *)

(* The positions in taken of the first report of each crc.                 *)
FirstReports ==
  {n \in DOMAIN taken :
     /\ taken[n] \in Records
     /\ \A m \in 1 .. n - 1 : taken[m] \in Records => CrcOf[taken[m]] # CrcOf[taken[n]]}

(* gq.push, gq.pop and the two looks at gdm deliver, in the order of the   *)
(* kernel queue, exactly the first report of each crc of the session: no   *)
(* record is lost, repeated, reordered or kept from an earlier client.     *)
DeliversFirstReports ==
  /\ Len(sent \o gq) = Cardinality(FirstReports)
  /\ \A n \in FirstReports :
       (sent \o gq)[Cardinality({m \in FirstReports : m <= n})] = taken[n]

(* gq and gdm are global and outlive a session: however one ends, it       *)
(* leaves them empty, so the next client starts from nothing.              *)
NothingLeftOver == entryPc = "begin" => gq = <<>> /\ gdm = {}

(* One answer per session, and no record before LOAD_SUCCEED: requests     *)
(* sent ahead or repeated are rejected by the state machine.               *)
AnswersOnceThenData ==
  /\ Len(reply) <= 1
  /\ sent # <<>> => reply = <<0>>

(* thread.cpp:347: "process any remaining records and send to client       *)
(* before entering into terminal state".  What was read of the descriptor  *)
(* is sent before the session turns terminal, although the unload request  *)
(* comes in at any point of a round.  (What was not read by then is not.)  *)
RemainingRecordsSent ==
  sm = "X" \/ entryPc \in {"pend1", "terminate"} => Len(sent) = Cardinality(FirstReports)

(* Step by step, the server does nothing but what DdtpSession promises: it *)
(* never takes back an answer or a record, tells no client of a reference  *)
(* that was not free, and delivers what it has looked at and nothing else. *)
Session == INSTANCE DdtpSession
             WITH client <- session, answer <- reply, reported <- taken, delivered <- sent
ImplementsSession == Session!Spec

(* Threads.                                                                *)

Live(s) == watchPc[s] \notin {"none", "done"}

(* If the async thread could always be made, no watcher outlives its       *)
(* session: the two blocks on data_pend in the unload_pend branch join it, *)
(* although data_pend is also raised by every round of the entry thread.   *)
WatcherJoined ==
  "async_thread" \notin Faults /\ mainPc = "accept" => \A s \in Sessions : ~Live(s)

(* The first block on data_pend does not wait for a client that unloads    *)
(* after its first record, as client.cpp does.                             *)
RoundBeforeUnload == entryPc = "pend1" /\ sent # <<>> => dataPend

(* While poll works, the watcher of a session that waits for data is       *)
(* polling, or still has the state_pend token it needs to poll: the entry  *)
(* and the watcher never wait for each other.                              *)
HandshakeFaults == {"poll", "poll_eintr", "named_event", "async_thread"}
HandshakeAlive ==
  Faults \cap HandshakeFaults = {} =>
    (entryPc = "await_data" /\ sm = "data_ready" /\ ~dataReady =>
       \/ watchPc[session] \in {"count", "gate"} /\ statePend
       \/ watchPc[session] \in {"look", "poll", "notify"})

(* Every event queued in a session that serves data is read, unless the    *)
(* client unloads first.                                                   *)
Queued == mainPc = "join" /\ sm = "data_ready" /\ kq[session] # <<>>
EventsAreRead == Queued ~> ~Queued

(* A session that has processed terminate ends once the watched file is    *)
(* touched again, which is what releases the watcher from poll.            *)
EventEndsSession == (entryPc = "pend2" /\ kq[session] # <<>>) ~> (mainPc = "accept")

(* Nobody looks at the length of a read: once a client has left without a  *)
(* request to unload, entry and async thread read zeroes for ever.  No     *)
(* step ends such a session or lets another client in, but a write to the  *)
(* client, which ends the whole process.                                   *)
Abandoned ==
  /\ mainPc = "join" /\ peer = "closed" /\ inbox = <<>>
  /\ \/ sm = "load_wait" /\ entryPc \in {"observe", "announce", "request", "check"}
     \/ sm = "data_ready" /\ asyncPc[session] = "read"
AbandonedSessionStays ==
  [][Abandoned => Abandoned' \/ mainPc' = "killed"]_vars

------------------------------------------------------------------------------
(* What comments say and the code does not do.                             *)

(* thread.cpp:347: an UNLOAD_REQUEST leads to the terminal state,          *)
(* "effectively disconnecting client".                                     *)
UnloadEnds == sm = "unload_pend" ~> mainPc = "accept"

(* The same comment: the server processes "any remaining records" and then *)
(* enters the terminal state.  A session asked to unload does so once its  *)
(* file has been touched, also if no round of data came before.            *)
TouchedUnloadEnds == (entryPc = "pend1" /\ kq[session] # <<>>) ~> sm = "X"

(* lock.h:16: "1:1 ratio of client:inotify watcher thread".                *)
OneWatcherPerClient == Cardinality({s \in Sessions : Live(s)}) <= 1
==============================================================================
