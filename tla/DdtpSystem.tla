----------------------------- MODULE DdtpSystem -----------------------------
(***************************************************************************)
(* ddtp-cli, the loop of client.cpp, connected to the server of            *)
(* DdtpServer.  The client's messages are those of the server's arbitrary  *)
(* client; what it reads is the server's reply followed by sent.  The      *)
(* client of the current session is followed, from its connect to its end. *)
(***************************************************************************)
EXTENDS DdtpServer

CONSTANTS
  Iterations,     \* the option -i of ddtp-cli
  Interrupts      \* the user may stop the client

ASSUME IterationsAssumption == Iterations \in Nat
ASSUME InterruptsAssumption == Interrupts \in BOOLEAN

VARIABLES
  cPc,       \* where dinterrd_connect is, and how it ended
  csm,       \* the state of sml::sm<ddtp_client>
  iter,      \* iter_count, which matters up to Iterations only
  nRead,     \* records read from the connection
  csv,       \* records written to the csv file
  reset      \* the answer of TCP to a write after the server has closed

client  == <<cPc, csm, iter, nRead, csv, reset>>
sysvars == <<vars, client>>

Ends == {"returned", "interrupted", "killed"}
CPcs == {"none", "load", "answer", "close", "read", "round"} \cup Ends

ClientTypeOK ==
  /\ cPc \in CPcs /\ csm \in ClientStates
  /\ iter \in 0 .. Iterations
  /\ nRead \in 0 .. Len(sent)
  /\ csv \in Seq(Records)
  /\ reset \in {"none", "coming", "arrived"}

ClientInit ==
  /\ cPc = "none" /\ csm = "load_init" /\ iter = 0 /\ nRead = 0 /\ csv = <<>>
  /\ reset = "none"

Connect ==                             \* a new ddtp-cli
  /\ cPc' = "load" /\ csm' = "load_init" /\ iter' = 0 /\ nRead' = 0 /\ csv' = <<>>
  /\ reset' = "none"

ClientStep(from, to) == cPc = from /\ cPc' = to

------------------------------------------------------------------------------
(* A payload is written.  A write after the server has closed is lost, and *)
(* its result is not looked at; TCP answers it with a reset, and so it     *)
(* does when the server closes with requests unread.  Once the reset has   *)
(* arrived a write raises SIGPIPE.                                         *)
Aborted == peer = "closed" /\ inbox # <<>>

Write(type) ==
  \/ peer = "open" /\ ClientRequest(type) /\ UNCHANGED reset
  \/ peer = "closed" /\ reset # "arrived" /\ reset' = "coming" /\ UNCHANGED vars

ResetArrives ==
  /\ cPc \notin Ends
  /\ reset = "coming" \/ (Aborted /\ reset = "none")
  /\ reset' = "arrived"
  /\ UNCHANGED <<vars, cPc, csm, iter, nRead, csv>>

SendLoad ==
  /\ ClientStep("load", "answer")
  /\ Write("LOAD_REQUEST")
  /\ csm' = ClientOn(csm, "load_request")
  /\ UNCHANGED <<iter, nRead, csv>>

(* Bug: the end of the connection is not taken for an answer.              *)
ReadAnswerOnly ==
  /\ reply # <<>>
  /\ LET loaded == Head(reply) = 0
     IN  /\ csm' = ClientOn(csm, IF loaded THEN "load_success" ELSE "load_fail")
         /\ ClientStep("answer", IF loaded THEN "read" ELSE "close")
  /\ UNCHANGED <<vars, iter, nRead, csv, reset>>

(* Bug: no answer yet is taken for a failure.                              *)
ReadAnswerEarly ==
  /\ LET loaded == reply # <<>> /\ Head(reply) = 0
     IN  /\ csm' = ClientOn(csm, IF loaded THEN "load_success" ELSE "load_fail")
         /\ ClientStep("answer", IF loaded THEN "read" ELSE "close")
  /\ UNCHANGED <<vars, iter, nRead, csv, reset>>

(* Anything but LOAD_SUCCEED, the end of the connection too, is a failure. *)
ReadAnswer ==
  /\ reply # <<>> \/ peer = "closed"
  /\ LET loaded == reply # <<>> /\ Head(reply) = 0
     IN  /\ csm' = ClientOn(csm, IF loaded THEN "load_success" ELSE "load_fail")
         /\ ClientStep("answer", IF loaded THEN "read" ELSE "close")
  /\ UNCHANGED <<vars, iter, nRead, csv, reset>>

CloseClient ==                         \* shutdown(), and the process returns
  /\ ClientStep("close", "returned")
  /\ ClientLeaves \/ (peer = "closed" /\ UNCHANGED vars)
  /\ UNCHANGED <<csm, iter, nRead, csv, reset>>

(* After a record: poll() sees more to read, or the end of it, if there is *)
(* more and it has arrived, as it has when a reset has.                    *)
AfterRecord ==
  \/ ClientStep("read", "read") /\ (nRead' < Len(sent) \/ peer = "closed")
  \/ ClientStep("read", "round") /\ reset # "arrived"

(* Bug: the record stays in the buffer and is read again.                  *)
ReadRecordTwice ==
  /\ nRead < Len(sent)
  /\ CrcOf[sent[nRead + 1]] # 0
  /\ nRead' = nRead + 1
  /\ csv' = csv \o <<sent[nRead + 1], sent[nRead + 1]>>
  /\ AfterRecord
  /\ UNCHANGED <<vars, csm, iter, reset>>

ReadRecord ==
  /\ nRead < Len(sent)
  /\ CrcOf[sent[nRead + 1]] # 0
  /\ nRead' = nRead + 1
  /\ csv' = Append(csv, sent[nRead + 1])
  /\ AfterRecord
  /\ UNCHANGED <<vars, csm, iter, reset>>

(* A record whose crc is 0 looks like the zeroed buffer.                   *)
ReadZeroCrc ==
  /\ nRead < Len(sent)
  /\ CrcOf[sent[nRead + 1]] = 0
  /\ nRead' = nRead + 1
  /\ iter' = Iterations
  /\ ClientStep("read", "round")
  /\ UNCHANGED <<vars, csm, csv, reset>>

(* Bug: the zeroed buffer counts as a record.                              *)
ReadEndCounting ==
  /\ peer = "closed"
  /\ nRead' = nRead + 1
  /\ iter' = Iterations
  /\ ClientStep("read", "round")
  /\ UNCHANGED <<vars, csm, csv, reset>>

(* No more bytes, or an error; a reset may overtake the last records.      *)
ReadEnd ==
  /\ peer = "closed"
  /\ IF Aborted THEN reset = "arrived" ELSE nRead = Len(sent)
  /\ iter' = Iterations
  /\ ClientStep("read", "round")
  /\ UNCHANGED <<vars, csm, nRead, csv, reset>>

NextRound ==
  /\ iter < Iterations
  /\ iter' = iter + 1
  /\ ClientStep("round", "read")
  /\ UNCHANGED <<vars, csm, nRead, csv, reset>>

(* The state machine is not told, so every later round asks again.         *)
SendUnload ==
  /\ iter >= Iterations
  /\ ClientStep("round", "read")
  /\ Write("UNLOAD_REQUEST")
  /\ UNCHANGED <<csm, iter, nRead, csv>>

Killed ==                              \* SIGPIPE
  /\ ClientStep("round", "killed")
  /\ iter >= Iterations /\ reset = "arrived"
  /\ UNCHANGED <<vars, csm, iter, nRead, csv, reset>>

Interrupted ==
  /\ Interrupts
  /\ cPc \notin Ends \cup {"none"}
  /\ cPc' = "interrupted"
  /\ ClientLeaves
  /\ UNCHANGED <<csm, iter, nRead, csv, reset>>

Client ==
  \/ SendLoad \/ ReadAnswer \/ CloseClient
  \/ ReadRecord \/ ReadZeroCrc \/ ReadEnd
  \/ NextRound \/ SendUnload \/ Killed

------------------------------------------------------------------------------
Serve(action) == action /\ UNCHANGED client

SystemInit == Init /\ ClientInit

SystemNext ==
  \/ Accepting /\ Connect
  \/ Serve(JoinEntry) \/ Serve(Entry)
  \/ \E s \in Sessions :
       \/ Serve(Watcher(s)) \/ Serve(Async(s))
       \/ \E event \in Events : Serve(FileEvent(s, event))
  \/ Client \/ ResetArrives \/ Interrupted

SystemSpec == SystemInit /\ [][SystemNext]_sysvars

(* The scheduler of DdtpServer's FairSpec runs the client as well, and the *)
(* network delivers the reset.                                             *)
SystemFairSpec ==
  /\ SystemSpec
  /\ WF_sysvars(Serve(JoinEntry)) /\ WF_sysvars(Serve(Entry))
  /\ \A s \in Sessions :
       WF_sysvars(Serve(Watcher(s))) /\ WF_sysvars(Serve(Async(s)))
  /\ WF_sysvars(Client) /\ WF_sysvars(ResetArrives)

------------------------------------------------------------------------------
(* The csv file lists, in the order of the kernel, the first report of     *)
(* each crc the session has read from inotify, up to where the client is:  *)
(* kernel queue, dedup map, gq, connection and read loop lose, repeat and  *)
(* reorder nothing.  Only the report whose crc is 0 is missing, and those  *)
(* behind it are not.                                                      *)
FileableReports == {n \in FirstReports : CrcOf[taken[n]] # 0}
CsvListsFirstReports ==
  /\ Len(csv) <= Cardinality(FileableReports)
  /\ \A n \in FileableReports :
       LET k == Cardinality({m \in FileableReports : m <= n})
       IN  k <= Len(csv) => csv[k] = taken[n]

(* Client and server agree on the protocol although they run at their own  *)
(* speed, and the client repeats its UNLOAD_REQUEST: no request of         *)
(* client.cpp is ever refused.                                             *)
Reading == entryPc = "request" \/ \E s \in Sessions : asyncPc[s] = "read"
RequestsAreAllowed == Reading /\ inbox # <<>> => Allowed(Head(inbox))

(* ddtp-cli never takes the server with it: the server writes to a closed *)
(* connection, and is killed, only if the user has stopped the client.     *)
ServerSurvives == mainPc = "killed" => cPc = "interrupted"

(* Once the server has closed the connection, the client ends.             *)
ClientEnds == cPc # "none" /\ peer = "closed" ~> cPc \in Ends

(* From the kernel to the csv file: while the session serves data, a       *)
(* record of every crc that is queued gets to the file.                    *)
Filed(crc) == crc \in {CrcOf[csv[n]] : n \in DOMAIN csv}
EventsReachCsv ==
  \A r \in Records :
    Queued /\ CrcOf[r] # 0 /\ r \in {kq[session][n] : n \in DOMAIN kq[session]}
      ~> sm # "data_ready" \/ Filed(CrcOf[r])
==============================================================================
