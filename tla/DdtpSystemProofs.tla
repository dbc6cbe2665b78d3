--------------------------- MODULE DdtpSystemProofs ---------------------------
(***************************************************************************)
(* Theorems of DdtpSystem.  A step of client and server is a step of the   *)
(* server with its arbitrary client or leaves the server alone, so every   *)
(* invariant of DdtpServer holds here as well.  What is added relates the  *)
(* client's place to the connection.                                       *)
(***************************************************************************)
EXTENDS DdtpSystem, DdtpServerProofs

LEMMA ServerStep ==
  ASSUME [SystemNext]_sysvars
  PROVE  [Next]_vars
<1>1. CASE UNCHANGED sysvars
  BY <1>1 DEF sysvars
<1>2. CASE Accepting /\ Connect
  BY <1>2 DEF Next
<1>3. CASE Serve(JoinEntry) \/ Serve(Entry)
  BY <1>3 DEF Serve, Next
<1>4. ASSUME NEW s \in Sessions,
             \/ Serve(Watcher(s)) \/ Serve(Async(s))
             \/ \E event \in Events : Serve(FileEvent(s, event))
      PROVE  Next
  BY <1>4 DEF Serve, Next, Environment
<1>5. ASSUME NEW type \in Payloads, Write(type)
      PROVE  [Next]_vars
  BY <1>5 DEF Write, Next, Environment
<1>6. CASE SendLoad \/ SendUnload
  BY <1>5, <1>6 DEF SendLoad, SendUnload, Payloads, Requests
<1>7. CASE CloseClient \/ Interrupted
  BY <1>7 DEF CloseClient, Interrupted, Next, Environment
<1>8. CASE ReadAnswer \/ ReadRecord \/ ReadZeroCrc \/ ReadEnd \/ NextRound \/ Killed
           \/ ResetArrives
  BY <1>8 DEF ReadAnswer, ReadRecord, ReadZeroCrc, ReadEnd, NextRound, Killed, ResetArrives
<1>9. QED
  BY <1>1, <1>2, <1>3, <1>4, <1>6, <1>7, <1>8 DEF SystemNext, Client

(* ddtp-cli is one of the clients the server is modelled for: everything   *)
(* DdtpServer promises holds when the two are composed.                    *)
THEOREM SystemIsServer == SystemSpec => Spec
<1>1. SystemInit => Init
  BY DEF SystemInit
<1>2. [SystemNext]_sysvars => [Next]_vars
  BY ServerStep
<1>3. QED
  BY <1>1, <1>2, PTL DEF SystemSpec, Spec

(* With ddtp-cli for its client the server keeps DdtpSession's promise.    *)
THEOREM SystemImplementsSession == SystemSpec => ImplementsSession
BY SystemIsServer, ServerImplementsSession, PTL

LEMMA SystemServerInv == SystemSpec => []ServerInv
BY SystemIsServer, ServerInvariant, PTL

(* What is not a new connection leaves the session as it is.               *)
LEMMA SessionFrame ==
  ASSUME \/ JoinEntry \/ Entry \/ Environment
         \/ \E s \in Sessions : Watcher(s) \/ Async(s)
  PROVE  UNCHANGED session
<1>1. CASE JoinEntry
  BY <1>1 DEF JoinEntry
<1>2. CASE Entry
  <2> USE DEF EntryStep
  <2>1. CASE EntryBegin \/ Observe \/ Announce \/ Check
    BY <2>1 DEF EntryBegin, Observe, Announce, Check
  <2>2. CASE ReadRequest \/ OpenWatch \/ TakeReference \/ SpawnWatcher \/ ReleaseReference
    BY <2>2 DEF ReadRequest, OpenWatch, LoadFails, TakeReference, SpawnWatcher, ReleaseReference
  <2>3. CASE Answer \/ ApplyLoad \/ SpawnAsync \/ SendRecord
    BY <2>3 DEF Answer, ApplyLoad, SpawnAsync, SendRecord, BrokenPipe
  <2>4. CASE AwaitData \/ SkipEvent \/ (\E r \in Records : HandleRecord(r)) \/ ReadError \/ ReadDry
    BY <2>4 DEF AwaitData, SkipEvent, HandleRecord, Take, ReadError, ReadDry
  <2>5. CASE Handled \/ Drained \/ AwaitRound \/ Terminate \/ AnnounceEnd \/ AwaitWatcher
             \/ ClearDedup
    BY <2>5 DEF Handled, Drained, SignalPend, AwaitRound, AwaitWatcher, AwaitPend, Terminate,
                AnnounceEnd, ClearDedup
  <2> QED
    BY <1>2, <2>1, <2>2, <2>3, <2>4, <2>5 DEF Entry
<1>3. CASE Environment
  BY <1>3, OutsideFrame
<1>4. ASSUME NEW s \in Sessions, Watcher(s)
      PROVE  UNCHANGED session
  BY <1>4, OutsideFrame
<1>5. ASSUME NEW s \in Sessions, Async(s)
      PROVE  UNCHANGED session
  BY <1>5 DEF Async, AsyncRead, AsyncUnload, AsyncNotify, AsyncStep
<1> QED
  BY <1>1, <1>2, <1>3, <1>4, <1>5

LEMMA AcceptingMoves ==
  ASSUME session \in Nat, Accepting
  PROVE  session' # session
BY DEF Accepting, RunSession, SessionFails, AcceptClient

ServerMoves ==
  \/ JoinEntry \/ Entry
  \/ \E s \in Sessions : Watcher(s) \/ Async(s) \/ \E event \in Events : FileEvent(s, event)

(* A step is a new connection, a step of the server, which leaves the      *)
(* client where it is, or a step of the client.                            *)
LEMMA ClientFrame ==
  ASSUME session \in Nat, [SystemNext]_sysvars
  PROVE  \/ Accepting /\ Connect
         \/ UNCHANGED client /\ ~Accepting /\ [ServerMoves]_vars
         \/ (Client \/ ResetArrives \/ Interrupted) /\ ~Accepting
<1>1. CASE UNCHANGED sysvars
  BY <1>1, AcceptingMoves DEF sysvars, vars
<1>2. ASSUME NEW s \in Sessions,
             \/ Serve(Watcher(s)) \/ Serve(Async(s))
             \/ \E event \in Events : Serve(FileEvent(s, event))
      PROVE  UNCHANGED client /\ ~Accepting /\ ServerMoves
  BY <1>2, SessionFrame, AcceptingMoves DEF Serve, Environment, ServerMoves
<1>3. CASE Serve(JoinEntry) \/ Serve(Entry)
  BY <1>3, SessionFrame, AcceptingMoves DEF Serve, ServerMoves
<1>4. CASE SendLoad \/ SendUnload \/ CloseClient \/ Interrupted
  <2>1. UNCHANGED session
    BY <1>4 DEF SendLoad, SendUnload, CloseClient, Interrupted, Write, ClientRequest, ClientLeaves,
                vars
  <2> QED
    BY <1>4, <2>1, AcceptingMoves DEF Client
<1>5. CASE ReadAnswer \/ ReadRecord \/ ReadZeroCrc \/ ReadEnd \/ NextRound \/ Killed
           \/ ResetArrives
  <2>1. UNCHANGED session
    BY <1>5 DEF ReadAnswer, ReadRecord, ReadZeroCrc, ReadEnd, NextRound, Killed, ResetArrives, vars
  <2> QED
    BY <1>5, <2>1, AcceptingMoves DEF Client
<1>6. QED
  BY <1>1, <1>2, <1>3, <1>4, <1>5 DEF SystemNext, Client

LEMMA SentGrows ==
  ASSUME RecordsOK, [Next]_vars, ~Accepting
  PROVE  /\ Len(sent) \in Nat /\ Len(sent') \in Nat /\ Len(sent) <= Len(sent')
         /\ \A n \in 1 .. Len(sent) : sent'[n] = sent[n]
<1> USE DEF RecordsOK
<1>1. CASE UNCHANGED sent
  BY <1>1
<1>2. CASE SendRecord
  <2>1. gq # <<>> /\ (UNCHANGED sent \/ sent' = Append(sent, Head(gq)))
    BY <1>2 DEF SendRecord, BrokenPipe, records
  <2>2. Head(gq) \in Records
    BY <2>1
  <2>3. CASE sent' = Append(sent, Head(gq))
    BY <2>2, <2>3
  <2> QED
    BY <1>1, <2>1, <2>3
<1>3. CASE SkipEvent \/ (\E r \in Records : HandleRecord(r)) \/ ClearDedup
  BY <1>1, <1>3 DEF SkipEvent, HandleRecord, Take, ClearDedup
<1> QED
  BY <1>1, <1>2, <1>3, RecordsFrame DEF records

LEMMA ClientOnType ==
  ASSUME NEW state \in ClientStates, NEW event
  PROVE  ClientOn(state, event) \in ClientStates
BY DEF ClientOn, ProcessEvent, Dispatch, Execute, Target, StateMapping, EventMapping,
       ClientTable, ClientStates

------------------------------------------------------------------------------
(* The csv file holds the records read, in their order, but for the one    *)
(* whose crc is 0.                                                         *)
AllFiled ==
  /\ \A n \in 1 .. nRead : CrcOf[sent[n]] # 0 /\ csv[n] = sent[n]
  /\ Len(csv) = nRead
FiledBut(z) ==
  /\ CrcOf[sent[z]] = 0 /\ Len(csv) = nRead - 1
  /\ \A n \in 1 .. z - 1 : csv[n] = sent[n]
  /\ \A n \in z .. nRead - 1 : csv[n] = sent[n + 1]
Filing == AllFiled \/ \E z \in 1 .. nRead : FiledBut(z)

ReadInv == ClientTypeOK /\ Filing

(* Only one of the records sent has the crc 0.                             *)
SentOnce == \A i, j \in 1 .. Len(sent) : CrcOf[sent[i]] = CrcOf[sent[j]] => i = j

LEMMA NoneSentTwice ==
  ASSUME RecordsOK, DeliversFirstReports
  PROVE  SentOnce
<1>1. gq \in Seq(Records) /\ sent \in Seq(Records) /\ taken \in Seq(Reports)
  BY DEF RecordsOK, Reports
<1>2. /\ 1 .. Len(sent) \subseteq 1 .. Len(sent \o gq)
      /\ \A n \in 1 .. Len(sent) : (sent \o gq)[n] = sent[n]
  BY <1>1
<1>3. Lists(sent \o gq, taken, CrcOf)
  BY FirstReportsAre DEF DeliversFirstReports, Lists
<1>4. ASSUME NEW i \in 1 .. Len(sent), NEW j \in 1 .. Len(sent), CrcOf[sent[i]] = CrcOf[sent[j]]
      PROVE  i = j
  <2> DEFINE q == sent \o gq
  <2>1. i \in 1 .. Len(q) /\ j \in 1 .. Len(q) /\ CrcOf[q[i]] = CrcOf[q[j]]
    BY <1>2, <1>4
  <2>2. DOMAIN CrcOf \subseteq Reports /\ taken \in Seq(Reports) /\ Lists(q, taken, CrcOf)
    BY <1>1, <1>3, RecordsHaveCrc
  <2> HIDE DEF q
  <2> QED
    BY <2>1, <2>2, ListedOnce
<1> QED
  BY <1>4 DEF SentOnce

(* What more is sent changes nothing of what has been read.                *)
LEMMA FilingStays ==
  ASSUME Filing, UNCHANGED <<nRead, csv>>, Len(sent) \in Nat, nRead \in 0 .. Len(sent),
         \A n \in 1 .. Len(sent) : sent'[n] = sent[n]
  PROVE  Filing'
<1>1. \A n \in 1 .. nRead : sent'[n] = sent[n]
  OBVIOUS
<1>2. CASE AllFiled
  BY <1>1, <1>2 DEF AllFiled, Filing
<1>3. ASSUME NEW z \in 1 .. nRead, FiledBut(z)
      PROVE  Filing'
  <2>1. \A n \in 1 .. z - 1 : n \in 1 .. nRead
    OBVIOUS
  <2>2. \A n \in z .. nRead - 1 : n + 1 \in 1 .. nRead
    OBVIOUS
  <2>3. FiledBut(z)'
    BY <1>1, <1>3, <2>1, <2>2 DEF FiledBut
  <2> QED
    BY <2>3 DEF Filing
<1> QED
  BY <1>2, <1>3 DEF Filing

(* The next record goes to the end of the file.                            *)
LEMMA FilingGoesOn ==
  ASSUME Filing, UNCHANGED sent, nRead \in Nat, nRead' = nRead + 1, csv \in Seq(Records),
         sent[nRead + 1] \in Records, CrcOf[sent[nRead + 1]] # 0,
         csv' = Append(csv, sent[nRead + 1])
  PROVE  Filing'
<1>1. /\ Len(csv') = Len(csv) + 1 /\ Len(csv) \in Nat /\ csv'[Len(csv) + 1] = sent[nRead + 1]
      /\ \A n \in 1 .. Len(csv) : csv'[n] = csv[n]
  OBVIOUS
<1>2. CASE AllFiled
  <2>1. \A n \in 1 .. nRead + 1 : n \in 1 .. nRead \/ n = nRead + 1
    OBVIOUS
  <2> QED
    BY <1>1, <1>2, <2>1 DEF AllFiled, Filing
<1>3. ASSUME NEW z \in 1 .. nRead, FiledBut(z)
      PROVE  Filing'
  <2>1. Len(csv) = nRead - 1
    BY <1>3 DEF FiledBut
  <2>2. \A n \in 1 .. z - 1 : csv'[n] = sent'[n]
    BY <1>1, <1>3, <2>1 DEF FiledBut
  <2>3. \A n \in z .. nRead : csv'[n] = sent'[n + 1]
    <3>1. \A n \in z .. nRead : n \in z .. nRead - 1 \/ n = nRead
      OBVIOUS
    <3>2. csv'[nRead] = sent'[nRead + 1]
      BY <1>1, <2>1
    <3>3. \A n \in z .. nRead - 1 : csv'[n] = sent'[n + 1]
      BY <1>1, <1>3, <2>1 DEF FiledBut
    <3> QED
      BY <3>1, <3>2, <3>3
  <2>4. FiledBut(z)' /\ z \in 1 .. nRead'
    BY <1>1, <1>3, <2>1, <2>2, <2>3 DEF FiledBut
  <2> QED
    BY <2>4 DEF Filing
<1> QED
  BY <1>2, <1>3 DEF Filing

(* The record whose crc is 0 is left out, and it is the first such.        *)
LEMMA FilingLeavesOut ==
  ASSUME Filing, SentOnce, UNCHANGED <<sent, csv>>, nRead \in Nat, nRead' = nRead + 1,
         Len(sent) \in Nat, nRead < Len(sent), CrcOf[sent[nRead + 1]] = 0
  PROVE  Filing'
<1>1. AllFiled
  <2> SUFFICES ASSUME NEW z \in 1 .. nRead, FiledBut(z)
               PROVE  FALSE
    BY DEF Filing
  <2>1. CrcOf[sent[z]] = CrcOf[sent[nRead + 1]]
    BY DEF FiledBut
  <2>2. z \in 1 .. Len(sent) /\ nRead + 1 \in 1 .. Len(sent) /\ z # nRead + 1
    OBVIOUS
  <2> QED
    BY <2>1, <2>2 DEF SentOnce
<1>2. PICK z \in 1 .. nRead' : z = nRead + 1
  OBVIOUS
<1>3. FiledBut(z)'
  BY <1>1, <1>2 DEF AllFiled, FiledBut
<1> QED
  BY <1>3 DEF Filing

LEMMA ReadStep ==
  ASSUME RecordsOK, SentOnce, session \in Nat, ReadInv, [SystemNext]_sysvars
  PROVE  ReadInv'
<1> USE DEF ReadInv, ClientTypeOK
<1> USE IterationsAssumption
<1>1. CASE Accepting /\ Connect
  <2>1. sent' = <<>>
    BY <1>1 DEF Accepting, RunSession, SessionFails, AcceptClient
  <2> QED
    BY <1>1, <2>1 DEF Connect, CPcs, ClientStates, Filing, AllFiled
<1>2. CASE ~Accepting /\ (UNCHANGED client \/ Client \/ ResetArrives \/ Interrupted)
  <2>1. /\ Len(sent) \in Nat /\ Len(sent') \in Nat /\ Len(sent) <= Len(sent')
        /\ \A n \in 1 .. Len(sent) : sent'[n] = sent[n]
    BY <1>2, ServerStep, SentGrows
  <2>2. CASE UNCHANGED <<iter, nRead, csv>> /\ cPc' \in CPcs /\ csm' \in ClientStates
             /\ reset' \in {"none", "coming", "arrived"}
    BY <2>1, <2>2, FilingStays
  <2>3. CASE UNCHANGED client
    BY <2>2, <2>3 DEF client
  <2>4. CASE SendLoad \/ SendUnload
    BY <2>2, <2>4, ClientOnType DEF SendLoad, SendUnload, Write, ClientStep, CPcs
  <2>5. CASE ReadAnswer
    <3>1. csm' \in ClientStates
      BY <2>5, ClientOnType DEF ReadAnswer
    <3>2. cPc' \in CPcs /\ UNCHANGED <<iter, nRead, csv, reset>>
      BY <2>5 DEF ReadAnswer, ClientStep, CPcs
    <3> QED
      BY <2>2, <3>1, <3>2
  <2>6. CASE CloseClient \/ Killed \/ Interrupted \/ ResetArrives
    BY <2>2, <2>6 DEF CloseClient, Killed, Interrupted, ResetArrives, ClientStep, CPcs, Ends
  <2>7. CASE ReadRecord
    <3>1. cPc' \in CPcs /\ UNCHANGED <<csm, iter, reset>>
      BY <2>7 DEF ReadRecord, AfterRecord, ClientStep, CPcs
    <3>2. /\ nRead < Len(sent) /\ nRead' = nRead + 1 /\ UNCHANGED sent
          /\ csv' = Append(csv, sent[nRead + 1])
      BY <2>7 DEF ReadRecord, vars, records
    <3>3. nRead \in Nat /\ nRead' \in 0 .. Len(sent')
      BY <2>1, <3>2
    <3>4. sent[nRead + 1] \in Records
      BY <3>2, <3>3 DEF RecordsOK
    <3>5. csv' \in Seq(Records)
      BY <3>2, <3>4
    <3>6. Filing'
      BY <2>7, <3>2, <3>3, <3>4, FilingGoesOn DEF ReadRecord
    <3> QED
      BY <3>1, <3>3, <3>5, <3>6
  <2>8. CASE ReadZeroCrc
    <3>1. nRead < Len(sent) /\ CrcOf[sent[nRead + 1]] = 0 /\ nRead' = nRead + 1 /\ UNCHANGED sent
      BY <2>8 DEF ReadZeroCrc, vars, records
    <3>2. Filing'
      BY <2>1, <2>8, <3>1, FilingLeavesOut DEF ReadZeroCrc
    <3>3. nRead' \in 0 .. Len(sent')
      BY <2>1, <3>1
    <3> QED
      BY <2>8, <3>2, <3>3 DEF ReadZeroCrc, ClientStep, CPcs
  <2>9. CASE ReadEnd \/ NextRound
    BY <2>1, <2>9, FilingStays DEF ReadEnd, NextRound, ClientStep, CPcs
  <2> QED
    BY <1>2, <2>3, <2>4, <2>5, <2>6, <2>7, <2>8, <2>9 DEF Client
<1> QED
  BY <1>1, <1>2, ClientFrame

LEMMA ReadInvariant == SystemSpec => []ReadInv
<1>1. SystemInit => ReadInv
  BY IterationsAssumption
     DEF SystemInit, ClientInit, Init, ReadInv, ClientTypeOK, Filing, AllFiled, CPcs, ClientStates
<1>2. ServerInv /\ DeliversFirstReports /\ ReadInv /\ [SystemNext]_sysvars => ReadInv'
  BY ReadStep, NoneSentTwice, BoundsAssumption DEF ServerInv, TypeInv, TypeOK, ThreadsOK
<1>3. SystemSpec => []DeliversFirstReports
  BY SystemIsServer, FirstReportsDelivered, PTL
<1>4. QED
  BY <1>1, <1>2, <1>3, SystemServerInv, PTL DEF SystemSpec

(* The client keeps its types; it never reads past what was sent.          *)
THEOREM ClientTypes == SystemSpec => []ClientTypeOK
<1>1. ReadInv => ClientTypeOK
  BY DEF ReadInv
<1>2. QED
  BY <1>1, ReadInvariant, PTL

(* A first report that has been sent, at its rank; and the one that cannot *)
(* be filed, if there is one.                                              *)
LEMMA SentAtRank ==
  ASSUME RecordsOK, DeliversFirstReports,
         NEW rank, rank = [n \in FirstReports |-> Cardinality({m \in FirstReports : m <= n})]
  PROVE  /\ Len(taken) \in Nat /\ FirstReports \in SUBSET (1 .. Len(taken))
         /\ Len(sent) \in Nat /\ Cardinality(FirstReports) \in Nat
         /\ Len(sent) <= Cardinality(FirstReports)
         /\ \A n \in FirstReports : rank[n] \in 1 .. Len(sent) => sent[rank[n]] = taken[n]
         /\ \A k \in 1 .. Len(sent) : \E n \in FirstReports : rank[n] = k
         /\ \A a, b \in FirstReports : CrcOf[taken[a]] = CrcOf[taken[b]] => a = b
<1>1. gq \in Seq(Records) /\ sent \in Seq(Records) /\ taken \in Seq(Reports)
  BY DEF RecordsOK, Reports
<1>2. /\ Len(sent) <= Len(sent \o gq) /\ Len(sent) \in Nat /\ Len(sent \o gq) \in Nat
      /\ \A n \in 1 .. Len(sent) : (sent \o gq)[n] = sent[n]
  BY <1>1
<1>3. /\ Len(sent \o gq) = Cardinality(FirstReports)
      /\ \A n \in FirstReports : (sent \o gq)[rank[n]] = taken[n]
  BY DEF DeliversFirstReports
<1>4. Len(taken) \in Nat /\ FirstReports \in SUBSET (1 .. Len(taken))
  BY <1>1, RecordsHaveCrc, FirstReportsAre, FirstInFinite
<1>5. \A n \in FirstReports : rank[n] \in 1 .. Len(sent) => sent[rank[n]] = taken[n]
  BY <1>2, <1>3
<1>6. ASSUME NEW k \in 1 .. Len(sent)
      PROVE  \E n \in FirstReports : rank[n] = k
  <2>1. k \in 1 .. Cardinality(FirstReports)
    BY <1>2, <1>3
  <2>2. PICK n \in FirstReports : Cardinality({m \in FirstReports : m <= n}) = k
    BY <1>4, <2>1, EveryRank
  <2> QED
    BY <2>2
<1>7. ASSUME NEW a \in FirstReports, NEW b \in FirstReports, CrcOf[taken[a]] = CrcOf[taken[b]]
      PROVE  a = b
  <2>1. ASSUME NEW x \in FirstReports, NEW y \in FirstReports, x < y
        PROVE  CrcOf[taken[x]] # CrcOf[taken[y]]
    <3>1. x \in 1 .. y - 1
      BY <1>4, <2>1
    <3> QED
      BY <3>1 DEF FirstReports
  <2>2. a < b \/ b < a \/ a = b
    BY <1>4
  <2> QED
    BY <1>7, <2>1, <2>2
<1> QED
  BY <1>2, <1>3, <1>4, <1>5, <1>6, <1>7

(* From the kernel queue to the csv file: for every instance and every     *)
(* interleaving the file lists the first reports of each crc but 0, in     *)
(* order.                                                                  *)
THEOREM CsvFollowsKernel == SystemSpec => []CsvListsFirstReports
<1>1. ASSUME ServerInv, ReadInv, DeliversFirstReports
      PROVE  CsvListsFirstReports
  <2> DEFINE F == FirstReports
             rank == [n \in F |-> Cardinality({m \in F : m <= n})]
             kept == FileableReports
             place(n) == Cardinality({m \in kept : m <= n})
  <2>1. RecordsOK /\ nRead \in 0 .. Len(sent) /\ Filing
    BY <1>1 DEF ServerInv, TypeInv, TypeOK, ReadInv, ClientTypeOK
  <2>2. /\ Len(taken) \in Nat /\ F \in SUBSET (1 .. Len(taken))
        /\ Len(sent) \in Nat /\ Cardinality(F) \in Nat /\ Len(sent) <= Cardinality(F)
        /\ \A n \in F : rank[n] \in 1 .. Len(sent) => sent[rank[n]] = taken[n]
        /\ \A k \in 1 .. Len(sent) : \E n \in F : rank[n] = k
        /\ \A a, b \in F : CrcOf[taken[a]] = CrcOf[taken[b]] => a = b
    BY <1>1, <2>1, SentAtRank
  <2>3. \A n : n \in kept <=> n \in F /\ CrcOf[taken[n]] # 0
    BY DEF FileableReports
  <2>4. /\ rank = [n \in F |-> Cardinality({m \in F : m <= n})]
        /\ \A n \in F : rank[n] = Cardinality({m \in F : m <= n})
    OBVIOUS
  <2>5. SUFFICES /\ Len(csv) <= Cardinality(kept)
                 /\ \A n \in kept : place(n) \in 1 .. Cardinality(F)
                                     /\ (place(n) <= Len(csv) => csv[place(n)] = taken[n])
    BY DEF CsvListsFirstReports
  <2>6. \A n \in F : rank[n] \in 1 .. Cardinality(F)
    BY <2>2, WithoutOne DEF RankIn
  <2> HIDE DEF F, kept, rank
  <2>7. CASE \A n \in F : CrcOf[taken[n]] # 0
    <3>1. kept = F
      BY <2>3, <2>7
    <3>2. ASSUME NEW k \in 1 .. nRead
          PROVE  CrcOf[sent[k]] # 0
      <4>1. k \in 1 .. Len(sent)
        BY <2>1, <2>2
      <4>2. PICK n \in F : rank[n] = k
        BY <2>2, <4>1
      <4>3. sent[k] = taken[n]
        BY <2>2, <4>1, <4>2
      <4> QED
        BY <2>7, <4>3
    <3>3. AllFiled
      BY <2>1, <3>2 DEF Filing, FiledBut
    <3>4. Len(csv) = nRead /\ \A k \in 1 .. nRead : csv[k] = sent[k]
      BY <3>3 DEF AllFiled
    <3>5. ASSUME NEW n \in F
          PROVE  /\ place(n) = rank[n]
                 /\ rank[n] <= Len(csv) => csv[rank[n]] = taken[n]
      <4>1. place(n) = rank[n]
        BY <2>4, <3>1
      <4>2. ASSUME rank[n] <= Len(csv)
            PROVE  csv[rank[n]] = taken[n]
        <5>1. rank[n] \in 1 .. nRead /\ rank[n] \in 1 .. Len(sent)
          BY <2>1, <2>2, <2>6, <3>4, <4>2
        <5> QED
          BY <2>2, <3>4, <5>1
      <4> QED
        BY <4>1, <4>2
    <3>6. Len(csv) <= Cardinality(kept)
      BY <2>1, <2>2, <3>1, <3>4
    <3> HIDE DEF place
    <3> QED
      BY <2>6, <3>1, <3>5, <3>6
  <2>8. ASSUME NEW zero \in F, CrcOf[taken[zero]] = 0
        PROVE  /\ Len(csv) <= Cardinality(kept)
               /\ \A n \in kept : place(n) \in 1 .. Cardinality(F)
                                   /\ (place(n) <= Len(csv) => csv[place(n)] = taken[n])
    <3>1. kept = F \ {zero}
      BY <2>2, <2>3, <2>8
    <3>2. Cardinality(kept) = Cardinality(F) - 1
      <4>1. IsFiniteSet(1 .. Len(taken)) /\ F \subseteq 1 .. Len(taken)
        BY <2>2, FS_Interval
      <4>2. IsFiniteSet(F)
        BY <4>1, FS_Subset
      <4> QED
        BY <3>1, <4>2, FS_RemoveElement
    <3>3. ASSUME NEW n \in kept
          PROVE  /\ n \in F
                 /\ \/ place(n) = rank[n] /\ rank[n] < rank[zero]
                    \/ place(n) = rank[n] - 1 /\ rank[zero] < rank[n]
      <4>1. n \in F /\ (n < zero \/ zero < n)
        BY <2>2, <3>1
      <4>2. /\ rank[n] = RankIn(F, n) /\ rank[zero] = RankIn(F, zero)
            /\ place(n) = RankIn(F \ {zero}, n)
        BY <2>4, <3>1, <4>1 DEF RankIn
      <4> HIDE DEF place
      <4>3. Len(taken) \in Nat /\ F \in SUBSET (1 .. Len(taken))
        BY <2>2
      <4>4. /\ n < zero => RankIn(F \ {zero}, n) = RankIn(F, n) /\ RankIn(F, n) < RankIn(F, zero)
            /\ zero < n => /\ RankIn(F \ {zero}, n) = RankIn(F, n) - 1
                           /\ RankIn(F, zero) < RankIn(F, n)
        BY <4>1, <4>3, WithoutOne
      <4> QED
        BY <4>1, <4>2, <4>4
    <3> HIDE DEF place
    <3>4. CASE AllFiled
      <4>1. Len(csv) = nRead /\ \A k \in 1 .. nRead : csv[k] = sent[k] /\ CrcOf[sent[k]] # 0
        BY <3>4 DEF AllFiled
      <4>2. ASSUME rank[zero] <= nRead
            PROVE  FALSE
        <5>1. rank[zero] \in 1 .. nRead /\ rank[zero] \in 1 .. Len(sent)
          BY <2>1, <2>2, <2>6, <4>2
        <5>2. sent[rank[zero]] = taken[zero]
          BY <2>2, <5>1
        <5> QED
          BY <2>8, <4>1, <5>1, <5>2
      <4>3. nRead \in Nat /\ nRead <= Len(sent) /\ nRead < rank[zero]
        BY <2>1, <2>2, <2>6, <4>2
      <4>4. ASSUME NEW n \in kept
            PROVE  /\ place(n) \in 1 .. Cardinality(F)
                   /\ place(n) <= Len(csv) => csv[place(n)] = taken[n]
        <5>1. n \in F /\ rank[n] \in 1 .. Cardinality(F) /\ rank[zero] \in 1 .. Cardinality(F)
          BY <2>6, <3>3
        <5>2. CASE place(n) = rank[n] /\ rank[n] < rank[zero]
          <6>1. ASSUME rank[n] <= Len(csv)
                PROVE  csv[rank[n]] = taken[n]
            <7>1. rank[n] \in 1 .. nRead /\ rank[n] \in 1 .. Len(sent)
              BY <2>2, <4>1, <4>3, <5>1, <6>1
            <7> QED
              BY <2>2, <4>1, <5>1, <7>1
          <6> QED
            BY <5>1, <5>2, <6>1
        <5>3. CASE place(n) = rank[n] - 1 /\ rank[zero] < rank[n]
          BY <2>2, <4>1, <4>3, <5>1, <5>3
        <5> QED
          BY <3>3, <5>2, <5>3
      <4>5. Len(csv) <= Cardinality(kept)
        BY <2>2, <2>6, <3>2, <4>1, <4>3
      <4> QED
        BY <4>4, <4>5
    <3>5. ASSUME NEW z \in 1 .. nRead, FiledBut(z)
          PROVE  /\ Len(csv) <= Cardinality(kept)
                 /\ \A n \in kept : place(n) \in 1 .. Cardinality(F)
                                     /\ (place(n) <= Len(csv) => csv[place(n)] = taken[n])
      <4>1. /\ CrcOf[sent[z]] = 0 /\ Len(csv) = nRead - 1
            /\ \A k \in 1 .. z - 1 : csv[k] = sent[k]
            /\ \A k \in z .. nRead - 1 : csv[k] = sent[k + 1]
        BY <3>5 DEF FiledBut
      <4>2. z \in 1 .. Len(sent)
        BY <2>1, <2>2
      <4>3. PICK n \in F : rank[n] = z
        BY <2>2, <4>2
      <4>4. rank[zero] = z
        <5>1. sent[z] = taken[n]
          BY <2>2, <4>2, <4>3
        <5>2. CrcOf[taken[n]] = CrcOf[taken[zero]]
          BY <2>8, <4>1, <5>1
        <5>3. n = zero
          BY <2>2, <5>2
        <5> QED
          BY <4>3, <5>3
      <4>5. ASSUME NEW m \in kept
            PROVE  /\ place(m) \in 1 .. Cardinality(F)
                   /\ place(m) <= Len(csv) => csv[place(m)] = taken[m]
        <5>1. m \in F /\ rank[m] \in 1 .. Cardinality(F)
          BY <2>6, <3>3
        <5>2. CASE place(m) = rank[m] /\ rank[m] < z
          <6>1. rank[m] \in 1 .. z - 1 /\ rank[m] \in 1 .. Len(sent)
            BY <2>2, <4>2, <5>1, <5>2
          <6>2. csv[rank[m]] = sent[rank[m]] /\ sent[rank[m]] = taken[m]
            BY <2>2, <4>1, <5>1, <6>1
          <6> QED
            BY <5>1, <5>2, <6>2
        <5>3. CASE place(m) = rank[m] - 1 /\ z < rank[m]
          <6>1. place(m) \in 1 .. Cardinality(F) /\ place(m) + 1 = rank[m]
            BY <2>2, <5>1, <5>3
          <6>2. ASSUME place(m) <= Len(csv)
                PROVE  csv[place(m)] = taken[m]
            <7>1. place(m) \in z .. nRead - 1 /\ rank[m] \in 1 .. Len(sent)
              BY <2>1, <2>2, <4>1, <5>1, <5>3, <6>1, <6>2
            <7>2. csv[place(m)] = sent[rank[m]]
              BY <4>1, <6>1, <7>1
            <7> QED
              BY <2>2, <5>1, <7>1, <7>2
          <6> QED
            BY <6>1, <6>2
        <5> QED
          BY <3>3, <4>4, <5>2, <5>3
      <4>6. Len(csv) <= Cardinality(kept)
        BY <2>1, <2>2, <3>2, <4>1
      <4> QED
        BY <4>5, <4>6
    <3> QED
      BY <2>1, <3>4, <3>5 DEF Filing
  <2> QED
    BY <2>7, <2>8
<1>2. SystemSpec => []DeliversFirstReports
  BY SystemIsServer, FirstReportsDelivered, PTL
<1>3. QED
  BY <1>1, <1>2, SystemServerInv, ReadInvariant, PTL

------------------------------------------------------------------------------
(* Client and server agree: the server waits for the LOAD_REQUEST until it *)
(* has it, and whatever comes later is an UNLOAD_REQUEST to a server that  *)
(* has answered LOAD_SUCCEED.                                              *)
Asking == entryPc \in Between \cup {"begin", "request", "done"} /\ sm = "load_wait"
Refused == reply # <<>> /\ Head(reply) # 0
Unloads == \A n \in DOMAIN inbox : inbox[n] = "UNLOAD_REQUEST"

InboxControl ==
  \/ inbox = <<>>
  \/ inbox = <<"LOAD_REQUEST">> /\ (Asking \/ (entryPc = "none" /\ peer = "closed"))
  \/ reply = <<0>> /\ Unloads
LoadControl == cPc = "load" /\ peer = "open" => Asking /\ inbox = <<>>
DataControl == cPc \in {"read", "round"} => reply = <<0>>

(* Only a refused client leaves a session that still runs, unless the user *)
(* makes it.                                                               *)
LeaveControl ==
  /\ mainPc = "join" /\ peer = "closed" /\ cPc # "interrupted" => Refused
  /\ cPc = "close" /\ peer = "open" => Refused
  /\ mainPc = "killed" => cPc = "interrupted"

TalkInv == InboxControl /\ LoadControl /\ DataControl /\ LeaveControl

(* How a step of the server touches the connection.                        *)
LEMMA EntryWire ==
  ASSUME Entry
  PROVE  /\ entryPc # "none"
         /\ \/ ReadRequest \/ Answer
            \/ UNCHANGED wire /\ (UNCHANGED mainPc \/ BrokenPipe("drain"))
<1> USE DEF EntryStep
<1>1. CASE EntryBegin \/ Observe \/ Announce \/ Check
  BY <1>1 DEF EntryBegin, Observe, Announce, Check, EntryOnly
<1>2. CASE OpenWatch \/ TakeReference \/ SpawnWatcher \/ ReleaseReference
  BY <1>2 DEF OpenWatch, LoadFails, TakeReference, SpawnWatcher, ReleaseReference, EntryOnly
<1>3. CASE ApplyLoad \/ SpawnAsync \/ SendRecord
  BY <1>3 DEF ApplyLoad, SpawnAsync, SendRecord, BrokenPipe, EntryOnly
<1>4. CASE AwaitData \/ SkipEvent \/ (\E r \in Records : HandleRecord(r)) \/ ReadError \/ ReadDry
  BY <1>4 DEF AwaitData, SkipEvent, HandleRecord, Take, ReadError, ReadDry, EntryOnly
<1>5. CASE Handled \/ Drained \/ AwaitRound \/ Terminate \/ AnnounceEnd \/ AwaitWatcher
           \/ ClearDedup
  BY <1>5 DEF Handled, Drained, SignalPend, AwaitRound, AwaitWatcher, AwaitPend, Terminate,
              AnnounceEnd, ClearDedup, EntryOnly
<1>6. CASE ReadRequest \/ Answer
  BY <1>6 DEF ReadRequest, Answer, BrokenPipe
<1> QED
  BY <1>1, <1>2, <1>3, <1>4, <1>5, <1>6 DEF Entry

(* While the server waits for the LOAD_REQUEST only reading it moves the   *)
(* entry thread out of Asking.                                             *)
LEMMA AskingStays ==
  ASSUME ServerInv, Asking, Entry, ~ReadRequest
  PROVE  Asking'
<1> USE DEF Asking, Between, EntryStep
<1>1. CASE EntryBegin \/ Observe
  BY <1>1 DEF EntryBegin, Observe, machine
<1>2. CASE Announce
  <2>1. teller = "load_wait"
    BY <1>2 DEF Announce, ServerInv, EntryControl
  <2> QED
    BY <1>2, <2>1 DEF Announce, BranchOf, machine
<1>3. CASE Check
  BY <1>3 DEF Check, machine
<1>4. CASE OpenWatch \/ TakeReference \/ SpawnWatcher \/ ReleaseReference
  BY <1>4 DEF OpenWatch, LoadFails, TakeReference, SpawnWatcher, ReleaseReference
<1>5. CASE Answer \/ ApplyLoad \/ SpawnAsync \/ SendRecord
  BY <1>5 DEF Answer, ApplyLoad, SpawnAsync, SendRecord, BrokenPipe
<1>6. CASE AwaitData \/ SkipEvent \/ (\E r \in Records : HandleRecord(r)) \/ ReadError \/ ReadDry
  BY <1>6 DEF AwaitData, SkipEvent, HandleRecord, Take, ReadError, ReadDry
<1>7. CASE Handled \/ Drained \/ AwaitRound \/ Terminate \/ AnnounceEnd \/ AwaitWatcher
           \/ ClearDedup
  BY <1>7 DEF Handled, Drained, SignalPend, AwaitRound, AwaitWatcher, AwaitPend, Terminate,
              AnnounceEnd, ClearDedup
<1> QED
  BY <1>1, <1>2, <1>3, <1>4, <1>5, <1>6, <1>7 DEF Entry

(* A request the entry thread reads is the LOAD_REQUEST; without one it    *)
(* stays where it was.                                                     *)
LEMMA ReadLoad ==
  ASSUME ServerInv, TalkInv, ReadRequest
  PROVE  /\ UNCHANGED <<peer, reply, mainPc>> /\ inbox' = <<>>
         /\ peer = "open" => inbox = <<"LOAD_REQUEST">>
<1>1. entryPc = "request" /\ UNCHANGED <<peer, reply, mainPc>>
  BY DEF ReadRequest, EntryStep, EntryOnly
<1>2. reply = <<>>
  BY <1>1 DEF ServerInv, EntryControl, ReplyControl
<1>3. inbox = <<>> \/ inbox = <<"LOAD_REQUEST">>
  BY <1>2 DEF TalkInv, InboxControl
<1>4. \/ inbox # <<>> /\ inbox' = Tail(inbox)
      \/ inbox = <<>> /\ peer = "closed" /\ UNCHANGED inbox
  BY DEF ReadRequest, Receive
<1> QED
  BY <1>1, <1>3, <1>4

LEMMA TalkServer ==
  ASSUME ServerInv, TalkInv, [ServerMoves]_vars, UNCHANGED client
  PROVE  TalkInv'
<1> USE DEF TalkInv
<1>1. UNCHANGED cPc
  BY DEF client
<1>2. CASE /\ UNCHANGED <<wire, mainPc, entryPc>>
           /\ UNCHANGED sm \/ sm # "load_wait"
  BY <1>1, <1>2 DEF InboxControl, LoadControl, DataControl, LeaveControl, wire, Asking, Refused,
                    Unloads
<1>3. CASE UNCHANGED vars
  BY <1>2, <1>3 DEF vars, threads, machine
<1>4. ASSUME NEW s \in Sessions, Watcher(s)
      PROVE  TalkInv'
  <2>1. UNCHANGED wire
    BY <1>4 DEF Watcher, WatchCount, WatchGate, WatchLook, WatchPoll, WatchNotify, WatchLeave
  <2> QED
    BY <1>2, <1>4, <2>1, OutsideFrame DEF machine
<1>5. ASSUME NEW s \in Sessions, NEW event \in Events, FileEvent(s, event)
      PROVE  TalkInv'
  BY <1>2, <1>5 DEF FileEvent, threads, machine
<1>6. ASSUME NEW s \in Sessions, Async(s)
      PROVE  TalkInv'
  <2>1. UNCHANGED <<mainPc, entryPc, reply>>
    BY <1>6, AsyncFrame DEF ServerInv
  <2>2. CASE AsyncRead(s)
    <3>1. sm = "data_ready" /\ entryPc \in Between \cup Serving
      BY <2>2 DEF AsyncRead, AsyncStep, ServerInv, AsyncControl
    <3>2. entryPc # "none" /\ ~Asking
      BY <3>1 DEF Between, Serving, Asking
    <3>3. \/ inbox = <<>> /\ UNCHANGED inbox
          \/ Unloads /\ inbox # <<>> /\ inbox' = Tail(inbox)
      BY <2>2, <3>2 DEF AsyncRead, Receive, InboxControl
    <3>4. inbox \in Seq(Payloads)
      BY DEF ServerInv, TypeInv, TypeOK, WireOK
    <3>5. InboxControl'
      <4>1. CASE inbox = <<>> /\ UNCHANGED inbox
        BY <4>1 DEF InboxControl
      <4>2. CASE Unloads /\ inbox # <<>> /\ inbox' = Tail(inbox)
        <5>1. \A n \in DOMAIN Tail(inbox) : n + 1 \in DOMAIN inbox /\ Tail(inbox)[n] = inbox[n + 1]
          BY <3>4, <4>2
        <5>2. Unloads'
          BY <4>2, <5>1 DEF Unloads
        <5>3. reply = <<0>>
          BY <3>2, <4>2 DEF InboxControl
        <5> QED
          BY <2>1, <5>2, <5>3 DEF InboxControl
      <4> QED
        BY <3>3, <4>1, <4>2
    <3>6. UNCHANGED peer
      BY <2>2 DEF AsyncRead
    <3> QED
      BY <1>1, <2>1, <3>2, <3>5, <3>6 DEF LoadControl, DataControl, LeaveControl, Refused
  <2>3. CASE AsyncUnload(s) \/ AsyncNotify(s)
    <3>1. UNCHANGED wire
      BY <2>3 DEF AsyncUnload, AsyncNotify
    <3>2. UNCHANGED sm \/ sm # "load_wait"
      BY <1>6, AsyncFrame DEF ServerInv
    <3> QED
      BY <1>2, <2>1, <3>1, <3>2
  <2> QED
    BY <1>6, <2>2, <2>3 DEF Async
<1>7. CASE JoinEntry
  <2>1. /\ mainPc' = "accept" /\ entryPc' = "none" /\ peer' = "closed"
        /\ UNCHANGED <<inbox, reply>>
    BY <1>7 DEF JoinEntry
  <2> QED
    BY <1>1, <2>1 DEF InboxControl, LoadControl, DataControl, LeaveControl, Unloads
<1>8. CASE Entry
  <2>1. CASE ReadRequest
    <3>1. /\ UNCHANGED <<peer, reply, mainPc>> /\ inbox' = <<>>
          /\ peer = "open" => inbox = <<"LOAD_REQUEST">>
      BY <2>1, ReadLoad
    <3>2. LoadControl'
      BY <1>1, <3>1 DEF LoadControl
    <3> QED
      BY <1>1, <3>1, <3>2 DEF InboxControl, DataControl, LeaveControl, Refused
  <2>2. CASE Answer
    <3>1. entryPc = "answer"
      BY <2>2 DEF Answer, EntryStep, BrokenPipe
    <3>2. sm = "load_wait" /\ reply = <<>> /\ mainPc # "accept" /\ mainPc # "killed"
      BY <2>2, <3>1
         DEF ServerInv, EntryControl, ReplyControl, Loading, Answer, EntryStep, BrokenPipe, Running
    <3>3. mainPc = "join" /\ inbox = <<>> /\ ~Asking
      BY <3>1, <3>2
         DEF ServerInv, TypeInv, TypeOK, ThreadsOK, InboxControl, Asking, Between
    <3>4. CASE BrokenPipe("answer")
      <4>1. peer = "closed" /\ mainPc' = "killed" /\ UNCHANGED <<wire, entryPc, sm>>
        BY <3>4 DEF BrokenPipe, machine
      <4>2. cPc = "interrupted"
        BY <3>2, <3>3, <4>1 DEF LeaveControl, Refused
      <4> QED
        BY <1>1, <3>3, <4>1, <4>2
           DEF InboxControl, LoadControl, DataControl, LeaveControl, wire
    <3>5. CASE UNCHANGED <<inbox, peer, mainPc>>
      BY <1>1, <3>2, <3>3, <3>5
         DEF InboxControl, LoadControl, DataControl, LeaveControl, Refused
    <3> QED
      BY <2>2, <3>4, <3>5 DEF Answer, EntryOnly
  <2>3. CASE BrokenPipe("drain")
    <3>1. /\ entryPc = "drain" /\ peer = "closed" /\ mainPc' = "killed"
          /\ UNCHANGED <<wire, entryPc, sm>>
      BY <2>3 DEF BrokenPipe, machine
    <3>2. reply = <<0>> /\ mainPc = "join"
      BY <2>3, <3>1 DEF BrokenPipe, Running, ServerInv, TypeInv, TypeOK, ThreadsOK, EntryControl,
                        ReplyControl, Serving
    <3>3. cPc = "interrupted"
      BY <3>1, <3>2 DEF LeaveControl, Refused
    <3> QED
      BY <1>1, <3>1, <3>3
         DEF InboxControl, LoadControl, DataControl, LeaveControl, wire, Unloads, Asking
  <2>4. CASE UNCHANGED <<wire, mainPc>> /\ ~ReadRequest
    <3>1. Asking => Asking'
      BY <1>8, <2>4, AskingStays
    <3>2. entryPc # "none"
      BY <1>8, EntryWire
    <3> QED
      BY <1>1, <2>4, <3>1, <3>2
         DEF InboxControl, LoadControl, DataControl, LeaveControl, wire, Unloads, Refused
  <2> QED
    BY <1>8, <2>1, <2>2, <2>3, <2>4, EntryWire
<1>9. QED
  BY <1>3, <1>4, <1>5, <1>6, <1>7, <1>8 DEF ServerMoves

(* How a step of the client touches the server: it writes a request, or    *)
(* closes the connection, or does not touch it.                            *)
LEMMA TalkClient ==
  ASSUME ServerInv, TalkInv, ClientTypeOK, Client \/ ResetArrives \/ Interrupted
  PROVE  TalkInv'
<1> USE DEF TalkInv
<1>1. ASSUME NEW type, ClientRequest(type)
      PROVE  /\ UNCHANGED <<mainPc, entryPc, sm, reply, peer>> /\ peer = "open"
             /\ inbox' = Append(inbox, type)
  BY <1>1 DEF ClientRequest, threads, machine
<1>2. inbox \in Seq(Payloads)
  BY DEF ServerInv, TypeInv, TypeOK, WireOK
<1>3. CASE SendLoad
  <2>1. cPc = "load" /\ cPc' = "answer"
    BY <1>3 DEF SendLoad, ClientStep
  <2>2. CASE ClientRequest("LOAD_REQUEST")
    <3>1. inbox = <<>> /\ Asking /\ peer = "open"
      BY <1>1, <2>1, <2>2 DEF LoadControl
    <3>2. inbox' = <<"LOAD_REQUEST">> /\ Asking'
      BY <1>1, <2>2, <3>1 DEF Asking
    <3> QED
      BY <1>1, <2>1, <2>2, <3>1, <3>2
         DEF InboxControl, LoadControl, DataControl, LeaveControl
  <2>3. CASE UNCHANGED vars
    BY <2>1, <2>3
       DEF vars, threads, machine, wire, InboxControl, LoadControl, DataControl, LeaveControl,
           Asking, Refused, Unloads
  <2> QED
    BY <1>3, <2>2, <2>3 DEF SendLoad, Write
<1>4. CASE SendUnload
  <2>1. cPc = "round" /\ cPc' = "read" /\ reply = <<0>>
    BY <1>4 DEF SendUnload, ClientStep, DataControl
  <2>2. CASE ClientRequest("UNLOAD_REQUEST")
    <3>1. Unloads
      <4>1. ~Asking
        BY <2>1 DEF ServerInv, ReplyControl, Asking, Between
      <4>2. peer = "open"
        BY <1>1, <2>2
      <4> QED
        BY <4>1, <4>2 DEF InboxControl, Unloads
    <3>2. Unloads'
      BY <1>1, <1>2, <2>2, <3>1 DEF Unloads
    <3> QED
      BY <1>1, <2>1, <2>2, <3>2
         DEF InboxControl, LoadControl, DataControl, LeaveControl, Refused
  <2>3. CASE UNCHANGED vars
    BY <2>1, <2>3
       DEF vars, threads, machine, wire, InboxControl, LoadControl, DataControl, LeaveControl,
           Asking, Refused, Unloads
  <2> QED
    BY <1>4, <2>2, <2>3 DEF SendUnload, Write
<1>5. CASE ReadAnswer
  <2>1. /\ UNCHANGED vars /\ cPc = "answer"
        /\ \/ reply # <<>> /\ Head(reply) = 0 /\ cPc' = "read"
           \/ (peer = "closed" \/ Refused) /\ cPc' = "close"
    BY <1>5 DEF ReadAnswer, ClientStep, Refused
  <2>2. reply # <<>> /\ Head(reply) = 0 => reply = <<0>>
    BY DEF ServerInv, ReplyControl, TypeInv, TypeOK, WireOK
  <2> QED
    BY <2>1, <2>2
       DEF vars, threads, machine, wire, InboxControl, LoadControl, DataControl, LeaveControl,
           Asking, Refused, Unloads
<1>6. ASSUME ClientLeaves
      PROVE  UNCHANGED <<mainPc, entryPc, sm, reply, inbox>> /\ peer = "open" /\ peer' = "closed"
  BY <1>6 DEF ClientLeaves, threads, machine
<1>7. CASE CloseClient
  <2>1. cPc = "close" /\ cPc' = "returned"
    BY <1>7 DEF CloseClient, ClientStep
  <2>2. CASE ClientLeaves
    BY <1>6, <2>1, <2>2
       DEF InboxControl, LoadControl, DataControl, LeaveControl, Asking, Refused, Unloads
  <2>3. CASE UNCHANGED vars
    BY <2>1, <2>3
       DEF vars, threads, machine, wire, InboxControl, LoadControl, DataControl, LeaveControl,
           Asking, Refused, Unloads
  <2> QED
    BY <1>7, <2>2, <2>3 DEF CloseClient
<1>8. CASE Interrupted
  BY <1>6, <1>8
     DEF Interrupted, InboxControl, LoadControl, DataControl, LeaveControl, Asking, Refused, Unloads
<1>9. CASE ReadRecord \/ ReadZeroCrc \/ ReadEnd \/ NextRound
  <2>1. UNCHANGED vars /\ cPc \in {"read", "round"} /\ cPc' \in {"read", "round"}
    BY <1>9 DEF ReadRecord, AfterRecord, ReadZeroCrc, ReadEnd, NextRound, ClientStep
  <2> QED
    BY <2>1
       DEF vars, threads, machine, wire, InboxControl, LoadControl, DataControl, LeaveControl,
           Asking, Refused, Unloads
<1>10. CASE Killed \/ ResetArrives
  <2>1. UNCHANGED vars /\ (UNCHANGED cPc \/ (cPc = "round" /\ cPc' = "killed"))
    BY <1>10 DEF Killed, ResetArrives, ClientStep
  <2> QED
    BY <2>1
       DEF vars, threads, machine, wire, InboxControl, LoadControl, DataControl, LeaveControl,
           Asking, Refused, Unloads
<1>11. QED
  BY <1>3, <1>4, <1>5, <1>7, <1>8, <1>9, <1>10 DEF Client

LEMMA TalkInvariant == SystemSpec => []TalkInv
<1>1. SystemInit => TalkInv
  BY DEF SystemInit, ClientInit, Init, TalkInv, InboxControl, LoadControl, DataControl, LeaveControl
<1>2. ServerInv /\ ReadInv /\ TalkInv /\ [SystemNext]_sysvars => TalkInv'
  <2> SUFFICES ASSUME ServerInv, ReadInv, TalkInv, [SystemNext]_sysvars
               PROVE  TalkInv'
    OBVIOUS
  <2>1. CASE Accepting /\ Connect
    <3>1. /\ inbox' = <<>> /\ sm' = "load_wait" /\ cPc' = "load" /\ mainPc = "accept"
          /\ \/ mainPc' = "join" /\ entryPc' = "begin" /\ peer' = "open"
             \/ mainPc' = "accept" /\ peer' = "closed"
      BY <2>1 DEF Accepting, RunSession, SessionFails, AcceptClient, Connect
    <3> QED
      BY <3>1 DEF TalkInv, InboxControl, LoadControl, DataControl, LeaveControl, Asking
  <2>2. session \in Nat
    BY BoundsAssumption DEF ServerInv, TypeInv, TypeOK, ThreadsOK
  <2> QED
    BY <2>1, <2>2, ClientFrame, TalkServer, TalkClient DEF ReadInv
<1>3. QED
  BY <1>1, <1>2, SystemServerInv, ReadInvariant, PTL DEF SystemSpec

(* The server refuses no request of client.cpp, whatever the speeds of the *)
(* two and however often the client repeats its UNLOAD_REQUEST.            *)
THEOREM ClientIsAllowed == SystemSpec => []RequestsAreAllowed
<1>1. ASSUME ServerInv, TalkInv
      PROVE  RequestsAreAllowed
  <2> SUFFICES ASSUME Reading, inbox # <<>>
               PROVE  Allowed(Head(inbox))
    BY DEF RequestsAreAllowed
  <2>1. CASE entryPc = "request"
    <3>1. sm = "load_wait" /\ reply = <<>>
      BY <1>1, <2>1 DEF ServerInv, EntryControl, ReplyControl
    <3>2. inbox = <<"LOAD_REQUEST">>
      BY <1>1, <3>1 DEF TalkInv, InboxControl
    <3> QED
      BY <3>1, <3>2 DEF Allowed
  <2>2. ASSUME NEW s \in Sessions, asyncPc[s] = "read"
        PROVE  Allowed(Head(inbox))
    <3>1. sm = "data_ready" /\ entryPc # "none"
      BY <1>1, <2>2 DEF ServerInv, AsyncControl, Between, Serving
    <3>2. Unloads
      BY <1>1, <3>1 DEF TalkInv, InboxControl, Asking
    <3>3. inbox \in Seq(Payloads)
      BY <1>1 DEF ServerInv, TypeInv, TypeOK, WireOK
    <3>4. Head(inbox) = "UNLOAD_REQUEST"
      BY <3>2, <3>3 DEF Unloads
    <3> QED
      BY <3>1, <3>4 DEF Allowed
  <2> QED
    BY <2>1, <2>2 DEF Reading
<1>2. QED
  BY <1>1, SystemServerInv, TalkInvariant, PTL

(* SIGPIPE ends the server only when the user has stopped the client.      *)
THEOREM ServerOutlivesClient == SystemSpec => []ServerSurvives
<1>1. TalkInv => ServerSurvives
  BY DEF TalkInv, LeaveControl, ServerSurvives
<1>2. QED
  BY <1>1, TalkInvariant, PTL
==============================================================================
