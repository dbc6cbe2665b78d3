----------------------------- MODULE DdtpDelivery -----------------------------
(***************************************************************************)
(* What becomes of the events of a watched file, seen from outside: events *)
(* are reported one after the other, and of the records among them the     *)
(* first of each crc32 is delivered, in the order of the reports.  Neither *)
(* threads, queue and dedup map (DdtpServer) nor how a record is built,    *)
(* checksummed and written (DdtpRecordPath) show here.                     *)
(***************************************************************************)
EXTENDS Naturals, Sequences, FiniteSets

CONSTANTS Records,   \* the records of accesses
          CrcOf,     \* the crc32 of each
          PidZero    \* an event nobody hears of

VARIABLES reported,  \* the events that have been looked at
          delivered  \* the records that were sent

deliveryVars == <<reported, delivered>>

DeliveryInit == reported = <<>> /\ delivered = <<>>

Report == /\ \E event \in Records \cup {PidZero} : reported' = Append(reported, event)
          /\ UNCHANGED delivered

(* The places of the first report of each crc32, and how many there are up *)
(* to one of them.                                                         *)
FirstReports ==
  {n \in DOMAIN reported :
     /\ reported[n] \in Records
     /\ \A m \in 1 .. n - 1 :
          reported[m] \in Records => CrcOf[reported[m]] # CrcOf[reported[n]]}
Rank(n) == Cardinality({m \in FirstReports : m <= n})

Deliver == /\ \E n \in FirstReports : /\ Rank(n) = Len(delivered) + 1
                                      /\ delivered' = Append(delivered, reported[n])
           /\ UNCHANGED reported

DeliveryNext == Report \/ Deliver

DeliverySpec == DeliveryInit /\ [][DeliveryNext]_deliveryVars
===============================================================================
