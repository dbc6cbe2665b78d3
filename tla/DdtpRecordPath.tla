--------------------------- MODULE DdtpRecordPath ---------------------------
(***************************************************************************)
(* One record at a time, from an access to the watched file to a line of   *)
(* the csv file: the kernel's report, __handle_inotify_events and its      *)
(* record builder, the dedup map, the global queue, the write and read     *)
(* loops over TCP, and the client's line.  Which of these runs when is     *)
(* DdtpServer's; the session here has been loaded and serves data.         *)
(*                                                                         *)
(* A payload of 130 bytes is three units: the crc, the rest of the record, *)
(* and what lies behind its 72 bytes in memory.  The units of the n-th     *)
(* payload are the numbers 3n-2, 3n-1 and 3n: where they come in the       *)
(* stream if every byte is sent once and in order.                         *)
(***************************************************************************)
EXTENDS DdtpRecord, FiniteSets

CONSTANTS
  Accesses,      \* what processes do with the watched file
  Leftovers,     \* what uninitialised kernel memory may hold
  NoCrc,         \* the crc32 that is 0
  MaxEvents,     \* bound: events of the watched file
  MaxTime        \* bound: how often the clock of the kernel moves

ASSUME BoundsAssumption == MaxEvents \in Nat /\ MaxTime \in Nat
ASSUME AccessesAssumption ==
  Accesses \subseteq [call : {"read", "readv"}, pid : Nat, from : Nat, n : Nat, size : Nat,
                      pages : Nat, misses : Nat, prev : Nat]
Extras == [count : Int, pos : Int, pid : Int, sec : Int, usec : Int,
           ra_misses : Int, ra_page_count : Int, last_cached_pos : Int]
ASSUME LeftoversAssumption == Leftovers \subseteq Extras

VARIABLES
  clock,         \* ktime_get, in microseconds
  kq,            \* the events of the inotify descriptor
  nEvents,       \* events so far (for the bound)
  handlerPc,     \* where the entry thread is
  event,         \* the event it handles
  call,          \* how many calls of the builder chain it has made
  builder,       \* the DinterrRecordBuilder
  copies,        \* the heap objects calc_crc has made and nobody deleted
  gdm, gq,       \* the dedup map and the queue
  out,           \* the units dinterr_sock_write has left to write
  stream,        \* the units on their way
  csv,           \* the lines of the csv file
  handled,       \* history: events handled, in order
  built,         \* history: the records made of them, in order
  sent,          \* history: records written, in order
  whole          \* history: every read so far returned a whole payload

kernelVars  == <<clock, kq, nEvents>>
handlerVars == <<handlerPc, event, call, builder, copies, gdm, gq, handled, built>>
streamVars  == <<out, sent>>
clientVars  == <<csv, whole>>
recordVars  == <<kernelVars, handlerVars, streamVars, stream, clientVars>>

(* The calls that make a record.  That the typestates admit them in this   *)
(* order is for the compiler to check, and no step asks (ChainCompiles in  *)
(* DdtpRecordProofs).                                                      *)
Chain == <<"add_attrs", "add_pos", "add_count", "add_pid", "add_ra_page_count",
           "add_ra_cache_misses", "add_ra_last_cache_pos", "add_timestamp", "calc_crc">>

HandlerPcs == {"await", "handle", "chain", "dedup", "drain", "write"}
Units == 3                              \* of a payload

NoEvent == [access |-> FALSE, extra |-> <<>>]

RecordInit ==
  /\ clock = 0 /\ kq = <<>> /\ nEvents = 0
  /\ handlerPc = "await" /\ event = NoEvent /\ call = 0 /\ builder = DinterrRecord
  /\ copies = 0 /\ gdm = {} /\ gq = <<>> /\ handled = <<>> /\ built = <<>>
  /\ out = <<>> /\ sent = <<>>
  /\ stream = <<>>
  /\ csv = <<>> /\ whole = TRUE

------------------------------------------------------------------------------
(* The kernel.                                                             *)

MicrosPerSecond == 2                    \* bound: enough for both parts to move

Tick ==
  /\ clock < MaxTime
  /\ clock' = clock + 1
  /\ UNCHANGED <<kq, nEvents, handlerVars, streamVars, stream, clientVars>>

Report(e) ==
  /\ nEvents < MaxEvents
  /\ nEvents' = nEvents + 1
  /\ kq' = Append(kq, e)
  /\ UNCHANGED <<clock, handlerVars, streamVars, stream, clientVars>>

(* vfs_read tells the end of the file by a negative count; a vectored read *)
(* does not.                                                               *)
ExtraAt(a, time) ==
  LET pos == a.from + a.n
  IN  [count |-> IF a.call = "read" /\ a.size = pos THEN -a.n ELSE a.n, pos |-> pos,
       pid |-> a.pid, sec |-> time \div MicrosPerSecond, usec |-> time % MicrosPerSecond,
       ra_misses |-> a.misses, ra_page_count |-> a.pages, last_cached_pos |-> a.prev]

FileAccess(a) == Report([access |-> TRUE, extra |-> ExtraAt(a, clock)])

(* The server watches IN_ALL_EVENTS; an event that is no access has its    *)
(* extra data left uninitialised.                                          *)
OtherEvent(extra) == Report([access |-> FALSE, extra |-> extra])

------------------------------------------------------------------------------
(* The entry thread.                                                       *)

HandlerStep(from, to) == /\ handlerPc = from
                         /\ handlerPc' = to
                         /\ UNCHANGED <<clock, nEvents, clientVars>>

AwaitEvents ==                          \* the poll and the two flags of DdtpServer
  /\ HandlerStep("await", "handle")
  /\ kq # <<>>
  /\ UNCHANGED <<kq, event, call, builder, copies, gdm, gq, handled, built, streamVars, stream>>

NextEvent(to) ==                        \* one event fits the read buffer
  /\ HandlerStep("handle", to)
  /\ kq # <<>>
  /\ kq' = Tail(kq)
  /\ UNCHANGED <<copies, gdm, gq, handled, built, streamVars, stream>>

SkipEvent ==
  /\ NextEvent("handle")
  /\ Event(Head(kq).extra).pid = 0
  /\ UNCHANGED <<event, call, builder>>

BeginRecord ==
  /\ NextEvent("chain")
  /\ Event(Head(kq).extra).pid # 0
  /\ event' = Head(kq)
  /\ call' = 1
  /\ builder' = DinterrRecord

CallModifier ==
  /\ HandlerStep("chain", "chain")
  /\ Chain[call] # "calc_crc"
  /\ builder' = CallTransition(MyTransitions, builder, Chain[call],
                               Assign(builder.wrapped, Modified(Chain[call], Event(event.extra))))
  /\ call' = call + 1
  /\ UNCHANGED <<kq, event, copies, gdm, gq, handled, built, streamVars, stream>>

CallCalcCrc ==
  /\ HandlerStep("chain", "dedup")
  /\ Chain[call] = "calc_crc"
  /\ builder' = CallTransition(MyTransitions, builder, "calc_crc",
                               Assign(builder.wrapped, [crc |-> CalcCrc(builder.wrapped)]))
  /\ copies' = copies + 1
  /\ UNCHANGED <<kq, event, call, gdm, gq, handled, built, streamVars, stream>>

GetCrc    == builder.wrapped.crc
GetSerdes == builder.wrapped            \* DinterrSerdesData copies all 72 bytes

(* Bug: the copy of a new record is not deleted either.                    *)
DedupKeepingCopy ==
  /\ HandlerStep("dedup", "handle")
  /\ IF GetCrc \in gdm
       THEN UNCHANGED <<gdm, gq>>
       ELSE gdm' = gdm \cup {GetCrc} /\ gq' = Append(gq, GetSerdes)
  /\ handled' = Append(handled, event) /\ built' = Append(built, GetSerdes)
  /\ UNCHANGED <<kq, event, call, builder, copies, streamVars, stream>>

(* Bug: the crc is noted, and not looked for.                              *)
DedupUnasked ==
  /\ HandlerStep("dedup", "handle")
  /\ gdm' = gdm \cup {GetCrc} /\ gq' = Append(gq, GetSerdes)
  /\ copies' = copies - 1
  /\ handled' = Append(handled, event) /\ built' = Append(built, GetSerdes)
  /\ UNCHANGED <<kq, event, call, builder, streamVars, stream>>

(* The copy is deleted only if the record is new.                          *)
Dedup ==
  /\ HandlerStep("dedup", "handle")
  /\ IF GetCrc \in gdm
       THEN UNCHANGED <<gdm, gq, copies>>
       ELSE /\ gdm' = gdm \cup {GetCrc}
            /\ gq' = Append(gq, GetSerdes)
            /\ copies' = copies - 1
  /\ handled' = Append(handled, event) /\ built' = Append(built, GetSerdes)
  /\ UNCHANGED <<kq, event, call, builder, streamVars, stream>>

ReadDry ==
  /\ HandlerStep("handle", "drain")
  /\ kq = <<>>
  /\ UNCHANGED <<kq, event, call, builder, copies, gdm, gq, handled, built, streamVars, stream>>

------------------------------------------------------------------------------
(* dinterr_sock_write: 130 bytes from the record on, in as many writes as  *)
(* the socket takes; an interrupted write is tried again.                  *)

UnitsOf(n) == [i \in 1 .. Units |-> Units * (n - 1) + i]

SendRecord ==
  /\ HandlerStep("drain", "write")
  /\ gq # <<>> /\ Head(gq).crc \in gdm
  /\ gq' = Tail(gq)
  /\ sent' = Append(sent, Head(gq))
  /\ out' = UnitsOf(Len(sent'))
  /\ UNCHANGED <<kq, event, call, builder, copies, gdm, handled, built, stream>>

(* Bug: the next write starts at the same byte.                            *)
WriteUnitsAgain(k) ==
  /\ HandlerStep("write", IF k = Len(out) THEN "drain" ELSE "write")
  /\ stream' = stream \o SubSeq(out, 1, k)
  /\ out' = SubSeq(out, 1, Len(out) - k)
  /\ UNCHANGED <<kq, event, call, builder, copies, gdm, gq, handled, built, sent>>

WriteUnits(k) ==
  /\ HandlerStep("write", IF k = Len(out) THEN "drain" ELSE "write")
  /\ stream' = stream \o SubSeq(out, 1, k)
  /\ out' = SubSeq(out, k + 1, Len(out))
  /\ UNCHANGED <<kq, event, call, builder, copies, gdm, gq, handled, built, sent>>

Drained ==
  /\ HandlerStep("drain", "await")
  /\ gq = <<>>
  /\ UNCHANGED <<kq, event, call, builder, copies, gdm, gq, handled, built, streamVars, stream>>

Handler ==
  \/ AwaitEvents \/ SkipEvent \/ BeginRecord \/ CallModifier \/ CallCalcCrc \/ Dedup
  \/ ReadDry \/ SendRecord \/ (\E k \in 1 .. Len(out) : WriteUnits(k)) \/ Drained

------------------------------------------------------------------------------
(* dinterr_sock_read: one read into the zeroed buffer, and any number of   *)
(* bytes is a payload.                                                     *)

Buffer(k) == [i \in 1 .. Units |-> IF i <= k THEN stream[i] ELSE 0]

Payload(unit)     == (unit - 1) \div Units + 1
IsCrcUnit(unit)   == unit > 0 /\ unit % Units = 1
IsRecord(response) == IsCrcUnit(response[1]) /\ response[2] = response[1] + 1

(* ddtp_client_process_response takes the first bytes for a crc, whatever  *)
(* they are.                                                               *)
CrcNonZero(response) ==
  IF IsCrcUnit(response[1]) THEN {sent[Payload(response[1])].crc # NoCrc} ELSE BOOLEAN

(* The line of a buffer that does not hold one record is any line.         *)
Garbled == <<>>
LineOf(response) ==
  IF IsRecord(response) THEN CsvLine(sent[Payload(response[1])]) ELSE Garbled

ReadResponse(k) ==
  /\ k <= Len(stream)
  /\ \E nonZero \in CrcNonZero(Buffer(k)) :
       csv' = IF nonZero THEN Append(csv, LineOf(Buffer(k))) ELSE csv
  /\ stream' = SubSeq(stream, k + 1, Len(stream))
  /\ whole' = (whole /\ k = Units)
  /\ UNCHANGED <<kernelVars, handlerVars, streamVars>>

RecordNext ==
  \/ Tick
  \/ \E a \in Accesses : FileAccess(a)
  \/ \E extra \in Leftovers : OtherEvent(extra)
  \/ Handler
  \/ \E k \in 1 .. Units : ReadResponse(k)

RecordSpec == RecordInit /\ [][RecordNext]_recordVars

------------------------------------------------------------------------------
RecordTypeOK ==
  /\ clock \in 0 .. MaxTime /\ nEvents \in 0 .. MaxEvents
  /\ handlerPc \in HandlerPcs
  /\ call \in 0 .. Len(Chain) /\ builder.state \in RecordStates
  /\ copies \in Nat
  /\ out \in Seq(Nat) /\ stream \in Seq(Nat)
  /\ whole \in BOOLEAN

(* The record of an event once every field has been assigned.              *)
Complete(e) ==
  LET x == Event(e.extra)
  IN  [attrs |-> AttrsOf(x), pos |-> x.pos, count |-> x.count, pid |-> x.pid,
       ra_page_count |-> x.ra_page_count, ra_cache_misses |-> x.ra_misses,
       ra_last_cache_pos |-> x.last_cached_pos, sec |-> x.sec, usec |-> x.usec]
RecordOf(e) == Assign(Complete(e), [crc |-> CalcCrc(Complete(e))])

(* The path of the records does nothing but what DdtpDelivery promises, as *)
(* DdtpServer does with its threads (ImplementsSession): of the records    *)
(* that were built, the first of each crc32 is sent, in their order.       *)
Reported == Leftovers \cup {ExtraAt(a, time) : a \in Accesses, time \in 0 .. MaxTime}
Events == [access : BOOLEAN, extra : Reported]
Records == {RecordOf(e) : e \in Events}
CrcOf == [r \in Records |-> r.crc]
Delivery == INSTANCE DdtpDelivery
              WITH PidZero <- NoEvent, reported <- built, delivered <- sent
ImplementsDelivery == Delivery!DeliverySpec

(* A record that is dropped as seen repeats one that was queued, field for *)
(* field, as long as crc32 itself makes no collision: the chunks it is fed *)
(* tell records apart, although they have the read-ahead fields of some of *)
(* them only.                                                              *)
Same(a, b) == \A name \in DataFields : a[name] = b[name]
Queued == sent \o gq
OnlyCopiesDropped ==
  \A n \in DOMAIN built : \E m \in DOMAIN Queued : Same(Queued[m], built[n])

(* The heap holds one object for each record that was dropped as seen, and *)
(* the one of the record at hand: the copies made for the queue are freed. *)
AtHand == IF handlerPc = "dedup" THEN 1 ELSE 0
CopiesAccounted == copies = (Len(handled) - Len(Queued)) + AtHand

(* However the socket splits the writes, the bytes of the payloads follow  *)
(* each other on the stream, none left out and none twice.                 *)
StreamIsWhole ==
  LET units == stream \o out
  IN  /\ \A n \in 1 .. Len(units) - 1 : units[n + 1] = units[n] + 1
      /\ units # <<>> => units[Len(units)] = Units * Len(sent)

(* While TCP hands over whole payloads, every line of the csv file tells   *)
(* what the kernel reported of one event, read-ahead columns apart.        *)
TellsEvent(line, extra) ==
  /\ Column(line, "pos") = extra.pos
  /\ Column(line, "count") = extra.count
  /\ Column(line, "pid") = extra.pid
  /\ Column(line, "ra_last_cache_pos") = extra.last_cached_pos
  /\ Column(line, "kernel_time") = <<extra.sec, extra.usec>>
LinesTellEvents ==
  whole => \A n \in DOMAIN csv :
             csv[n] # Garbled /\ \E m \in DOMAIN handled : TellsEvent(csv[n], handled[m].extra)

(* The two read-ahead columns as the header line names them (util.cpp:38). *)
TellsReadahead(line, extra) ==
  /\ Column(line, "ra_page_count") = extra.ra_page_count
  /\ Column(line, "ra_cache_misses") = extra.ra_misses
ReadaheadColumns ==
  whole => \A n \in DOMAIN csv :
             \E m \in DOMAIN handled :
               TellsEvent(csv[n], handled[m].extra) /\ TellsReadahead(csv[n], handled[m].extra)
==============================================================================
