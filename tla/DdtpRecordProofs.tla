-------------------------- MODULE DdtpRecordProofs --------------------------
(***************************************************************************)
(* What holds of a record on its way to the csv file, for every set of     *)
(* accesses, every content of uninitialised memory, any number of events   *)
(* and whatever crc32 computes.                                            *)
(***************************************************************************)
EXTENDS DdtpRecordPath, DdtpDeliveryProofs, TLAPS

------------------------------------------------------------------------------
(* The builder.                                                            *)

(* The states before each call of the chain and after the last, and the    *)
(* fields that are assigned by then.                                       *)
StateBefore == <<"INIT", "ATTRS", "POS", "COUNT", "PID", "RA_PAGE_COUNT",
                 "RA_CACHE_MISSES", "RA_LAST_CACHED_POS", "TIMESTAMP", "CHECKSUM">>
NamesBefore(k) ==
  CASE k = 1 -> {}
    [] k = 2 -> {"attrs"}
    [] k = 3 -> {"attrs", "pos"}
    [] k = 4 -> {"attrs", "pos", "count"}
    [] k = 5 -> {"attrs", "pos", "count", "pid"}
    [] k = 6 -> {"attrs", "pos", "count", "pid", "ra_page_count"}
    [] k = 7 -> {"attrs", "pos", "count", "pid", "ra_page_count", "ra_cache_misses"}
    [] k = 8 -> {"attrs", "pos", "count", "pid", "ra_page_count", "ra_cache_misses",
                 "ra_last_cache_pos"}
    [] k = 9 -> DataFields
Partial(k, e) == [name \in NamesBefore(k) |-> Complete(e)[name]]

(* Each call of the chain is found, and leads to the state before the next. *)
LEMMA ChainFound ==
  ASSUME NEW k \in 1 .. 9
  PROVE  FindTransition(MyTransitions, StateBefore[k], Chain[k])
           = {Transition(StateBefore[k], StateBefore[k + 1], Chain[k])}
<1> USE DEF FindTransition, MyTransitions, StateBefore, Chain, Transition
<1>1. CASE k = 1 BY <1>1
<1>2. CASE k = 2 BY <1>2
<1>3. CASE k = 3 BY <1>3
<1>4. CASE k = 4 BY <1>4
<1>5. CASE k = 5 BY <1>5
<1>6. CASE k = 6 BY <1>6
<1>7. CASE k = 7 BY <1>7
<1>8. CASE k = 8 BY <1>8
<1>9. CASE k = 9 BY <1>9
<1> QED BY <1>1, <1>2, <1>3, <1>4, <1>5, <1>6, <1>7, <1>8, <1>9

LEMMA ChainStep ==
  ASSUME NEW k \in 1 .. 9, NEW data, NEW after
  PROVE  /\ Found(MyTransitions, Wrapper(StateBefore[k], data), Chain[k])
         /\ CallTransition(MyTransitions, Wrapper(StateBefore[k], data), Chain[k], after)
              = Wrapper(StateBefore[k + 1], after)
<1> DEFINE entry == Transition(StateBefore[k], StateBefore[k + 1], Chain[k])
<1>1. FindTransition(MyTransitions, StateBefore[k], Chain[k]) = {entry}
  BY ChainFound
<1>2. (CHOOSE x \in {entry} : TRUE) = entry /\ {entry} # {}
  OBVIOUS
<1>3. entry.to = StateBefore[k + 1]
  BY DEF Transition
<1> HIDE DEF entry
<1> QED BY <1>1, <1>2, <1>3 DEF Found, NotFound, EndState, CallTransition, Wrapper

(* The typestates admit the chain, whatever the builder wraps: it is made  *)
(* in an initial state, each call has an entry from the state the one      *)
(* before leads to, and crc and bytes may be asked for after the last.     *)
LEMMA ChainCompiles ==
  ASSUME NEW data
  PROVE  /\ DinterrRecord.state = StateBefore[1]
         /\ CheckInitialState(MyInitialStates, StateBefore[1])
         /\ \A k \in 1 .. 9 : Found(MyTransitions, Wrapper(StateBefore[k], data), Chain[k])
         /\ \A query \in {"get_crc", "get_serdes"} :
              Found(MyValidQueries, Wrapper(StateBefore[10], data), query)
<1>1. DinterrRecord.state = StateBefore[1] /\ CheckInitialState(MyInitialStates, StateBefore[1])
  BY DEF DinterrRecord, Wrapper, StateBefore, CheckInitialState, MyInitialStates
<1>2. \A k \in 1 .. 9 : Found(MyTransitions, Wrapper(StateBefore[k], data), Chain[k])
  BY ChainStep
<1>3. StateBefore[10] = "CHECKSUM"
  BY DEF StateBefore
<1>4. \A query \in {"get_crc", "get_serdes"} :
        ValidQuery("CHECKSUM", query)
          \in FindTransition(MyValidQueries, Wrapper(StateBefore[10], data).state, query)
  BY <1>3 DEF FindTransition, MyValidQueries, ValidQuery, Wrapper
<1> QED BY <1>1, <1>2, <1>4 DEF Found, NotFound

(* A modifier assigns the fields it is about, from the event.              *)
LEMMA ModifierAssigns ==
  ASSUME NEW e, NEW k \in 1 .. 8
  PROVE  Assign(Partial(k, e), Modified(Chain[k], Event(e.extra))) = Partial(k + 1, e)
<1> DEFINE x == Event(e.extra)
<1> DEFINE c == Complete(e)
<1>1. /\ c.attrs = AttrsOf(x) /\ c.pos = x.pos /\ c.count = x.count /\ c.pid = x.pid
      /\ c.ra_page_count = x.ra_page_count /\ c.ra_cache_misses = x.ra_misses
      /\ c.ra_last_cache_pos = x.last_cached_pos /\ c.sec = x.sec /\ c.usec = x.usec
  BY DEF Complete
<1> HIDE DEF x, c
<1> SUFFICES Assign([name \in NamesBefore(k) |-> c[name]], Modified(Chain[k], x))
               = [name \in NamesBefore(k + 1) |-> c[name]]
  BY DEF Partial, x, c
<1> USE <1>1 DEF Assign, Modified, Chain, NamesBefore, DataFields
<1>2. CASE k = 1 BY <1>2
<1>3. CASE k = 2 BY <1>3
<1>4. CASE k = 3 BY <1>4
<1>5. CASE k = 4 BY <1>5
<1>6. CASE k = 5 BY <1>6
<1>7. CASE k = 6 BY <1>7
<1>8. CASE k = 7 BY <1>8
<1>9. CASE k = 8 BY <1>9
<1> HIDE <1>1 DEF Assign, Modified, Chain, NamesBefore, DataFields
<1> QED BY <1>2, <1>3, <1>4, <1>5, <1>6, <1>7, <1>8, <1>9

(* Before the checksum every field has been assigned.                      *)
LEMMA PartialComplete ==
  ASSUME NEW e
  PROVE  Partial(9, e) = Complete(e)
BY DEF Partial, NamesBefore, DataFields, Complete

(* An event keeps what the kernel has reported, but for the two fields the *)
(* layouts disagree about.                                                 *)
LEMMA EventTells ==
  ASSUME NEW extra
  PROVE  /\ Event(extra).count = extra["count"] /\ Event(extra).pos = extra["pos"]
         /\ Event(extra).pid = extra["pid"]
         /\ Event(extra).sec = extra["sec"] /\ Event(extra).usec = extra["usec"]
         /\ Event(extra).last_cached_pos = extra["last_cached_pos"]
<1> DEFINE place(field) == CHOOSE n \in 1 .. 8 : UserLayout[n] = field
<1>1. /\ place("count") = 1 /\ place("pos") = 2 /\ place("pid") = 3 /\ place("sec") = 4
      /\ place("usec") = 5 /\ place("last_cached_pos") = 8
  <2> USE DEF UserLayout
  <2>1. /\ UserLayout[1] = "count" /\ UserLayout[2] = "pos" /\ UserLayout[3] = "pid"
        /\ UserLayout[4] = "sec" /\ UserLayout[5] = "usec"
        /\ UserLayout[6] = "ra_page_count" /\ UserLayout[7] = "ra_misses"
        /\ UserLayout[8] = "last_cached_pos"
    OBVIOUS
  <2> HIDE DEF UserLayout
  <2>2. ASSUME NEW k \in 1 .. 8, NEW f, UserLayout[k] = f,
               \A n \in 1 .. 8 : UserLayout[n] = f => n = k
        PROVE  place(f) = k
    BY <2>2
  <2>3. \A n \in 1 .. 8 : n \in {1, 2, 3, 4, 5, 6, 7, 8}
    OBVIOUS
  <2>4. \A n \in 1 .. 8 : /\ UserLayout[n] = "count" => n = 1
                          /\ UserLayout[n] = "pos" => n = 2
                          /\ UserLayout[n] = "pid" => n = 3
                          /\ UserLayout[n] = "sec" => n = 4
                          /\ UserLayout[n] = "usec" => n = 5
                          /\ UserLayout[n] = "last_cached_pos" => n = 8
    BY <2>1, <2>3
  <2>5. place("count") = 1 BY <2>1, <2>2, <2>4
  <2>6. place("pos") = 2 BY <2>1, <2>2, <2>4
  <2>7. place("pid") = 3 BY <2>1, <2>2, <2>4
  <2>8. place("sec") = 4 BY <2>1, <2>2, <2>4
  <2>9. place("usec") = 5 BY <2>1, <2>2, <2>4
  <2>10. place("last_cached_pos") = 8 BY <2>1, <2>2, <2>4
  <2> QED BY <2>5, <2>6, <2>7, <2>8, <2>9, <2>10
<1>2. /\ CopyToUser(extra)[1] = extra["count"] /\ CopyToUser(extra)[2] = extra["pos"]
      /\ CopyToUser(extra)[3] = extra["pid"] /\ CopyToUser(extra)[4] = extra["sec"]
      /\ CopyToUser(extra)[5] = extra["usec"] /\ CopyToUser(extra)[8] = extra["last_cached_pos"]
  BY DEF CopyToUser, KernelLayout
<1>3. \A field \in ExtraFields : Event(extra)[field] = CopyToUser(extra)[place(field)]
  BY DEF Event
<1> HIDE DEF place
<1> QED BY <1>1, <1>2, <1>3 DEF ExtraFields

(* The fields of a record with its crc.                                    *)
LEMMA WrappedFields ==
  ASSUME NEW e
  PROVE  /\ \A name \in DataFields : RecordOf(e)[name] = Complete(e)[name]
         /\ RecordOf(e).crc = CalcCrc(Complete(e))
BY DEF RecordOf, Assign, Complete, DataFields

(* A line has in the columns what the record has in the fields.            *)
LEMMA ColumnsOfLine ==
  ASSUME NEW data
  PROVE  /\ Column(CsvLine(data), "pos") = data.pos
         /\ Column(CsvLine(data), "count") = data.count
         /\ Column(CsvLine(data), "pid") = data.pid
         /\ Column(CsvLine(data), "ra_last_cache_pos") = data.ra_last_cache_pos
         /\ Column(CsvLine(data), "kernel_time") = <<data.sec, data.usec>>
         /\ CsvLine(data) # Garbled
<1> DEFINE line == CsvLine(data)
<1>1. /\ line[3] = data.pos /\ line[4] = data.count /\ line[5] = data.pid
      /\ line[8] = data.ra_last_cache_pos /\ line[9] = <<data.sec, data.usec>>
      /\ line # <<>>
  BY DEF CsvLine
<1>2. /\ \A n \in DOMAIN CsvHeader : CsvHeader[n] = "pos" <=> n = 3
      /\ \A n \in DOMAIN CsvHeader : CsvHeader[n] = "count" <=> n = 4
      /\ \A n \in DOMAIN CsvHeader : CsvHeader[n] = "pid" <=> n = 5
      /\ \A n \in DOMAIN CsvHeader : CsvHeader[n] = "ra_last_cache_pos" <=> n = 8
      /\ \A n \in DOMAIN CsvHeader : CsvHeader[n] = "kernel_time" <=> n = 9
      /\ {3, 4, 5, 8, 9} \subseteq DOMAIN CsvHeader
  BY DEF CsvHeader
<1>3. ASSUME NEW name, NEW n \in DOMAIN CsvHeader,
             \A m \in DOMAIN CsvHeader : CsvHeader[m] = name <=> m = n
      PROVE  Column(line, name) = line[n]
  <2> HIDE DEF line
  <2> QED BY <1>3 DEF Column
<1> HIDE DEF line
<1>4. Column(line, "pos") = line[3] /\ Column(line, "count") = line[4]
  BY <1>2, <1>3
<1>5. Column(line, "pid") = line[5] /\ Column(line, "ra_last_cache_pos") = line[8]
  BY <1>2, <1>3
<1>6. Column(line, "kernel_time") = line[9]
  BY <1>2, <1>3
<1> QED BY <1>1, <1>4, <1>5, <1>6 DEF line, Garbled

(* The line of a record tells of the event it was made of.                 *)
LEMMA LineTells ==
  ASSUME NEW e
  PROVE  TellsEvent(CsvLine(RecordOf(e)), e.extra) /\ CsvLine(RecordOf(e)) # Garbled
<1> DEFINE r == RecordOf(e)
<1> DEFINE x == Event(e.extra)
<1>1. /\ r.pos = x.pos /\ r.count = x.count /\ r.pid = x.pid /\ r.sec = x.sec
      /\ r.usec = x.usec /\ r.ra_last_cache_pos = x.last_cached_pos
  <2>1. /\ r.pos = Complete(e).pos /\ r.count = Complete(e).count /\ r.pid = Complete(e).pid
        /\ r.sec = Complete(e).sec /\ r.usec = Complete(e).usec
        /\ r.ra_last_cache_pos = Complete(e).ra_last_cache_pos
    <3> HIDE DEF r
    <3> QED BY WrappedFields DEF DataFields, r
  <2> QED BY <2>1 DEF Complete
<1> HIDE DEF r, x
<1> QED BY <1>1, ColumnsOfLine, EventTells DEF TellsEvent, r, x

(* The elements of the two sequences of chunks.                            *)
LEMMA NineChunks ==
  ASSUME NEW a, NEW b, NEW c, NEW d, NEW x, NEW y, NEW z1, NEW z2, NEW z3,
         NEW s, s = <<a, b, c, d>> \o <<x, y>> \o <<z1, z2, z3>>
  PROVE  /\ s[1] = a /\ s[2] = b /\ s[3] = c /\ s[4] = d /\ s[5] = x /\ s[6] = y
         /\ s[7] = z1 /\ s[8] = z2 /\ s[9] = z3
OBVIOUS

LEMMA SevenChunks ==
  ASSUME NEW a, NEW b, NEW c, NEW d, NEW z1, NEW z2, NEW z3,
         NEW s, s = <<a, b, c, d>> \o <<>> \o <<z1, z2, z3>>
  PROVE  /\ s[1] = a /\ s[2] = b /\ s[3] = c /\ s[4] = d
         /\ s[5] = z1 /\ s[6] = z2 /\ s[7] = z3
OBVIOUS

(* Where the fields of a record are among the chunks.                      *)
LEMMA ChunksOf ==
  ASSUME NEW data
  PROVE  LET c == Chunks(data)
         IN  /\ c[1] = data.attrs /\ c[2] = data.pos /\ c[3] = data.count /\ c[4] = data.pid
             /\ IF IsAttrSet(data.attrs, "READAHEAD")
                  THEN /\ c[5] = data.ra_page_count /\ c[6] = data.ra_cache_misses
                       /\ c[7] = data.ra_last_cache_pos /\ c[8] = data.sec /\ c[9] = data.usec
                  ELSE c[5] = data.ra_last_cache_pos /\ c[6] = data.sec /\ c[7] = data.usec
<1>1. CASE IsAttrSet(data.attrs, "READAHEAD")
  <2>1. Chunks(data) = <<data.attrs, data.pos, data.count, data.pid>>
                         \o <<data.ra_page_count, data.ra_cache_misses>>
                         \o <<data.ra_last_cache_pos, data.sec, data.usec>>
    BY <1>1 DEF Chunks
  <2> QED BY <2>1, <1>1, NineChunks
<1>2. CASE ~IsAttrSet(data.attrs, "READAHEAD")
  <2>1. Chunks(data) = <<data.attrs, data.pos, data.count, data.pid>> \o <<>>
                         \o <<data.ra_last_cache_pos, data.sec, data.usec>>
    BY <1>2 DEF Chunks
  <2> QED BY <2>1, <1>2, SevenChunks
<1> QED BY <1>1, <1>2

(* The chunks that crc32 is fed tell records apart, although they have the *)
(* read-ahead fields of some of them only.                                 *)
THEOREM ChecksumCoversRecord ==
  ASSUME NEW e, NEW f, Chunks(Complete(e)) = Chunks(Complete(f))
  PROVE  Same(Complete(e), Complete(f))
<1> DEFINE c == Complete(e)
<1> DEFINE d == Complete(f)
<1>1. /\ ~IsAttrSet(c.attrs, "READAHEAD") => c.ra_page_count = 0 /\ c.ra_cache_misses = 0
      /\ ~IsAttrSet(d.attrs, "READAHEAD") => d.ra_page_count = 0 /\ d.ra_cache_misses = 0
  BY DEF Complete, AttrsOf, SetAttr, IsAttrSet, SupportedAttrs
<1>2. Chunks(c) = Chunks(d)
  OBVIOUS
<1> HIDE DEF c, d
<1>3. c.attrs = d.attrs /\ c.pos = d.pos /\ c.count = d.count /\ c.pid = d.pid
  BY <1>2, ChunksOf
<1>4. c.ra_page_count = d.ra_page_count /\ c.ra_cache_misses = d.ra_cache_misses
      /\ c.ra_last_cache_pos = d.ra_last_cache_pos /\ c.sec = d.sec /\ c.usec = d.usec
  <2>1. CASE IsAttrSet(c.attrs, "READAHEAD")
    BY <1>2, <1>3, <2>1, ChunksOf
  <2>2. CASE ~IsAttrSet(c.attrs, "READAHEAD")
    BY <1>1, <1>2, <1>3, <2>2, ChunksOf
  <2> QED BY <2>1, <2>2
<1> QED BY <1>3, <1>4 DEF Same, DataFields, c, d

------------------------------------------------------------------------------
(* The invariant of the path.                                              *)

PathTypes ==
  /\ clock \in 0 .. MaxTime
  /\ kq \in Seq(Events) /\ handled \in Seq(Events)
  /\ handlerPc \in {"chain", "dedup"} => event \in Events
  /\ gq \in Seq(Records) /\ sent \in Seq(Records) /\ built \in Seq(Records)
  /\ out \in Seq(Nat) /\ stream \in Seq(Nat)
  /\ copies \in Int

(* Where the builder is in the chain, and what it has assigned.            *)
BuilderInv ==
  /\ handlerPc = "chain" =>
       call \in 1 .. 9 /\ builder = Wrapper(StateBefore[call], Partial(call, event))
  /\ handlerPc = "dedup" => builder.state = "CHECKSUM"
  /\ builder.state = "CHECKSUM" => builder.wrapped = RecordOf(event)

CountInv == copies = (Len(handled) - (Len(sent) + Len(gq))) + AtHand

RecordInv == PathTypes /\ BuilderInv /\ CountInv

(* The elements of two sequences put together.                             *)
LEMMA ElementsOfConcat ==
  ASSUME NEW A, NEW s \in Seq(A), NEW t \in Seq(A)
  PROVE  /\ s \o t \in Seq(A) /\ Len(s \o t) = Len(s) + Len(t)
         /\ \A n \in 1 .. Len(s) : (s \o t)[n] = s[n]
         /\ \A n \in 1 .. Len(t) : (s \o t)[Len(s) + n] = t[n]
OBVIOUS

LEMMA PathStarts ==
  ASSUME RecordInit
  PROVE  RecordInv
<1>1. PathTypes
  BY BoundsAssumption DEF RecordInit, PathTypes
<1>2. BuilderInv
  BY DEF RecordInit, BuilderInv, DinterrRecord, Wrapper
<1>3. CountInv
  <2>1. Len(handled) = 0 /\ Len(sent) = 0 /\ Len(gq) = 0
    BY DEF RecordInit
  <2>2. copies = 0 /\ AtHand = 0
    BY DEF RecordInit, AtHand
  <2> QED BY <2>1, <2>2 DEF CountInv
<1> QED BY <1>1, <1>2, <1>3 DEF RecordInv

(* The kernel's steps leave the server and the client alone.               *)
KernelStep ==
  \/ Tick
  \/ \E a \in Accesses : FileAccess(a)
  \/ \E extra \in Leftovers : OtherEvent(extra)

LEMMA KernelReports ==
  ASSUME PathTypes, KernelStep
  PROVE  /\ clock' \in 0 .. MaxTime /\ kq' \in Seq(Events)
         /\ UNCHANGED <<handlerVars, streamVars, stream, clientVars>>
<1>1. CASE Tick
  BY <1>1, BoundsAssumption DEF Tick, PathTypes
<1>2. ASSUME NEW a \in Accesses, FileAccess(a)
      PROVE  clock' = clock /\ kq' \in Seq(Events)
             /\ UNCHANGED <<handlerVars, streamVars, stream, clientVars>>
  <2>1. ExtraAt(a, clock) \in Reported
    BY DEF Reported, PathTypes
  <2>2. [access |-> TRUE, extra |-> ExtraAt(a, clock)] \in Events
    BY <2>1 DEF Events
  <2> QED BY <1>2, <2>2 DEF FileAccess, Report, PathTypes
<1>3. ASSUME NEW extra \in Leftovers, OtherEvent(extra)
      PROVE  clock' = clock /\ kq' \in Seq(Events)
             /\ UNCHANGED <<handlerVars, streamVars, stream, clientVars>>
  <2>1. [access |-> FALSE, extra |-> extra] \in Events
    BY DEF Events, Reported
  <2> QED BY <1>3, <2>1 DEF OtherEvent, Report, PathTypes
<1> QED BY <1>1, <1>2, <1>3 DEF KernelStep, PathTypes

(* A step that only moves the entry thread to where no event is at hand.   *)
Idle == AwaitEvents \/ SkipEvent \/ ReadDry \/ Drained

LEMMA IdleStep ==
  ASSUME RecordInv, Idle
  PROVE  /\ handlerPc' \in {"handle", "drain", "await"} /\ handlerPc \in {"await", "handle", "drain"}
         /\ kq' \in Seq(Events)
         /\ UNCHANGED <<clock, event, call, builder, copies, gdm, gq, handled, built, streamVars,
                        stream, clientVars>>
<1> USE DEF HandlerStep
<1>1. kq \in Seq(Events)
  BY DEF RecordInv, PathTypes
<1>2. CASE AwaitEvents
  BY <1>1, <1>2 DEF AwaitEvents
<1>3. CASE SkipEvent
  <2>1. kq' \in Seq(Events) /\ handlerPc = "handle" /\ handlerPc' = "handle"
    BY <1>1, <1>3 DEF SkipEvent, NextEvent
  <2> QED BY <2>1, <1>3 DEF SkipEvent, NextEvent
<1>4. CASE ReadDry
  BY <1>1, <1>4 DEF ReadDry
<1>5. CASE Drained
  BY <1>1, <1>5 DEF Drained
<1> QED BY <1>2, <1>3, <1>4, <1>5 DEF Idle

LEMMA BeginStep ==
  ASSUME RecordInv, BeginRecord
  PROVE  RecordInv'
<1>1. /\ kq \in Seq(Events) /\ kq # <<>> /\ kq' = Tail(kq)
      /\ handlerPc = "handle" /\ handlerPc' = "chain" /\ clock' = clock
      /\ UNCHANGED <<copies, gdm, gq, handled, built, out, sent, stream>>
      /\ event' = Head(kq) /\ call' = 1 /\ builder' = DinterrRecord
  BY DEF BeginRecord, NextEvent, HandlerStep, streamVars, RecordInv, PathTypes
<1>2. Head(kq) \in Events /\ Tail(kq) \in Seq(Events)
  BY <1>1
<1>3. PathTypes'
  BY <1>1, <1>2 DEF RecordInv, PathTypes
<1>4. builder' = Wrapper(StateBefore[1], Partial(1, event'))
  BY <1>1 DEF DinterrRecord, StateBefore, Partial, NamesBefore
<1>5. builder'.state = "INIT"
  BY <1>1 DEF DinterrRecord, Wrapper
<1>6. BuilderInv'
  BY <1>1, <1>4, <1>5 DEF BuilderInv
<1>7. CountInv'
  BY <1>1 DEF RecordInv, CountInv, AtHand
<1> QED BY <1>3, <1>6, <1>7 DEF RecordInv

(* A call of the chain finds the state it needs, and leaves the record of  *)
(* this event with the next fields assigned.                               *)
LEMMA ChainCalls ==
  ASSUME RecordInv, CallModifier
  PROVE  RecordInv'
<1>1. /\ handlerPc = "chain" /\ handlerPc' = "chain" /\ clock' = clock
      /\ UNCHANGED <<kq, event, copies, gdm, gq, handled, built, out, sent, stream>>
      /\ call \in 1 .. 9 /\ call' = call + 1 /\ Chain[call] # "calc_crc"
      /\ builder = Wrapper(StateBefore[call], Partial(call, event))
  BY DEF CallModifier, HandlerStep, streamVars, RecordInv, BuilderInv
<1>2. call \in 1 .. 8
  <2>1. Chain[9] = "calc_crc"
    BY DEF Chain
  <2> QED BY <1>1, <2>1
<1>3. builder.wrapped = Partial(call, event)
  BY <1>1 DEF Wrapper
<1>4. builder' = Wrapper(StateBefore[call + 1], Partial(call + 1, event))
  <2>1. builder' = CallTransition(MyTransitions, builder, Chain[call], Partial(call + 1, event))
    BY <1>2, <1>3, ModifierAssigns DEF CallModifier
  <2> QED BY <1>1, <2>1, ChainStep
<1>5. PathTypes'
  BY <1>1 DEF RecordInv, PathTypes
<1>6. StateBefore[call + 1] # "CHECKSUM"
  <2>1. call + 1 \in {2, 3, 4, 5, 6, 7, 8, 9}
    BY <1>2
  <2> QED BY <2>1 DEF StateBefore
<1>7. builder'.state # "CHECKSUM"
  BY <1>4, <1>6 DEF Wrapper
<1>8. BuilderInv'
  BY <1>1, <1>2, <1>4, <1>7 DEF BuilderInv
<1>9. CountInv'
  BY <1>1 DEF RecordInv, CountInv, AtHand
<1> QED BY <1>5, <1>8, <1>9 DEF RecordInv

LEMMA CrcStep ==
  ASSUME RecordInv, CallCalcCrc
  PROVE  RecordInv'
<1>1. /\ handlerPc = "chain" /\ handlerPc' = "dedup" /\ clock' = clock
      /\ UNCHANGED <<kq, event, call, gdm, gq, handled, built, out, sent, stream>>
      /\ call \in 1 .. 9 /\ Chain[call] = "calc_crc" /\ copies' = copies + 1
      /\ builder = Wrapper(StateBefore[call], Partial(call, event))
  BY DEF CallCalcCrc, HandlerStep, streamVars, RecordInv, BuilderInv
<1>2. call = 9
  <2>1. call \in {1, 2, 3, 4, 5, 6, 7, 8, 9}
    BY <1>1
  <2> QED BY <1>1, <2>1 DEF Chain
<1>3. builder.wrapped = Complete(event)
  BY <1>1, <1>2, PartialComplete DEF Wrapper
<1>4. builder' = Wrapper(StateBefore[10], RecordOf(event))
  <2>1. builder' = CallTransition(MyTransitions, builder, Chain[9], RecordOf(event))
    BY <1>1, <1>2, <1>3 DEF CallCalcCrc, RecordOf
  <2> QED BY <1>1, <1>2, <2>1, ChainStep
<1>5. PathTypes'
  BY <1>1 DEF RecordInv, PathTypes
<1>6. builder'.state = "CHECKSUM" /\ builder'.wrapped = RecordOf(event)
  BY <1>4 DEF Wrapper, StateBefore
<1>7. BuilderInv'
  BY <1>1, <1>6 DEF BuilderInv
<1>8. CountInv'
  <2>1. Len(handled) \in Nat /\ Len(sent) \in Nat /\ Len(gq) \in Nat /\ copies \in Int
    BY DEF RecordInv, PathTypes
  <2> QED BY <1>1, <2>1 DEF RecordInv, CountInv, AtHand
<1> QED BY <1>5, <1>7, <1>8 DEF RecordInv

LEMMA DedupStep ==
  ASSUME RecordInv, Dedup
  PROVE  RecordInv'
<1>1. /\ handlerPc = "dedup" /\ handlerPc' = "handle" /\ clock' = clock
      /\ UNCHANGED <<kq, event, call, builder, out, sent, stream>>
      /\ handled' = Append(handled, event) /\ event \in Events
      /\ built' = Append(built, RecordOf(event))
      /\ \/ gq' = gq /\ copies' = copies
         \/ gq' = Append(gq, RecordOf(event)) /\ copies' = copies - 1
  BY DEF Dedup, HandlerStep, streamVars, RecordInv, PathTypes, BuilderInv, GetSerdes
<1>2. RecordOf(event) \in Records
  BY <1>1 DEF Records
<1>3. /\ handled \in Seq(Events) /\ gq \in Seq(Records) /\ copies \in Int /\ Len(sent) \in Nat
      /\ handled' \in Seq(Events) /\ Len(handled') = Len(handled) + 1
      /\ Len(handled) \in Nat /\ Len(gq) \in Nat /\ built' \in Seq(Records)
  BY <1>1, <1>2 DEF RecordInv, PathTypes
<1>4. /\ gq' \in Seq(Records) /\ copies' \in Int
      /\ \/ Len(gq') = Len(gq) /\ copies' = copies
         \/ Len(gq') = Len(gq) + 1 /\ copies' = copies - 1
  <2>1. CASE gq' = gq /\ copies' = copies
    BY <2>1, <1>3
  <2>2. CASE gq' = Append(gq, RecordOf(event)) /\ copies' = copies - 1
    BY <2>2, <1>2, <1>3
  <2> QED BY <1>1, <2>1, <2>2
<1>5. PathTypes'
  BY <1>1, <1>3, <1>4 DEF RecordInv, PathTypes
<1>6. BuilderInv'
  BY <1>1 DEF RecordInv, BuilderInv
<1>7. CountInv'
  <2>1. copies = (Len(handled) - (Len(sent) + Len(gq))) + 1
    BY <1>1 DEF RecordInv, CountInv, AtHand
  <2>3. copies' = Len(handled') - (Len(sent) + Len(gq'))
    BY <1>3, <1>4, <2>1
  <2>4. AtHand' = 0 /\ sent' = sent
    BY <1>1 DEF AtHand
  <2> QED BY <1>3, <1>4, <2>3, <2>4 DEF CountInv
<1> QED BY <1>5, <1>6, <1>7 DEF RecordInv

LEMMA SendStep ==
  ASSUME RecordInv, SendRecord
  PROVE  /\ RecordInv'
         /\ Len(sent') = Len(sent) + 1 /\ out' = UnitsOf(Len(sent) + 1)
<1>1. /\ handlerPc = "drain" /\ handlerPc' = "write" /\ clock' = clock /\ gq # <<>>
      /\ UNCHANGED <<kq, event, call, builder, copies, gdm, handled, built, stream>>
      /\ gq' = Tail(gq) /\ sent' = Append(sent, Head(gq)) /\ out' = UnitsOf(Len(sent'))
  BY DEF SendRecord, HandlerStep
<1>2. gq \in Seq(Records) /\ sent \in Seq(Records) /\ handled \in Seq(Events) /\ copies \in Int
  BY DEF RecordInv, PathTypes
<1>3. Head(gq) \in Records /\ Tail(gq) \in Seq(Records) /\ Len(Tail(gq)) = Len(gq) - 1
  BY <1>1, <1>2
<1>4. sent' \in Seq(Records) /\ Len(sent') = Len(sent) + 1 /\ Len(sent) \in Nat
  BY <1>1, <1>2, <1>3
<1>5. out' \in Seq(Nat)
  <2> DEFINE m == Len(sent')
  <2>1. m \in Nat /\ m >= 1
    BY <1>4
  <2> HIDE DEF m
  <2>2. \A n \in 1 .. 3 : 3 * (m - 1) + n \in Nat
    BY <2>1
  <2> QED BY <1>1, <2>2 DEF UnitsOf, Units, m
<1>6. PathTypes'
  BY <1>1, <1>3, <1>4, <1>5 DEF RecordInv, PathTypes
<1>7. BuilderInv'
  BY <1>1 DEF RecordInv, BuilderInv
<1>8. CountInv'
  <2>1. Len(gq) \in Nat /\ Len(handled) \in Nat
    BY <1>2
  <2> QED BY <1>1, <1>2, <1>3, <1>4, <2>1 DEF RecordInv, CountInv, AtHand
<1> QED BY <1>1, <1>4, <1>6, <1>7, <1>8 DEF RecordInv

LEMMA NumbersConcat ==
  ASSUME NEW s \in Seq(Nat), NEW t \in Seq(Nat)
  PROVE  /\ s \o t \in Seq(Nat) /\ Len(s \o t) = Len(s) + Len(t)
         /\ \A n \in 1 .. Len(s) : (s \o t)[n] = s[n]
         /\ \A n \in 1 .. Len(t) : (s \o t)[Len(s) + n] = t[n]
OBVIOUS

(* Part of a sequence of numbers moves to the end of another.              *)
LEMMA Moved ==
  ASSUME NEW s \in Seq(Nat), NEW t \in Seq(Nat), NEW k \in 1 .. Len(t)
  PROVE  /\ SubSeq(t, k + 1, Len(t)) \in Seq(Nat)
         /\ Len(SubSeq(t, k + 1, Len(t))) = Len(t) - k
         /\ \A n \in 1 .. Len(t) - k : SubSeq(t, k + 1, Len(t))[n] = t[n + k]
         /\ s \o SubSeq(t, 1, k) \in Seq(Nat)
         /\ Len(s \o SubSeq(t, 1, k)) = Len(s) + k
         /\ \A n \in 1 .. Len(s) : (s \o SubSeq(t, 1, k))[n] = s[n]
         /\ \A n \in 1 .. k : (s \o SubSeq(t, 1, k))[Len(s) + n] = t[n]
<1>1. /\ SubSeq(t, k + 1, Len(t)) \in Seq(Nat)
      /\ Len(SubSeq(t, k + 1, Len(t))) = Len(t) - k
      /\ \A n \in 1 .. Len(t) - k : SubSeq(t, k + 1, Len(t))[n] = t[n + k]
  <2>1. SubSeq(t, k + 1, Len(t)) \in Seq(Nat)
    OBVIOUS
  <2>2. Len(SubSeq(t, k + 1, Len(t))) = Len(t) - k
    OBVIOUS
  <2>3. \A n \in 1 .. Len(t) - k : SubSeq(t, k + 1, Len(t))[n] = t[n + k]
    OBVIOUS
  <2> QED BY <2>1, <2>2, <2>3
<1> DEFINE first == SubSeq(t, 1, k)
<1>2. first \in Seq(Nat) /\ Len(first) = k /\ \A n \in 1 .. k : first[n] = t[n]
  OBVIOUS
<1> HIDE DEF first
<1>3. /\ s \o first \in Seq(Nat) /\ Len(s \o first) = Len(s) + Len(first)
      /\ \A n \in 1 .. Len(s) : (s \o first)[n] = s[n]
      /\ \A n \in 1 .. Len(first) : (s \o first)[Len(s) + n] = first[n]
  BY <1>2, NumbersConcat
<1> QED BY <1>1, <1>2, <1>3 DEF first

LEMMA WriteStep ==
  ASSUME RecordInv, NEW k \in 1 .. Len(out), WriteUnits(k)
  PROVE  RecordInv'
<1>1. /\ handlerPc = "write" /\ handlerPc' \in {"drain", "write"} /\ clock' = clock
      /\ stream' = stream \o SubSeq(out, 1, k) /\ out' = SubSeq(out, k + 1, Len(out))
      /\ UNCHANGED <<kq, event, call, builder, copies, gdm, gq, handled, built, sent>>
  BY DEF WriteUnits, HandlerStep
<1>2. out' \in Seq(Nat) /\ stream' \in Seq(Nat)
  BY <1>1, Moved DEF RecordInv, PathTypes
<1> QED BY <1>1, <1>2 DEF RecordInv, PathTypes, BuilderInv, CountInv, AtHand

LEMMA ResponseStep ==
  ASSUME RecordInv, NEW k \in 1 .. Units, ReadResponse(k)
  PROVE  /\ RecordInv' /\ k \in 1 .. Len(stream)
         /\ UNCHANGED <<kernelVars, handlerVars, streamVars>>
<1>1. k \in 1 .. Len(stream) /\ stream' = SubSeq(stream, k + 1, Len(stream))
      /\ UNCHANGED <<kernelVars, handlerVars, streamVars>>
  BY DEF ReadResponse, Units, RecordInv, PathTypes
<1>2. stream' \in Seq(Nat)
  BY <1>1, Moved DEF RecordInv, PathTypes
<1> QED BY <1>1, <1>2 DEF RecordInv, PathTypes, BuilderInv, CountInv, AtHand,
                          kernelVars, handlerVars, streamVars

(* The steps of the path, and those that leave all but the kernel and the  *)
(* places alone.                                                           *)
LEMMA PathSteps ==
  ASSUME RecordNext
  PROVE  \/ KernelStep \/ Idle \/ BeginRecord \/ CallModifier \/ CallCalcCrc \/ Dedup
         \/ SendRecord \/ (\E k \in 1 .. Len(out) : WriteUnits(k))
         \/ \E k \in 1 .. Units : ReadResponse(k)
BY DEF RecordNext, Handler, KernelStep, Idle

LEMMA RecordKeeps ==
  ASSUME RecordInv, [RecordNext]_recordVars
  PROVE  RecordInv'
<1>1. CASE UNCHANGED recordVars
  BY <1>1 DEF recordVars, kernelVars, handlerVars, streamVars, RecordInv, PathTypes,
              BuilderInv, CountInv, AtHand
<1>2. CASE KernelStep
  BY <1>2, KernelReports DEF RecordInv, PathTypes, BuilderInv, CountInv, AtHand,
                             handlerVars, streamVars
<1>3. CASE Idle
  BY <1>3, IdleStep DEF RecordInv, PathTypes, BuilderInv, CountInv, AtHand, streamVars
<1> QED BY <1>1, <1>2, <1>3, PathSteps, BeginStep, ChainCalls, CrcStep, DedupStep, SendStep,
           WriteStep, ResponseStep

(* The server loses one heap object for each record it drops as seen, and  *)
(* none otherwise.                                                         *)
THEOREM LostCopiesCounted == RecordSpec => []CopiesAccounted
<1>1. RecordInv => CopiesAccounted
  <2> SUFFICES ASSUME RecordInv PROVE CopiesAccounted
    OBVIOUS
  <2>1. Len(Queued) = Len(sent) + Len(gq)
    BY ElementsOfConcat DEF RecordInv, PathTypes, Queued
  <2> QED BY <2>1 DEF RecordInv, CountInv, CopiesAccounted
<1> QED BY <1>1, PathStarts, RecordKeeps, PTL DEF RecordSpec

(* The types, and what a heap object is counted for while it is at hand.    *)
TypesInv ==
  /\ nEvents \in 0 .. MaxEvents /\ handlerPc \in HandlerPcs
  /\ call \in 0 .. 9 /\ builder.state \in RecordStates
  /\ copies >= AtHand
  /\ whole \in BOOLEAN

LEMMA TypesStart ==
  ASSUME RecordInit
  PROVE  TypesInv
<1>1. nEvents \in 0 .. MaxEvents
  BY BoundsAssumption DEF RecordInit
<1>2. builder.state \in RecordStates
  BY DEF RecordInit, DinterrRecord, Wrapper, RecordStates
<1> QED BY <1>1, <1>2 DEF RecordInit, TypesInv, HandlerPcs, AtHand

LEMMA TypesKeep ==
  ASSUME RecordInv, TypesInv, [RecordNext]_recordVars
  PROVE  TypesInv'
<1> USE DEF TypesInv
<1>1. CASE UNCHANGED recordVars
  BY <1>1 DEF recordVars, kernelVars, handlerVars, clientVars, AtHand
<1>2. CASE KernelStep
  <2>1. UNCHANGED <<handlerVars, clientVars>>
    BY <1>2, KernelReports DEF RecordInv
  <2>2. nEvents' = nEvents \/ (nEvents < MaxEvents /\ nEvents' = nEvents + 1)
    BY <1>2 DEF KernelStep, Tick, FileAccess, OtherEvent, Report
  <2>3. nEvents' \in 0 .. MaxEvents
    BY <2>2, BoundsAssumption
  <2> QED BY <2>1, <2>3 DEF handlerVars, clientVars, AtHand
<1>3. CASE Idle
  <2>1. nEvents' = nEvents
    BY <1>3 DEF Idle, AwaitEvents, SkipEvent, ReadDry, Drained, NextEvent, HandlerStep
  <2>2. /\ handlerPc' \in {"handle", "drain", "await"} /\ handlerPc \in {"await", "handle", "drain"}
        /\ UNCHANGED <<call, builder, copies, whole>>
    BY <1>3, IdleStep DEF clientVars
  <2> QED BY <2>1, <2>2 DEF HandlerPcs, AtHand
<1>4. CASE BeginRecord
  <2>1. handlerPc = "handle" /\ handlerPc' = "chain" /\ UNCHANGED <<nEvents, copies, whole>>
        /\ call' = 1 /\ builder'.state = "INIT"
    BY <1>4 DEF BeginRecord, NextEvent, HandlerStep, clientVars, DinterrRecord, Wrapper
  <2> QED BY <2>1 DEF HandlerPcs, RecordStates, AtHand
<1>5. CASE CallModifier
  <2>1. handlerPc = "chain" /\ handlerPc' = "chain" /\ UNCHANGED <<nEvents, copies, whole>>
    BY <1>5 DEF CallModifier, HandlerStep, clientVars
  <2>2. call' \in 1 .. 9 /\ builder' = Wrapper(StateBefore[call'], Partial(call', event'))
    BY <1>5, <2>1, ChainCalls DEF RecordInv, BuilderInv
  <2>3. StateBefore[call'] \in RecordStates
    <3>1. call' \in {1, 2, 3, 4, 5, 6, 7, 8, 9}
      BY <2>2
    <3> QED BY <3>1 DEF StateBefore, RecordStates
  <2>4. builder'.state \in RecordStates
    BY <2>2, <2>3 DEF Wrapper
  <2> QED BY <2>1, <2>2, <2>4 DEF HandlerPcs, AtHand
<1>6. CASE CallCalcCrc
  <2>1. handlerPc = "chain" /\ handlerPc' = "dedup" /\ UNCHANGED <<nEvents, call, whole>>
        /\ copies' = copies + 1 /\ copies \in Int
    BY <1>6 DEF CallCalcCrc, HandlerStep, clientVars, RecordInv, PathTypes
  <2>2. builder'.state = "CHECKSUM"
    BY <1>6, <2>1, CrcStep DEF RecordInv, BuilderInv
  <2> QED BY <2>1, <2>2 DEF HandlerPcs, RecordStates, AtHand
<1>7. CASE Dedup
  <2>1. handlerPc = "dedup" /\ handlerPc' = "handle" /\ UNCHANGED <<nEvents, call, builder, whole>>
        /\ copies \in Int /\ (copies' = copies \/ copies' = copies - 1)
    BY <1>7 DEF Dedup, HandlerStep, clientVars, RecordInv, PathTypes
  <2> QED BY <2>1 DEF HandlerPcs, AtHand
<1>8. CASE SendRecord
  <2>1. handlerPc = "drain" /\ handlerPc' = "write"
        /\ UNCHANGED <<nEvents, call, builder, whole, copies>>
    BY <1>8 DEF SendRecord, HandlerStep, clientVars
  <2> QED BY <2>1 DEF HandlerPcs, AtHand
<1>9. ASSUME NEW k \in 1 .. Len(out), WriteUnits(k)
      PROVE  TypesInv'
  <2>1. handlerPc = "write" /\ handlerPc' \in {"drain", "write"}
        /\ UNCHANGED <<nEvents, call, builder, whole, copies>>
    BY <1>9 DEF WriteUnits, HandlerStep, clientVars
  <2> QED BY <2>1 DEF HandlerPcs, AtHand
<1>10. ASSUME NEW k \in 1 .. Units, ReadResponse(k)
       PROVE  TypesInv'
  <2>1. UNCHANGED <<nEvents, handlerPc, call, builder, copies>> /\ whole' \in BOOLEAN
    BY <1>10 DEF ReadResponse, kernelVars, handlerVars
  <2> QED BY <2>1 DEF AtHand
<1> QED BY <1>1, <1>2, <1>3, <1>4, <1>5, <1>6, <1>7, <1>8, <1>9, <1>10, PathSteps

(* Every variable of the path keeps its type; the count of heap objects in  *)
(* particular never falls below none.                                      *)
THEOREM RecordTypes == RecordSpec => []RecordTypeOK
<1>1. RecordInv /\ TypesInv => RecordTypeOK
  <2> SUFFICES ASSUME RecordInv, TypesInv PROVE RecordTypeOK
    OBVIOUS
  <2>1. copies \in Nat
    BY DEF RecordInv, PathTypes, TypesInv, AtHand
  <2>2. Len(Chain) = 9
    BY DEF Chain
  <2> QED BY <2>1, <2>2 DEF RecordInv, PathTypes, TypesInv, RecordTypeOK
<1> QED BY <1>1, PathStarts, RecordKeeps, TypesStart, TypesKeep, PTL DEF RecordSpec

------------------------------------------------------------------------------
(* The units on the stream and those that are left to write are the last   *)
(* of all the units there are; while reads have returned whole payloads,   *)
(* they start with a payload.                                              *)
ReadSoFar == (3 * Len(sent) - Len(out)) - Len(stream)
StreamInv ==
  /\ handlerPc # "write" => out = <<>>
  /\ ReadSoFar \in Nat
  /\ \A n \in 1 .. Len(stream) : stream[n] = ReadSoFar + n
  /\ \A n \in 1 .. Len(out) : out[n] = ReadSoFar + Len(stream) + n
  /\ whole => ReadSoFar % 3 = 0

LEMMA StreamSends ==
  ASSUME RecordInv, StreamInv, SendRecord
  PROVE  StreamInv'
<1>1. /\ handlerPc = "drain" /\ handlerPc' = "write" /\ UNCHANGED <<stream, whole>>
      /\ Len(sent') = Len(sent) + 1 /\ out' = UnitsOf(Len(sent) + 1) /\ out = <<>>
  BY SendStep DEF SendRecord, HandlerStep, clientVars, StreamInv
<1>2. Len(sent) \in Nat /\ Len(stream) \in Nat /\ Len(out) = 0
  BY <1>1 DEF RecordInv, PathTypes
<1>3. Len(out') = 3 /\ \A n \in 1 .. 3 : out'[n] = 3 * Len(sent) + n
  <2> DEFINE m == Len(sent)
  <2> HIDE DEF m
  <2>1. m \in Nat /\ out' = [i \in 1 .. 3 |-> 3 * ((m + 1) - 1) + i]
    BY <1>1, <1>2 DEF UnitsOf, Units, m
  <2>2. out' = [i \in 1 .. 3 |-> 3 * m + i]
    BY <2>1
  <2> QED BY <2>1, <2>2 DEF m
<1>4. ReadSoFar' = ReadSoFar /\ ReadSoFar + Len(stream) = 3 * Len(sent)
  <2>1. Len(stream') = Len(stream) /\ Len(out') = 3 /\ Len(sent') = Len(sent) + 1
    BY <1>1, <1>3
  <2>2. ReadSoFar' = (3 * Len(sent') - Len(out')) - Len(stream')
    BY DEF ReadSoFar
  <2>3. ReadSoFar = (3 * Len(sent) - Len(out)) - Len(stream)
    BY DEF ReadSoFar
  <2> QED BY <1>2, <2>1, <2>2, <2>3
<1> QED BY <1>1, <1>3, <1>4 DEF StreamInv

LEMMA StreamWrites ==
  ASSUME RecordInv, StreamInv, NEW k \in 1 .. Len(out), WriteUnits(k)
  PROVE  StreamInv'
<1> DEFINE base == ReadSoFar
<1>1. /\ handlerPc' = (IF k = Len(out) THEN "drain" ELSE "write")
      /\ UNCHANGED <<sent, whole>>
      /\ stream' = stream \o SubSeq(out, 1, k) /\ out' = SubSeq(out, k + 1, Len(out))
  BY DEF WriteUnits, HandlerStep, clientVars
<1>2. stream \in Seq(Nat) /\ out \in Seq(Nat) /\ Len(sent) \in Nat
  BY DEF RecordInv, PathTypes
<1>3. /\ out' \in Seq(Nat) /\ Len(out') = Len(out) - k
      /\ \A n \in 1 .. Len(out) - k : out'[n] = out[n + k]
      /\ Len(stream') = Len(stream) + k
      /\ \A n \in 1 .. Len(stream) : stream'[n] = stream[n]
      /\ \A n \in 1 .. k : stream'[Len(stream) + n] = out[n]
  <2> DEFINE rest == SubSeq(out, k + 1, Len(out))
             longer == stream \o SubSeq(out, 1, k)
  <2>1. /\ rest \in Seq(Nat) /\ Len(rest) = Len(out) - k
        /\ \A n \in 1 .. Len(out) - k : rest[n] = out[n + k]
        /\ Len(longer) = Len(stream) + k
        /\ \A n \in 1 .. Len(stream) : longer[n] = stream[n]
        /\ \A n \in 1 .. k : longer[Len(stream) + n] = out[n]
    BY <1>2, Moved
  <2>2. stream' = longer /\ out' = rest
    BY <1>1
  <2> HIDE DEF rest, longer
  <2> QED BY <2>1, <2>2
<1>4. Len(stream) \in Nat /\ Len(out) \in Nat
  BY <1>2
<1>5. ReadSoFar' = base /\ base \in Nat
  <2>1. Len(sent') = Len(sent) /\ Len(stream') = Len(stream) + k /\ Len(out') = Len(out) - k
    BY <1>1, <1>3
  <2>2. ReadSoFar' = (3 * Len(sent') - Len(out')) - Len(stream')
    BY DEF ReadSoFar
  <2>3. ReadSoFar = (3 * Len(sent) - Len(out)) - Len(stream) /\ ReadSoFar \in Nat
    BY DEF ReadSoFar, StreamInv
  <2>4. k \in Nat
    BY <1>1, <1>4
  <2> QED BY <1>2, <1>4, <2>1, <2>2, <2>3, <2>4
<1>6. /\ \A n \in 1 .. Len(stream) : stream[n] = base + n
      /\ \A n \in 1 .. Len(out) : out[n] = base + Len(stream) + n
  BY DEF StreamInv
<1> HIDE DEF base
<1>7. \A n \in 1 .. Len(stream') : stream'[n] = base + n
  <2> SUFFICES ASSUME NEW n \in 1 .. Len(stream') PROVE stream'[n] = base + n
    OBVIOUS
  <2>1. CASE n <= Len(stream)
    BY <1>3, <1>4, <1>6, <2>1
  <2>2. CASE n > Len(stream)
    <3> DEFINE m == n - Len(stream)
    <3>1. m \in 1 .. k /\ n = Len(stream) + m /\ m \in 1 .. Len(out)
      BY <1>3, <1>4, <2>2
    <3> HIDE DEF m
    <3>2. stream'[n] = out[m] /\ out[m] = base + Len(stream) + m
      BY <3>1, <1>3, <1>6
    <3> QED BY <3>1, <3>2, <1>4, <1>5
  <2> QED BY <1>4, <2>1, <2>2
<1>8. \A n \in 1 .. Len(out') : out'[n] = base + Len(stream') + n
  <2> SUFFICES ASSUME NEW n \in 1 .. Len(out') PROVE out'[n] = base + Len(stream') + n
    OBVIOUS
  <2>1. n + k \in 1 .. Len(out) /\ out'[n] = out[n + k]
    BY <1>3, <1>4
  <2> QED BY <2>1, <1>3, <1>4, <1>5, <1>6
<1>9. handlerPc' # "write" => out' = <<>>
  BY <1>1, <1>3
<1> QED BY <1>1, <1>5, <1>7, <1>8, <1>9 DEF StreamInv, base

LEMMA StreamReads ==
  ASSUME RecordInv, StreamInv, NEW k \in 1 .. Units, ReadResponse(k)
  PROVE  StreamInv'
<1> DEFINE base == ReadSoFar
<1>1. /\ UNCHANGED <<handlerPc, sent, out>> /\ k \in 1 .. Len(stream)
      /\ stream' = SubSeq(stream, k + 1, Len(stream)) /\ (whole' => whole /\ k = 3)
  BY ResponseStep DEF ReadResponse, Units, handlerVars, streamVars
<1>2. stream \in Seq(Nat) /\ out \in Seq(Nat) /\ Len(sent) \in Nat
  BY DEF RecordInv, PathTypes
<1>3. /\ Len(stream') = Len(stream) - k
      /\ \A n \in 1 .. Len(stream) - k : stream'[n] = stream[n + k]
  BY <1>1, <1>2, Moved
<1>4. Len(stream) \in Nat /\ Len(out) \in Nat
  BY <1>2
<1>5. base \in Nat /\ ReadSoFar' = base + k
  <2>1. Len(sent') = Len(sent) /\ Len(stream') = Len(stream) - k /\ Len(out') = Len(out)
    BY <1>1, <1>3
  <2>2. ReadSoFar' = (3 * Len(sent') - Len(out')) - Len(stream')
    BY DEF ReadSoFar
  <2>3. ReadSoFar = (3 * Len(sent) - Len(out)) - Len(stream) /\ ReadSoFar \in Nat
    BY DEF ReadSoFar, StreamInv
  <2>4. k \in Nat
    BY <1>1, <1>4
  <2> QED BY <1>2, <1>4, <2>1, <2>2, <2>3, <2>4
<1>6. /\ \A n \in 1 .. Len(stream) : stream[n] = base + n
      /\ \A n \in 1 .. Len(out) : out[n] = base + Len(stream) + n
      /\ whole => base % 3 = 0
      /\ handlerPc # "write" => out = <<>>
  BY DEF StreamInv
<1> HIDE DEF base
<1>7. \A n \in 1 .. Len(stream') : stream'[n] = (base + k) + n
  BY <1>1, <1>3, <1>4, <1>5, <1>6
<1>8. \A n \in 1 .. Len(out') : out'[n] = (base + k) + Len(stream') + n
  <2> SUFFICES ASSUME NEW n \in 1 .. Len(out) PROVE out[n] = (base + k) + Len(stream') + n
    BY <1>1
  <2>1. out[n] = base + Len(stream) + n /\ Len(stream') = Len(stream) - k
    BY <1>3, <1>6
  <2> QED BY <2>1, <1>1, <1>4, <1>5
<1>9. whole' => (base + k) % 3 = 0
  BY <1>1, <1>5, <1>6
<1>10. base + k \in Nat /\ (handlerPc' # "write" => out' = <<>>)
  BY <1>1, <1>5, <1>6
<1> QED BY <1>5, <1>7, <1>8, <1>9, <1>10 DEF StreamInv

LEMMA StreamKeeps ==
  ASSUME RecordInv, StreamInv, [RecordNext]_recordVars
  PROVE  StreamInv'
<1>1. CASE UNCHANGED recordVars
  BY <1>1 DEF recordVars, handlerVars, streamVars, clientVars, StreamInv, ReadSoFar
<1>2. CASE KernelStep
  BY <1>2, KernelReports DEF RecordInv, StreamInv, ReadSoFar, handlerVars, streamVars, clientVars
<1>3. CASE Idle
  BY <1>3, IdleStep DEF StreamInv, ReadSoFar, streamVars, clientVars
<1>4. CASE BeginRecord \/ CallModifier \/ CallCalcCrc \/ Dedup
  <2>1. UNCHANGED <<out, sent, stream, whole>> /\ handlerPc # "write"
    BY <1>4 DEF BeginRecord, NextEvent, CallModifier, CallCalcCrc, Dedup, HandlerStep,
                streamVars, clientVars
  <2> QED BY <2>1 DEF StreamInv, ReadSoFar
<1> QED BY <1>1, <1>2, <1>3, <1>4, PathSteps, StreamSends, StreamWrites, StreamReads

LEMMA StreamStarts ==
  ASSUME RecordInit
  PROVE  StreamInv
<1>1. Len(sent) = 0 /\ Len(out) = 0 /\ Len(stream) = 0 /\ out = <<>>
  BY DEF RecordInit
<1> QED BY <1>1 DEF StreamInv, ReadSoFar

(* However many bytes each write takes, the bytes of the payloads follow   *)
(* each other: for any number of records.                                  *)
THEOREM StreamStaysWhole == RecordSpec => []StreamIsWhole
<1>1. RecordInv /\ StreamInv => StreamIsWhole
  <2> SUFFICES ASSUME RecordInv, StreamInv PROVE StreamIsWhole
    OBVIOUS
  <2> DEFINE units == stream \o out
  <2>1. stream \in Seq(Nat) /\ out \in Seq(Nat) /\ Len(sent) \in Nat
        /\ Len(stream) \in Nat /\ Len(out) \in Nat
    BY DEF RecordInv, PathTypes
  <2>2. /\ Len(units) = Len(stream) + Len(out)
        /\ \A n \in 1 .. Len(stream) : units[n] = stream[n]
        /\ \A n \in 1 .. Len(out) : units[Len(stream) + n] = out[n]
    BY <2>1, ElementsOfConcat
  <2>3. ASSUME NEW n \in 1 .. Len(units)
        PROVE  units[n] = ReadSoFar + n
    <3> HIDE DEF units
    <3>1. CASE n <= Len(stream)
      BY <2>1, <2>2, <3>1 DEF StreamInv
    <3>2. CASE n > Len(stream)
      <4> DEFINE m == n - Len(stream)
      <4>1. m \in 1 .. Len(out) /\ n = Len(stream) + m
        BY <2>1, <2>2, <3>2
      <4> HIDE DEF m
      <4>2. units[n] = ReadSoFar + Len(stream) + m
        BY <4>1, <2>2 DEF StreamInv
      <4> QED BY <4>1, <4>2, <2>1 DEF StreamInv
    <3> QED BY <2>1, <3>1, <3>2
  <2>4. ReadSoFar + Len(units) = 3 * Len(sent) /\ ReadSoFar \in Nat
    BY <2>1, <2>2 DEF ReadSoFar, StreamInv
  <2>5. units # <<>> => Len(units) \in 1 .. Len(units)
    BY <2>1, ElementsOfConcat
  <2> HIDE DEF units
  <2>6. \A n \in 1 .. Len(units) - 1 : units[n + 1] = units[n] + 1
    BY <2>1, <2>2, <2>3, <2>4
  <2>7. units # <<>> => units[Len(units)] = Units * Len(sent)
    BY <2>3, <2>4, <2>5 DEF Units
  <2> QED BY <2>6, <2>7 DEF StreamIsWhole, units
<1> QED BY <1>1, PathStarts, RecordKeeps, StreamStarts, StreamKeeps, PTL DEF RecordSpec

------------------------------------------------------------------------------
(* The records that are or were queued.                                    *)
Kept == {sent[m] : m \in 1 .. Len(sent)} \cup {gq[m] : m \in 1 .. Len(gq)}

LEMMA KeptSends ==
  ASSUME RecordInv, SendRecord
  PROVE  Kept' = Kept
<1>1. gq # <<>> /\ gq' = Tail(gq) /\ sent' = Append(sent, Head(gq))
  BY DEF SendRecord
<1>2. gq \in Seq(Records) /\ sent \in Seq(Records)
  BY DEF RecordInv, PathTypes
<1>3. /\ Len(gq') = Len(gq) - 1 /\ \A m \in 1 .. Len(gq') : gq'[m] = gq[m + 1]
      /\ Len(gq) \in Nat /\ Len(gq) >= 1 /\ Head(gq) = gq[1] /\ Head(gq) \in Records
  BY <1>1, <1>2
<1>4. /\ Len(sent') = Len(sent) + 1 /\ Len(sent) \in Nat
      /\ \A m \in 1 .. Len(sent) : sent'[m] = sent[m]
      /\ sent'[Len(sent) + 1] = gq[1]
  BY <1>1, <1>2, <1>3
<1>5. ASSUME NEW r \in Kept PROVE r \in Kept'
  <2>1. CASE \E m \in 1 .. Len(sent) : r = sent[m]
    <3>1. PICK m \in 1 .. Len(sent) : r = sent[m] BY <2>1
    <3>2. m \in 1 .. Len(sent') /\ r = sent'[m] BY <1>4, <3>1
    <3> QED BY <3>2 DEF Kept
  <2>2. CASE r = gq[1]
    <3>1. Len(sent) + 1 \in 1 .. Len(sent') /\ r = sent'[Len(sent) + 1] BY <1>4, <2>2
    <3> QED BY <3>1 DEF Kept
  <2>3. CASE \E m \in 2 .. Len(gq) : r = gq[m]
    <3>1. PICK m \in 2 .. Len(gq) : r = gq[m] BY <2>3
    <3>2. m - 1 \in 1 .. Len(gq') /\ r = gq'[m - 1] BY <1>3, <3>1
    <3> QED BY <3>2 DEF Kept
  <2>4. \A m \in 1 .. Len(gq) : m = 1 \/ m \in 2 .. Len(gq)
    BY <1>3
  <2> QED BY <1>5, <2>1, <2>2, <2>3, <2>4 DEF Kept
<1>6. ASSUME NEW r \in Kept' PROVE r \in Kept
  <2>1. CASE \E m \in 1 .. Len(sent') : r = sent'[m]
    <3>1. PICK m \in 1 .. Len(sent') : r = sent'[m] BY <2>1
    <3>2. (m \in 1 .. Len(sent) /\ r = sent[m]) \/ (1 \in 1 .. Len(gq) /\ r = gq[1])
      BY <1>3, <1>4, <3>1
    <3> QED BY <3>2 DEF Kept
  <2>2. CASE \E m \in 1 .. Len(gq') : r = gq'[m]
    <3>1. PICK m \in 1 .. Len(gq') : r = gq'[m] BY <2>2
    <3>2. m + 1 \in 1 .. Len(gq) /\ r = gq[m + 1] BY <1>3, <3>1
    <3> QED BY <3>2 DEF Kept
  <2> QED BY <1>6, <2>1, <2>2 DEF Kept
<1> QED BY <1>5, <1>6

LEMMA KeptGrows ==
  ASSUME RecordInv, NEW r \in Records, gq' = Append(gq, r), sent' = sent
  PROVE  Kept' = Kept \cup {r}
<1>1. /\ Len(gq') = Len(gq) + 1 /\ Len(gq) \in Nat
      /\ \A m \in 1 .. Len(gq) : gq'[m] = gq[m]
      /\ gq'[Len(gq) + 1] = r
  BY DEF RecordInv, PathTypes
<1>2. {gq'[m] : m \in 1 .. Len(gq')} = {gq[m] : m \in 1 .. Len(gq)} \cup {r}
  <2>1. ASSUME NEW m \in 1 .. Len(gq') PROVE gq'[m] \in {gq[i] : i \in 1 .. Len(gq)} \cup {r}
    <3>1. m \in 1 .. Len(gq) \/ m = Len(gq) + 1 BY <1>1
    <3> QED BY <3>1, <1>1
  <2>2. ASSUME NEW m \in 1 .. Len(gq) PROVE gq[m] \in {gq'[i] : i \in 1 .. Len(gq')}
    <3>1. m \in 1 .. Len(gq') /\ gq'[m] = gq[m] BY <1>1
    <3> QED BY <3>1
  <2>3. r \in {gq'[i] : i \in 1 .. Len(gq')}
    <3>1. Len(gq) + 1 \in 1 .. Len(gq') BY <1>1
    <3> QED BY <3>1, <1>1
  <2> QED BY <2>1, <2>2, <2>3
<1> QED BY <1>2 DEF Kept

(* What the queue has had and has been told of: each record is of an event *)
(* that was handled, and each crc in the dedup map that of a record.       *)
KeptInv ==
  /\ \A r \in Kept : \E n \in 1 .. Len(handled) : r = RecordOf(handled[n])
  /\ \A crc \in gdm : \E r \in Kept : r.crc = crc

LEMMA HandledGrows ==
  ASSUME RecordInv, Dedup
  PROVE  /\ event \in Events /\ Len(handled') = Len(handled) + 1 /\ Len(handled) \in Nat
         /\ \A n \in 1 .. Len(handled) : handled'[n] = handled[n]
         /\ handled'[Len(handled) + 1] = event
         /\ built' = Append(built, RecordOf(event)) /\ RecordOf(event) \in Records
         /\ \/ RecordOf(event).crc \in gdm /\ gdm' = gdm /\ Kept' = Kept
            \/ gdm' = gdm \cup {RecordOf(event).crc} /\ Kept' = Kept \cup {RecordOf(event)}
<1>1. /\ event \in Events /\ builder.wrapped = RecordOf(event)
      /\ handled' = Append(handled, event) /\ built' = Append(built, builder.wrapped)
      /\ sent' = sent
      /\ IF GetCrc \in gdm THEN UNCHANGED <<gdm, gq, copies>>
                           ELSE gdm' = gdm \cup {GetCrc} /\ gq' = Append(gq, GetSerdes)
  BY DEF Dedup, HandlerStep, streamVars, RecordInv, PathTypes, BuilderInv, GetSerdes
<1>2. GetCrc = RecordOf(event).crc /\ GetSerdes = RecordOf(event)
  BY <1>1 DEF GetCrc, GetSerdes
<1>3. RecordOf(event) \in Records
  BY <1>1 DEF Records
<1>4. /\ Len(handled') = Len(handled) + 1 /\ Len(handled) \in Nat
      /\ \A n \in 1 .. Len(handled) : handled'[n] = handled[n]
      /\ handled'[Len(handled) + 1] = event
  BY <1>1 DEF RecordInv, PathTypes
<1>5. CASE GetCrc \in gdm
  BY <1>1, <1>2, <1>3, <1>4, <1>5 DEF Kept
<1>6. CASE GetCrc \notin gdm
  <2>1. gq' = Append(gq, RecordOf(event)) /\ gdm' = gdm \cup {RecordOf(event).crc}
    BY <1>1, <1>2, <1>6
  <2>2. Kept' = Kept \cup {RecordOf(event)}
    BY <2>1, <1>1, <1>3, KeptGrows
  <2> QED BY <2>1, <2>2, <1>1, <1>3, <1>4
<1> QED BY <1>5, <1>6

(* Steps that leave the queue and the events handled alone.                *)
LEMMA KeptStays ==
  ASSUME RecordInv, [RecordNext]_recordVars, ~Dedup
  PROVE  Kept' = Kept /\ UNCHANGED <<gdm, handled, built>>
<1>1. CASE UNCHANGED recordVars
  BY <1>1 DEF recordVars, handlerVars, streamVars, Kept
<1>2. CASE KernelStep
  BY <1>2, KernelReports DEF RecordInv, handlerVars, streamVars, Kept
<1>3. CASE Idle
  BY <1>3, IdleStep DEF streamVars, Kept
<1>4. CASE BeginRecord \/ CallModifier \/ CallCalcCrc
  <2>1. UNCHANGED <<gdm, handled, built, gq, sent>>
    BY <1>4 DEF BeginRecord, NextEvent, CallModifier, CallCalcCrc, streamVars
  <2> QED BY <2>1 DEF Kept
<1>5. CASE SendRecord
  BY <1>5, KeptSends DEF SendRecord
<1>6. ASSUME NEW k, WriteUnits(k)
      PROVE  Kept' = Kept /\ UNCHANGED <<gdm, handled, built>>
  BY <1>6 DEF WriteUnits, Kept
<1>7. ASSUME NEW k, ReadResponse(k)
      PROVE  Kept' = Kept /\ UNCHANGED <<gdm, handled, built>>
  BY <1>7 DEF ReadResponse, handlerVars, streamVars, Kept
<1> QED BY <1>1, <1>2, <1>3, <1>4, <1>5, <1>6, <1>7, PathSteps

LEMMA KeptKeeps ==
  ASSUME RecordInv, KeptInv, [RecordNext]_recordVars
  PROVE  KeptInv'
<1>1. CASE ~Dedup
  BY <1>1, KeptStays DEF KeptInv
<1>2. CASE Dedup
  <2>1. Kept' \subseteq Kept \cup {RecordOf(event)} /\ Kept \subseteq Kept'
    BY <1>2, HandledGrows
  <2>2. ASSUME NEW r \in Kept' PROVE \E n \in 1 .. Len(handled') : r = RecordOf(handled'[n])
    <3>1. CASE r \in Kept
      <4>1. PICK n \in 1 .. Len(handled) : r = RecordOf(handled[n]) BY <3>1 DEF KeptInv
      <4>2. n \in 1 .. Len(handled') /\ handled'[n] = handled[n] BY <1>2, HandledGrows
      <4> QED BY <4>1, <4>2
    <3>2. CASE r = RecordOf(event)
      <4>1. Len(handled) + 1 \in 1 .. Len(handled') /\ handled'[Len(handled) + 1] = event
        BY <1>2, HandledGrows
      <4> QED BY <4>1, <3>2
    <3> QED BY <2>1, <3>1, <3>2
  <2>3. \A crc \in gdm' : \E r \in Kept' : r.crc = crc
    BY <1>2, HandledGrows DEF KeptInv
  <2> QED BY <2>2, <2>3 DEF KeptInv
<1> QED BY <1>1, <1>2

LEMMA KeptStarts ==
  ASSUME RecordInit
  PROVE  KeptInv
<1>1. Kept = {} /\ gdm = {}
  <2>1. Len(sent) = 0 /\ Len(gq) = 0 /\ gdm = {}
    BY DEF RecordInit
  <2> QED BY <2>1 DEF Kept
<1> QED BY <1>1 DEF KeptInv

------------------------------------------------------------------------------
(* While whole payloads are read, every line is that of an event handled.  *)
Lines == {CsvLine(r) : r \in Records}
LinesInv ==
  whole => /\ csv \in Seq(Lines)
           /\ \A n \in 1 .. Len(csv) :
                \E m \in 1 .. Len(handled) : csv[n] = CsvLine(RecordOf(handled[m]))

(* A whole payload that is read is one record that was sent.               *)
LEMMA WholePayload ==
  ASSUME RecordInv, StreamInv, whole, 3 <= Len(stream)
  PROVE  \E m \in 1 .. Len(sent) : LineOf(Buffer(3)) = CsvLine(sent[m])
<1>1. Len(sent) \in Nat /\ Len(stream) \in Nat /\ Len(out) \in Nat
  BY DEF RecordInv, PathTypes
<1>2. /\ ReadSoFar \in Nat /\ ReadSoFar % 3 = 0
      /\ ReadSoFar = (3 * Len(sent) - Len(out)) - Len(stream)
      /\ stream[1] = ReadSoFar + 1 /\ stream[2] = ReadSoFar + 2
  <2>1. 1 \in 1 .. Len(stream) /\ 2 \in 1 .. Len(stream)
    BY <1>1
  <2> QED BY <2>1 DEF StreamInv, ReadSoFar
<1> DEFINE u == stream[1]
<1>3. Buffer(3)[1] = u /\ Buffer(3)[2] = stream[2]
  BY DEF Buffer, Units
<1>4. /\ u \in Nat /\ u > 0 /\ u % 3 = 1 /\ stream[2] = u + 1
      /\ (u - 1) \div 3 + 1 \in 1 .. Len(sent)
  <2> DEFINE b == ReadSoFar
  <2>1. b \in Nat /\ b % 3 = 0 /\ b + 3 <= 3 * Len(sent) /\ u = b + 1 /\ stream[2] = b + 2
    BY <1>1, <1>2
  <2> HIDE DEF b, u
  <2> QED BY <1>1, <2>1
<1>5. IsCrcUnit(u)
  BY <1>4 DEF IsCrcUnit, Units
<1>6. IsRecord(Buffer(3))
  <2> HIDE DEF u
  <2> QED BY <1>3, <1>4, <1>5 DEF IsRecord
<1>7. Payload(u) = (u - 1) \div 3 + 1
  BY DEF Payload, Units
<1>8. LineOf(Buffer(3)) = CsvLine(sent[Payload(u)])
  BY <1>3, <1>6 DEF LineOf
<1> QED BY <1>4, <1>7, <1>8

LEMMA LinesKeep ==
  ASSUME RecordInv, StreamInv, KeptInv, LinesInv, [RecordNext]_recordVars
  PROVE  LinesInv'
<1>1. CASE UNCHANGED <<csv, whole>> /\ ~Dedup
  BY <1>1, KeptStays DEF LinesInv
<1>2. CASE Dedup
  <2>1. UNCHANGED <<csv, whole>>
    BY <1>2 DEF Dedup, HandlerStep, clientVars
  <2>2. \A m \in 1 .. Len(handled) : m \in 1 .. Len(handled') /\ handled'[m] = handled[m]
    BY <1>2, HandledGrows
  <2> QED BY <2>1, <2>2 DEF LinesInv
<1>3. ASSUME NEW k \in 1 .. Units, ReadResponse(k)
      PROVE  LinesInv'
  <2> SUFFICES ASSUME whole' PROVE LinesInv'
    BY DEF LinesInv
  <2>1. whole /\ k = 3 /\ 3 <= Len(stream) /\ handled' = handled
    BY <1>3 DEF ReadResponse, Units, handlerVars
  <2>2. csv' = csv \/ csv' = Append(csv, LineOf(Buffer(3)))
    BY <1>3, <2>1 DEF ReadResponse
  <2>3. PICK m \in 1 .. Len(sent) : LineOf(Buffer(3)) = CsvLine(sent[m])
    BY <2>1, WholePayload
  <2>4. sent[m] \in Records /\ sent[m] \in Kept
    BY DEF RecordInv, PathTypes, Kept
  <2>5. PICK i \in 1 .. Len(handled) : sent[m] = RecordOf(handled[i])
    BY <2>4 DEF KeptInv
  <2> DEFINE line == LineOf(Buffer(3))
  <2>6. line \in Lines /\ line = CsvLine(RecordOf(handled[i]))
    BY <2>3, <2>4, <2>5 DEF Lines
  <2>7. /\ csv \in Seq(Lines)
        /\ \A n \in 1 .. Len(csv) :
             \E j \in 1 .. Len(handled) : csv[n] = CsvLine(RecordOf(handled[j]))
    BY <2>1 DEF LinesInv
  <2> HIDE DEF line
  <2>8. CASE csv' = csv
    BY <2>1, <2>7, <2>8 DEF LinesInv
  <2>9. CASE csv' = Append(csv, line)
    <3>1. /\ csv' \in Seq(Lines) /\ Len(csv') = Len(csv) + 1 /\ Len(csv) \in Nat
          /\ \A n \in 1 .. Len(csv) : csv'[n] = csv[n]
          /\ csv'[Len(csv) + 1] = line
      BY <2>6, <2>7, <2>9
    <3>2. \A n \in 1 .. Len(csv') : n \in 1 .. Len(csv) \/ n = Len(csv) + 1
      BY <3>1
    <3>3. \A n \in 1 .. Len(csv') :
             \E j \in 1 .. Len(handled) : csv'[n] = CsvLine(RecordOf(handled[j]))
      BY <2>6, <2>7, <3>1, <3>2
    <3> QED BY <2>1, <3>1, <3>3 DEF LinesInv
  <2> QED BY <2>2, <2>8, <2>9 DEF line
<1>4. UNCHANGED <<csv, whole>> \/ \E k \in 1 .. Units : ReadResponse(k)
  <2>1. CASE UNCHANGED recordVars
    BY <2>1 DEF recordVars, clientVars
  <2>2. CASE KernelStep
    BY <2>2, KernelReports DEF RecordInv, clientVars
  <2>3. CASE Idle
    BY <2>3, IdleStep DEF clientVars
  <2>4. CASE BeginRecord \/ CallModifier \/ CallCalcCrc \/ Dedup \/ SendRecord
    BY <2>4 DEF BeginRecord, NextEvent, CallModifier, CallCalcCrc, Dedup, SendRecord,
                HandlerStep, clientVars
  <2>5. ASSUME NEW k, WriteUnits(k) PROVE UNCHANGED <<csv, whole>>
    BY <2>5 DEF WriteUnits, HandlerStep, clientVars
  <2> QED BY <2>1, <2>2, <2>3, <2>4, <2>5, PathSteps
<1> QED BY <1>1, <1>2, <1>3, <1>4

PathInv == RecordInv /\ StreamInv /\ KeptInv /\ LinesInv

LEMMA LinesStart ==
  ASSUME RecordInit
  PROVE  LinesInv
BY DEF RecordInit, LinesInv

(* While reads return whole payloads, no line of the csv file is made up,  *)
(* and none mixes two events: for any number of records, whatever the      *)
(* kernel reports and in however many pieces the writes go out.            *)
THEOREM EveryLineTells == RecordSpec => []LinesTellEvents
<1>1. RecordInit => PathInv
  BY PathStarts, StreamStarts, KeptStarts, LinesStart DEF PathInv
<1>2. PathInv /\ [RecordNext]_recordVars => PathInv'
  BY RecordKeeps, StreamKeeps, KeptKeeps, LinesKeep DEF PathInv
<1>3. PathInv => LinesTellEvents
  <2> SUFFICES ASSUME PathInv, whole, NEW n \in DOMAIN csv
               PROVE  /\ csv[n] # Garbled
                      /\ \E m \in DOMAIN handled : TellsEvent(csv[n], handled[m].extra)
    BY DEF LinesTellEvents
  <2>1. handled \in Seq(Events) /\ csv \in Seq(Lines)
    BY DEF PathInv, RecordInv, PathTypes, LinesInv
  <2>2. PICK m \in 1 .. Len(handled) : csv[n] = CsvLine(RecordOf(handled[m]))
    BY <2>1 DEF PathInv, LinesInv
  <2>3. m \in DOMAIN handled
    BY <2>1
  <2> QED BY <2>2, <2>3, LineTells
<1> QED BY <1>1, <1>2, <1>3, PTL DEF RecordSpec

------------------------------------------------------------------------------
(* crc32 tells the chunks of the records there can be apart.               *)
NoCollision ==
  \A e, f \in Events :
    CalcCrc(Complete(e)) = CalcCrc(Complete(f)) => Chunks(Complete(e)) = Chunks(Complete(f))

DroppedInv == \A n \in 1 .. Len(built) : \E r \in Kept : Same(r, built[n])

LEMMA DroppedKeeps ==
  ASSUME NoCollision, RecordInv, KeptInv, DroppedInv, [RecordNext]_recordVars
  PROVE  DroppedInv'
<1>1. CASE ~Dedup
  BY <1>1, KeptStays DEF DroppedInv
<1>2. CASE Dedup
  <2>1. /\ event \in Events /\ Kept \subseteq Kept'
        /\ Len(built') = Len(built) + 1 /\ Len(built) \in Nat
        /\ \A n \in 1 .. Len(built) : built'[n] = built[n]
        /\ built'[Len(built) + 1] = RecordOf(event)
    <3>1. built \in Seq(Records)
      BY DEF RecordInv, PathTypes
    <3>2. event \in Events /\ Kept \subseteq Kept' /\ built' = Append(built, RecordOf(event))
      BY <1>2, HandledGrows
    <3> QED BY <3>1, <3>2
  <2>2. \E r \in Kept' : Same(r, RecordOf(event))
    <3>1. CASE RecordOf(event).crc \in gdm
      <4>1. PICK r \in Kept : r.crc = RecordOf(event).crc
        BY <3>1 DEF KeptInv
      <4>2. PICK n \in 1 .. Len(handled) : r = RecordOf(handled[n])
        BY <4>1 DEF KeptInv
      <4> DEFINE f == handled[n]
      <4>3. f \in Events
        BY DEF RecordInv, PathTypes
      <4> HIDE DEF f
      <4>4. CalcCrc(Complete(f)) = CalcCrc(Complete(event))
        BY <4>1, <4>2, WrappedFields DEF f
      <4>5. Same(Complete(f), Complete(event))
        BY <2>1, <4>3, <4>4, ChecksumCoversRecord DEF NoCollision
      <4>6. Same(r, RecordOf(event))
        BY <4>2, <4>5, WrappedFields DEF Same, f
      <4> QED BY <4>6, <2>1
    <3>2. CASE RecordOf(event) \in Kept'
      <4>1. Same(RecordOf(event), RecordOf(event))
        BY DEF Same
      <4> QED BY <4>1, <3>2
    <3> QED BY <1>2, <3>1, <3>2, HandledGrows
  <2>3. ASSUME NEW n \in 1 .. Len(built') PROVE \E r \in Kept' : Same(r, built'[n])
    <3>1. CASE n \in 1 .. Len(built)
      BY <2>1, <3>1 DEF DroppedInv
    <3>2. CASE n = Len(built) + 1
      BY <2>1, <2>2, <3>2
    <3> QED BY <2>1, <3>1, <3>2
  <2> QED BY <2>3 DEF DroppedInv
<1> QED BY <1>1, <1>2

(* As long as crc32 makes no collision among the records there can be, a   *)
(* record that is dropped as seen repeats, field for field, one that was   *)
(* queued: the chunks that are left out of the checksum hide nothing.      *)
THEOREM DropsOnlyCopies == ASSUME NoCollision PROVE RecordSpec => []OnlyCopiesDropped
<1> DEFINE Inv == RecordInv /\ KeptInv /\ DroppedInv
<1>1. RecordInit => Inv
  <2>1. RecordInit => DroppedInv
    BY DEF RecordInit, DroppedInv
  <2> QED BY <2>1, PathStarts, KeptStarts
<1>2. Inv /\ [RecordNext]_recordVars => Inv'
  BY NoCollision, RecordKeeps, KeptKeeps, DroppedKeeps
<1>3. Inv => OnlyCopiesDropped
  <2> SUFFICES ASSUME Inv, NEW n \in DOMAIN built
               PROVE  \E m \in DOMAIN Queued : Same(Queued[m], built[n])
    BY DEF OnlyCopiesDropped
  <2>1. sent \in Seq(Records) /\ gq \in Seq(Records) /\ n \in 1 .. Len(built)
    BY DEF RecordInv, PathTypes
  <2>2. PICK r \in Kept : Same(r, built[n])
    BY <2>1 DEF DroppedInv
  <2>3. /\ Queued \in Seq(Records) /\ Len(Queued) = Len(sent) + Len(gq)
        /\ \A m \in 1 .. Len(sent) : Queued[m] = sent[m]
        /\ \A m \in 1 .. Len(gq) : Queued[Len(sent) + m] = gq[m]
    BY <2>1, ElementsOfConcat DEF Queued
  <2>4. \E m \in 1 .. Len(Queued) : Queued[m] = r
    <3>1. CASE \E m \in 1 .. Len(sent) : r = sent[m]
      <4>1. PICK m \in 1 .. Len(sent) : r = sent[m] BY <3>1
      <4>2. m \in 1 .. Len(Queued) /\ Queued[m] = r BY <2>1, <2>3, <4>1
      <4> QED BY <4>2
    <3>2. CASE \E m \in 1 .. Len(gq) : r = gq[m]
      <4>1. PICK m \in 1 .. Len(gq) : r = gq[m] BY <3>2
      <4>2. Len(sent) + m \in 1 .. Len(Queued) /\ Queued[Len(sent) + m] = r
        BY <2>1, <2>3, <4>1
      <4> QED BY <4>2
    <3> QED BY <3>1, <3>2 DEF Kept
  <2>5. DOMAIN Queued = 1 .. Len(Queued)
    BY <2>3
  <2> QED BY <2>2, <2>4, <2>5
<1> QED BY <1>1, <1>2, <1>3, PTL DEF RecordSpec

------------------------------------------------------------------------------
(* Steps that leave the records alone: none is built, noted or sent.       *)
LEMMA RecordsStay ==
  ASSUME RecordInv, [RecordNext]_recordVars, ~Dedup, ~SendRecord
  PROVE  UNCHANGED <<gdm, gq, built, sent>>
<1>1. CASE UNCHANGED recordVars
  BY <1>1 DEF recordVars, handlerVars, streamVars
<1>2. CASE KernelStep
  BY <1>2, KernelReports DEF RecordInv, handlerVars, streamVars
<1>3. CASE Idle
  BY <1>3, IdleStep DEF streamVars
<1>4. CASE BeginRecord \/ CallModifier \/ CallCalcCrc
  BY <1>4 DEF BeginRecord, NextEvent, CallModifier, CallCalcCrc, streamVars
<1>5. ASSUME NEW k, WriteUnits(k) \/ ReadResponse(k)
      PROVE  UNCHANGED <<gdm, gq, built, sent>>
  BY <1>5 DEF WriteUnits, ReadResponse, handlerVars, streamVars
<1> QED BY <1>1, <1>2, <1>3, <1>4, <1>5, PathSteps

(* The dedup map has the crc32 of every record that was built, and what    *)
(* was sent and is queued are the first records of each.                   *)
FirstsInv == gdm = Seen(built, CrcOf) /\ Lists(sent \o gq, built, CrcOf)

LEMMA CrcOfRecords ==
  ASSUME NEW r \in Records
  PROVE  DOMAIN CrcOf = Records /\ CrcOf[r] = r.crc
BY DEF CrcOf

LEMMA FirstsKeep ==
  ASSUME RecordInv, FirstsInv, [RecordNext]_recordVars
  PROVE  FirstsInv'
<1>1. /\ gq \in Seq(Records) /\ sent \in Seq(Records) /\ built \in Seq(Records)
      /\ sent \o gq \in Seq(Records) /\ DOMAIN CrcOf = Records
  BY DEF RecordInv, PathTypes, CrcOf
<1>2. CASE ~Dedup /\ ~SendRecord
  BY <1>2, RecordsStay DEF FirstsInv
<1>3. CASE SendRecord
  <2>1. /\ gq # <<>> /\ UNCHANGED <<gdm, built>>
        /\ gq' = Tail(gq) /\ sent' = Append(sent, Head(gq))
    BY <1>3 DEF SendRecord
  <2>2. Append(sent, Head(gq)) \o Tail(gq) = sent \o gq
    BY <1>1, <2>1
  <2> QED BY <2>1, <2>2 DEF FirstsInv
<1>4. CASE Dedup
  <2> DEFINE r == RecordOf(event)
  <2>1. r \in Records /\ built' = Append(built, r) /\ sent' = sent
    BY <1>4, HandledGrows DEF Dedup, streamVars
  <2>2. IF r.crc \in gdm THEN UNCHANGED <<gdm, gq>>
                         ELSE gdm' = gdm \cup {r.crc} /\ gq' = Append(gq, r)
    <3>1. builder.wrapped = r
      BY <1>4 DEF Dedup, HandlerStep, RecordInv, BuilderInv
    <3> HIDE DEF r
    <3> QED BY <1>4, <3>1 DEF Dedup, GetCrc, GetSerdes
  <2> HIDE DEF r
  <2>3. CrcOf[r] = r.crc
    BY <2>1, CrcOfRecords
  <2>4. Seen(built', CrcOf) = gdm \cup {CrcOf[r]}
    BY <1>1, <2>1, SeenAppend DEF FirstsInv
  <2>5. CASE CrcOf[r] \in gdm
    <3>1. Lists(sent \o gq, Append(built, r), CrcOf)
      BY <1>1, <2>1, <2>5, ListsOld DEF FirstsInv
    <3>2. UNCHANGED <<gdm, gq>>
      BY <2>2, <2>3, <2>5
    <3>3. gdm' = Seen(built', CrcOf)
      BY <2>4, <2>5, <3>2
    <3> QED BY <2>1, <3>1, <3>2, <3>3 DEF FirstsInv
  <2>6. CASE CrcOf[r] \notin gdm
    <3>1. gdm' = gdm \cup {CrcOf[r]} /\ gq' = Append(gq, r)
      BY <2>2, <2>3, <2>6
    <3>2. sent \o Append(gq, r) = Append(sent \o gq, r)
      BY <1>1, <2>1
    <3>3. Lists(Append(sent \o gq, r), Append(built, r), CrcOf)
      BY <1>1, <2>1, <2>6, ListsNew DEF FirstsInv
    <3>4. Lists(sent' \o gq', built', CrcOf)
      BY <2>1, <3>1, <3>2, <3>3
    <3> QED BY <2>4, <3>1, <3>4 DEF FirstsInv
  <2> QED BY <2>5, <2>6
<1> QED BY <1>2, <1>3, <1>4

(* DdtpDelivery counts as FiniteSets does.                                 *)
LEMMA DeliveryCardinality == \A S : Delivery!Cardinality(S) = Cardinality(S)
BY DEF Delivery!Cardinality, Cardinality, Delivery!IsFiniteSet, IsFiniteSet

LEMMA FirstsSent ==
  ASSUME RecordInv, FirstsInv, [RecordNext]_recordVars
  PROVE  [Delivery!DeliveryNext]_(Delivery!deliveryVars)
<1>1. /\ gq \in Seq(Records) /\ sent \in Seq(Records) /\ built \in Seq(Records)
      /\ DOMAIN CrcOf = Records
  BY DEF RecordInv, PathTypes, CrcOf
<1>2. CASE ~Dedup /\ ~SendRecord
  BY <1>2, RecordsStay DEF Delivery!deliveryVars
<1>3. CASE Dedup
  <2>1. /\ RecordOf(event) \in Records /\ built' = Append(built, RecordOf(event))
        /\ sent' = sent
    BY <1>3, HandledGrows DEF Dedup, streamVars
  <2> QED BY <2>1 DEF Delivery!DeliveryNext, Delivery!Report
<1>4. CASE SendRecord
  <2>1. gq # <<>> /\ built' = built /\ sent' = Append(sent, Head(gq))
    BY <1>4 DEF SendRecord
  <2>2. PICK n \in FirstIn(built, CrcOf) :
          /\ Cardinality({m \in FirstIn(built, CrcOf) : m <= n}) = Len(sent) + 1
          /\ built[n] = Head(gq)
    BY <1>1, <2>1, NextInRank DEF FirstsInv
  <2>3. Delivery!FirstReports = FirstIn(built, CrcOf)
    BY <1>1 DEF Delivery!FirstReports, FirstIn
  <2>4. Delivery!Rank(n) = Len(sent) + 1
    BY <2>2, <2>3, DeliveryCardinality DEF Delivery!Rank
  <2> QED BY <2>1, <2>2, <2>3, <2>4 DEF Delivery!DeliveryNext, Delivery!Deliver
<1> QED BY <1>2, <1>3, <1>4

(* Of the records that are built, the first of each crc32 is sent, in the  *)
(* order they were built in, and nothing else is: whatever the kernel      *)
(* reports and whatever crc32 computes, collisions included.               *)
THEOREM RecordPathDelivers == RecordSpec => ImplementsDelivery
<1>1. RecordInit => FirstsInv /\ Delivery!DeliveryInit
  <2> SUFFICES ASSUME RecordInit PROVE FirstsInv /\ Delivery!DeliveryInit
    OBVIOUS
  <2>1. gdm = {} /\ gq = <<>> /\ built = <<>> /\ sent = <<>>
    BY DEF RecordInit
  <2> QED BY <2>1, NothingTaken DEF FirstsInv, Delivery!DeliveryInit
<1>2. RecordInv /\ FirstsInv /\ [RecordNext]_recordVars => FirstsInv'
  BY FirstsKeep
<1>3. RecordInv /\ FirstsInv /\ [RecordNext]_recordVars
        => [Delivery!DeliveryNext]_(Delivery!deliveryVars)
  BY FirstsSent
<1> QED BY <1>1, <1>2, <1>3, PathStarts, RecordKeeps, PTL
        DEF RecordSpec, ImplementsDelivery, Delivery!DeliverySpec
=============================================================================
