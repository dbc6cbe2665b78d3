----------------------------- MODULE DdtpRecord -----------------------------
(***************************************************************************)
(* The record of a file access: what the patched kernel reports, how the   *)
(* server reads it, the typestate builder of dataproto.cpp that makes the  *)
(* record out of it, its checksum, and the csv line the client prints.     *)
(***************************************************************************)
EXTENDS ProtEnc, Integers, Sequences

CONSTANT Crc32(_)         \* zlib's crc32 over the chunks it is fed

------------------------------------------------------------------------------
(* struct inotify_event.  The kernel copies its structure out of the       *)
(* kernel, the server reads it with its own: both have eight fields of     *)
(* extra data of the same sizes, two of them in a different order.         *)

KernelLayout == <<"count", "pos", "pid", "sec", "usec",
                  "ra_misses", "ra_page_count", "last_cached_pos">>
UserLayout   == <<"count", "pos", "pid", "sec", "usec",
                  "ra_page_count", "ra_misses", "last_cached_pos">>

ExtraFields == {"count", "pos", "pid", "sec", "usec",
                "ra_page_count", "ra_misses", "last_cached_pos"}

CopyToUser(extra) == [n \in 1 .. 8 |-> extra[KernelLayout[n]]]
Event(extra) == [field \in ExtraFields |->
                   CopyToUser(extra)[CHOOSE n \in 1 .. 8 : UserLayout[n] = field]]

------------------------------------------------------------------------------
(* dataproto.h: the attributes of a record, the bits of a byte.            *)

SupportedAttrs == {"READAHEAD", "MULTISEEK"}
SetAttr(attrs, attr) == IF attr \in SupportedAttrs THEN attrs \cup {attr} ELSE attrs
IsAttrSet(attrs, attr) == attr \in SupportedAttrs /\ attr \in attrs

(* What __handle_inotify_events sets for an event.                         *)
AttrsOf(e) ==
  LET readahead == IF e.ra_page_count # 0 \/ e.ra_misses # 0
                     THEN SetAttr({}, "READAHEAD") ELSE {}
  IN  IF e.pos # e.last_cached_pos
        THEN SetAttr(readahead, "MULTISEEK") ELSE readahead

------------------------------------------------------------------------------
(* DinterrData and its typestates.                                         *)

RecordStates == {"INIT", "ATTRS", "POS", "COUNT", "PID", "RA_PAGE_COUNT",
                 "RA_CACHE_MISSES", "RA_LAST_CACHED_POS", "TIMESTAMP", "CHECKSUM"}

MyInitialStates == {"INIT"}
MyTransitions ==
  { Transition("INIT",               "ATTRS",              "add_attrs"),
    Transition("ATTRS",              "POS",                "add_pos"),
    Transition("POS",                "COUNT",              "add_count"),
    Transition("COUNT",              "PID",                "add_pid"),
    Transition("PID",                "RA_PAGE_COUNT",      "add_ra_page_count"),
    Transition("RA_PAGE_COUNT",      "RA_CACHE_MISSES",    "add_ra_cache_misses"),
    Transition("RA_CACHE_MISSES",    "RA_LAST_CACHED_POS", "add_ra_last_cache_pos"),
    Transition("RA_LAST_CACHED_POS", "TIMESTAMP",          "add_timestamp"),
    Transition("TIMESTAMP",          "CHECKSUM",           "calc_crc") }
MyValidQueries == {ValidQuery("CHECKSUM", "get_crc"), ValidQuery("CHECKSUM", "get_serdes")}

(* The fields of dinterr_data_t that a modifier assigns, from the event.   *)
Modified(function, e) ==
  CASE function = "add_attrs"             -> [attrs |-> AttrsOf(e)]
    [] function = "add_pos"               -> [pos |-> e.pos]
    [] function = "add_count"             -> [count |-> e.count]
    [] function = "add_pid"               -> [pid |-> e.pid]
    [] function = "add_ra_page_count"     -> [ra_page_count |-> e.ra_page_count]
    [] function = "add_ra_cache_misses"   -> [ra_cache_misses |-> e.ra_misses]
    [] function = "add_ra_last_cache_pos" -> [ra_last_cache_pos |-> e.last_cached_pos]
    [] function = "add_timestamp"         -> [sec |-> e.sec, usec |-> e.usec]

DataFields == {"attrs", "pos", "count", "pid", "ra_page_count", "ra_cache_misses",
               "ra_last_cache_pos", "sec", "usec"}

(* Bug: the read-ahead fields are fed when the attribute is clear.         *)
ChunksInverted(data) ==
  <<data.attrs, data.pos, data.count, data.pid>>
  \o (IF IsAttrSet(data.attrs, "READAHEAD")
        THEN <<>> ELSE <<data.ra_page_count, data.ra_cache_misses>>)
  \o <<data.ra_last_cache_pos, data.sec, data.usec>>

(* The chunks calc_crc feeds to crc32.                                     *)
Chunks(data) ==
  <<data.attrs, data.pos, data.count, data.pid>>
  \o (IF IsAttrSet(data.attrs, "READAHEAD")
        THEN <<data.ra_page_count, data.ra_cache_misses>> ELSE <<>>)
  \o <<data.ra_last_cache_pos, data.sec, data.usec>>

CalcCrc(data) == Crc32(Chunks(data))

(* An assignment to a member: the other members keep what they have.       *)
Assign(data, fields) ==
  [name \in DOMAIN data \cup DOMAIN fields |->
     IF name \in DOMAIN fields THEN fields[name] ELSE data[name]]

DinterrRecord == Wrapper("INIT", [name \in {} |-> 0])     \* nothing is assigned yet

------------------------------------------------------------------------------
(* The line dump_dinterr_data_toCsv prints, and the header line over it.   *)

CsvHeader == <<"ddtp_crc32", "ddtp_attrs", "pos", "count", "pid",
               "ra_page_count", "ra_cache_misses", "ra_last_cache_pos", "kernel_time">>

(* Bug: position and count change places.                                  *)
CsvLineSwapped(data) == <<data.crc, data.attrs, data.count, data.pos, data.pid,
                          data.ra_page_count, data.ra_cache_misses, data.ra_last_cache_pos,
                          <<data.sec, data.usec>>>>

CsvLine(data) == <<data.crc, data.attrs, data.pos, data.count, data.pid,
                   data.ra_page_count, data.ra_cache_misses, data.ra_last_cache_pos,
                   <<data.sec, data.usec>>>>
Column(line, name) == line[CHOOSE n \in DOMAIN CsvHeader : CsvHeader[n] = name]
=============================================================================
