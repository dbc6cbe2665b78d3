---------------------------- MODULE DdtpPayload ----------------------------
(***************************************************************************)
(* payload.cpp and serdes.cpp: the payload of netproto.h, what is written  *)
(* into its data and what is read out again.  The data is either a name or *)
(* a number; a number takes the first four chars, which are signed.        *)
(***************************************************************************)
EXTENDS Integers

CONSTANT LongNames        \* the names of more than 127 characters

NoName == ""

PayloadInit(type) == [type |-> type, name |-> NoName, chars |-> [i \in 0 .. 3 |-> 0]]

(* Bug: as much of the name as fits is copied.                             *)
Cut(name) == "cut"
FillCharDataCut(payload, name) ==
  [payload EXCEPT !.name = IF name \in LongNames THEN Cut(name) ELSE name]

(* A name that does not fit the data is not copied.                        *)
FillCharData(payload, name) ==
  IF name \in LongNames THEN payload ELSE [payload EXCEPT !.name = name]

(* A byte stored in a char, and a char read with & 0xFF.                   *)
Char(byte) == IF byte >= 128 THEN byte - 256 ELSE byte
Byte(char) == char % 256

FillShortData(payload, data) ==
  [payload EXCEPT !.chars = [@ EXCEPT ![0] = Char(data % 256),
                                      ![1] = Char((data \div 256) % 256)]]

(* An int put into a short.                                                *)
Short(int) == IF int % 65536 >= 32768 THEN (int % 65536) - 65536 ELSE int % 65536

(* Bug: the bytes are read in the order of the network.                    *)
ExtractShortDataSwapped(payload) ==
  Short(Byte(payload.chars[0]) * 256 + Byte(payload.chars[1]))

ExtractShortData(payload) == Short(Byte(payload.chars[1]) * 256 + Byte(payload.chars[0]))

FillULongData(payload, data) ==
  [payload EXCEPT !.chars = [i \in 0 .. 3 |->
     Char(CASE i = 0 -> data % 256
            [] i = 1 -> (data \div 256) % 256
            [] i = 2 -> (data \div 65536) % 256
            [] i = 3 -> (data \div 16777216) % 256)]]

(* The bytes are put together as an int, which a uLong of 64 bits extends. *)
TwoTo32(half) == 65536 * half * 2                 \* of 32768
Int32(bits) == IF bits >= 32768 * 65536 THEN bits - TwoTo32(32768) ELSE bits
ULong(int) == IF int < 0 THEN int + TwoTo32(32768) * TwoTo32(32768) ELSE int
ExtractULongData(payload) ==
  ULong(Int32(Byte(payload.chars[3]) * 16777216 + Byte(payload.chars[2]) * 65536
              + Byte(payload.chars[1]) * 256 + Byte(payload.chars[0])))

(* DinterrSerdesNetwork copies the payload byte by byte, on either side;   *)
(* both are little-endian machines.                                        *)
Serialized(payload) == payload
Deserialized(bytes) == bytes
=============================================================================
