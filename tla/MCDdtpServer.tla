---------------------------- MODULE MCDdtpServer ----------------------------
(* Instances of DdtpServer for TLC: three records of which two, r2 and r3, *)
(* have the same crc32.                                                    *)
EXTENDS DdtpServer

CONSTANTS r1, r2, r3

MCRecords == {r1, r2, r3}
MCCrcs == {1, 2}
MCCrcOf == [r \in MCRecords |-> IF r = r1 THEN 1 ELSE 2]

(* An instance without two records of one crc.                             *)
TwoRecords == {r1, r2}
TwoCrcOf == [r \in TwoRecords |-> IF r = r1 THEN 1 ELSE 2]
=============================================================================
