---------------------------- MODULE MCDdtpSystem ----------------------------
(* Instances of DdtpSystem for TLC: four records of which r2 and r3 have   *)
(* the same crc32 and r0 has the crc 0, or the first two of them.          *)
EXTENDS DdtpSystem, TLC

CONSTANTS r0, r1, r2, r3

MCRecords == {r0, r1, r2, r3}
MCCrcs == {0, 1, 2}
MCCrcOf == [r \in MCRecords |-> IF r = r0 THEN 0 ELSE IF r = r1 THEN 1 ELSE 2]

(* Nothing tells r2 and r3 apart.                                          *)
SameCrc == Permutations({r2, r3})

FewRecords == {r0, r1}
FewCrcs == {0, 1}
FewCrcOf == [r \in FewRecords |-> IF r = r0 THEN 0 ELSE 1]
=============================================================================
