-------------------------- MODULE DdtpProgramsProofs --------------------------
(***************************************************************************)
(* The start of the programs and the path of the records, composed: what   *)
(* holds of either holds of both together.                                 *)
(***************************************************************************)
EXTENDS DdtpPrograms, DdtpStartupProofs, DdtpRecordProofs

LEMMA ComposedStart == ProgramsSpec => StartSpec
<1>1. ProgramsInit => StartInit
  BY DEF ProgramsInit
<1>2. [ProgramsNext]_programVars => [StartNext]_startVars
  BY DEF ProgramsNext, programVars
<1> QED BY <1>1, <1>2, PTL DEF ProgramsSpec, StartSpec

LEMMA ComposedRecords == ProgramsSpec => RecordSpec
<1>1. ProgramsInit => RecordInit
  BY DEF ProgramsInit
<1>2. [ProgramsNext]_programVars => [RecordNext]_recordVars
  BY DEF ProgramsNext, programVars
<1> QED BY <1>1, <1>2, PTL DEF ProgramsSpec, RecordSpec

(* The types of both parts.                                                *)
THEOREM ProgramTypes == ProgramsSpec => []ProgramsTypeOK
<1>1. RecordTypeOK /\ StartTypeOK => ProgramsTypeOK
  BY DEF ProgramsTypeOK
<1> QED BY <1>1, ComposedStart, ComposedRecords, StartTypes, RecordTypes, PTL

(* From the command lines to the csv file: whatever is typed and whatever  *)
(* fails, the client asks where it was told to, reads only of the file it  *)
(* named, every option has what was typed for it, and every line tells of  *)
(* events on the file that is watched.                                     *)
THEOREM ProgramsTellTheirFile ==
  ProgramsSpec => [](/\ ConnectsWhereTold /\ WatchesNamedFile
                     /\ ValuesAsGiven /\ LinesTellEvents)
BY ComposedStart, ComposedRecords, ClientsConnectWhereTold, NamedFileIsWatched,
   ValuesAreAsGiven, EveryLineTells, PTL
=============================================================================
