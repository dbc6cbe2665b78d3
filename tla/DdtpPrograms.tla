---------------------------- MODULE DdtpPrograms ----------------------------
(***************************************************************************)
(* ddtp-serve and ddtp-cli from their command lines to the lines of the    *)
(* csv file: DdtpStartup, and once the client reads records, the path of   *)
(* these from DdtpRecordPath.                                              *)
(***************************************************************************)
EXTENDS DdtpStartup, DdtpRecordPath

programVars == <<startVars, recordVars>>

ProgramsInit == StartInit /\ RecordInit

ProgramsNext ==
  \/ StartNext /\ UNCHANGED recordVars
  \/ pc["cli"] = "reading" /\ RecordNext /\ UNCHANGED startVars

ProgramsSpec == ProgramsInit /\ [][ProgramsNext]_programVars

------------------------------------------------------------------------------
ProgramsTypeOK == RecordTypeOK /\ StartTypeOK
==============================================================================
