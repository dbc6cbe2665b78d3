\* The two read-ahead columns of the csv file.
SPECIFICATION ProgramsSpec
CONSTANTS
  Programs <- MCPrograms
  OptionsOf <- MCOptionsOf
  CommandLines <- MCCommandLines
  MaxInt = 32767
  Dotted = {"127.0.0.1", "10.0.0.1", "10.9.9.9"}
  Local = {"127.0.0.1", "10.0.0.1"}
  Loopback = "127.0.0.1"
  Ephemeral = {9000}
  Paths = {"data", "cut"}
  LongNames = {"long"}
  SetupFaults = {"socket", "bind", "connect", "open"}
  Accesses <- MCAccesses
  Leftovers <- MCLeftovers
  NoCrc <- MCNoCrc
  Crc32 <- MCCrc32
  MaxEvents = 1
  MaxTime = 0
INVARIANT ReadaheadColumns
CHECK_DEADLOCK FALSE
