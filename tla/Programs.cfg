\* Every pair of command lines; three events on the watched file.
SPECIFICATION ProgramsSpec
CONSTANTS
  Programs <- MCPrograms
  OptionsOf <- MCOptionsOf
  CommandLines <- MCCommandLines
  MaxInt = 32767
  Dotted = {"127.0.0.1", "10.0.0.1", "10.9.9.9"}
  Local = {"127.0.0.1", "10.0.0.1"}
  Loopback = "127.0.0.1"
  Ephemeral = {9000}
  Paths = {"data", "cut"}
  LongNames = {"long"}
  SetupFaults = {"socket", "bind", "connect", "open"}
  Accesses <- MCAccesses
  Leftovers <- MCLeftovers
  NoCrc <- MCNoCrc
  Crc32 <- MCCrc32
  MaxEvents = 3
  MaxTime = 1
INVARIANTS
  ProgramsTypeOK
  ValuesAsGiven
  NumbersRead
  ConnectsWhereTold
  WatchesNamedFile
  ErrorAsMet
  OnlyCopiesDropped
  CopiesAccounted
  StreamIsWhole
  LinesTellEvents
PROPERTIES
  ImplementsDelivery
CHECK_DEADLOCK FALSE
