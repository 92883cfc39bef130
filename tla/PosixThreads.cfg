SPECIFICATION PosixSpec
CONSTANTS
  PosixMain = Main
  PosixOthers = {u1}
  MaxClock = 1
  MaxBreaks = 1
  MaxWakeups = 1
INVARIANTS WakeupsArrive
