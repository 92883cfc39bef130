SPECIFICATION ThreadsSpec
CONSTANTS
  Threads = {w1, r1, r2, r3}
  Writers = {w1}
  PosixMain = Main
  PosixOthers = {u1}
  MaxClock = 1
  MaxBreaks = 1
  MaxWakeups = 1
  NtMain = Main
  NtSet = {Main, w1, r1}
  NtWriters = {w1}
  NtNone = None
  NtWakeupMax = 1
INVARIANTS PosixLockInOrder
PROPERTIES Contract WriterGetsLock PosixSleepsAsTold NtLockInOrder NtThreadsReturn
CHECK_DEADLOCK FALSE
