CONSTANTS
  Main = Main
  Select = Select
  Workers = {w1, w2}
  Keepers = {w1}
  None = None
  Fds = {0, 1}
  MaxTime = 2
  MaxCalls = 1
  MaxSignals = 2
SPECIFICATION FairSpec
INVARIANT NobodyLost
PROPERTIES SleepsEnd 
