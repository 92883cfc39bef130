CONSTANTS
  Players = {p1, p2}
  Countries = {c1}
  NoCountry = NoCountry
  Update = Update
  Shutdown = Shutdown
  LateLines = FALSE
SPECIFICATION FairSpec
INVARIANTS OneSessionPerCountry UpdateRulesCommands AbortsHold TriggerNotLost
PROPERTIES  UpdateRuns SessionsEnd
