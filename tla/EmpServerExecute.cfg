CONSTANTS
  Players = {p1}
  Countries = {c1}
  NoCountry = NoCountry
  Update = Update
  Shutdown = Shutdown
  LateLines = FALSE
SPECIFICATION Spec
INVARIANT NobodyWaitsForHimself
