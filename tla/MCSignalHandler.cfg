CONSTANTS
  Handlers = {h1, h2}
  Signals = {s1, s2, s3}
  Workers = {w1}
  Client = Client
  None = None
  MaxInstalled = 2
  MaxSent = 2
  InstallTwice = FALSE
  StartupWindow = FALSE
SPECIFICATION FairSpec
INVARIANTS
  TypeOK StoresIntoLiveHandler RestoredOnDestroy NewestListens
  CaughtWhileInstalled
PROPERTIES
  StopIsSeen SleepReturns
