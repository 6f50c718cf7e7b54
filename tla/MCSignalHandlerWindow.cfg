CONSTANTS
  Handlers = {h1, h2}
  Signals = {s1, s2}
  Workers = {w1}
  Client = Client
  None = None
  MaxInstalled = 2
  MaxSent = 3
  InstallTwice = FALSE
  StartupWindow = TRUE
SYMMETRY Symmetry
SPECIFICATION Spec
INVARIANTS
  StoresIntoLiveHandler
