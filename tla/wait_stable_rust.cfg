\* The same instance with the adroid_rust extension installed.
CONSTANTS
  w1 = w1
  f1 = f1
  button = button
  checkbox = checkbox
  keyboard = keyboard
  Waiters = {w1}
  Finders = {}
  Elements = {button, checkbox}
  Uncompared = {checkbox}
  Keyboard = keyboard
  Screens <- MCScreens
  Awaited = {button, keyboard}
  Timeout = 4
  PollInterval = 1
  StableCount = 2
  DumpMax = 1
  CacheTTL = 1
  RustExtension = TRUE
SPECIFICATION Spec
INVARIANTS
  TimeoutMeansUnstable
