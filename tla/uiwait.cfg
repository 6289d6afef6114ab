\* One wait and one find or tap at a time over two elements, of which one tells
\* no two dumps apart, and the keyboard.
\* A wait of three ticks polled every tick and dumps of at most one tick: a
\* wait has up to three dumps, dumps overlap, and cached states expire.
CONSTANTS
  w1 = w1
  f1 = f1
  button = button
  checkbox = checkbox
  keyboard = keyboard
  Waiters = {w1}
  Finders = {f1}
  Elements = {button, checkbox}
  Uncompared = {checkbox}
  Keyboard = keyboard
  Screens <- MCScreens
  Awaited = {button, keyboard}
  Timeout = 3
  PollInterval = 1
  StableCount = 2
  DumpMax = 1
  CacheTTL = 1
  RustExtension = FALSE
SPECIFICATION Spec
INVARIANTS
  WaitTypeOK
  StableIsExact
  SatisfiedIsReal
  LateByOneRound
  FindIsRecent
PROPERTIES
  EveryWaitEnds
