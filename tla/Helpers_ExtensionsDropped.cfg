CONSTANTS
  Message <- MCMessage
  Chars <- MCChars
  Radix = 2
  DigitValue <- MCDigitValue
  LongMax = 3
  SizeChars = 3
  MaxRoom = 2
  Cert <- MCCert
  MaxSent = 4
  Anchor = {"root"}
  MaxChain = 3
  Day = 6
  Word = 70
  Field = 16
  UnixDays = 3
  GuardDays = 2
  EpochDay = 7
  SessKey = {"p", "q", "r"}
  SessMax = 2
  MaxHandshakes = 5
  Sample = {"s"}
  MaxProcesses = 3
  MaxPool = 3
  MaxDrawn = 4
  MaxLost = 1
  ta = ta
  tb = tb
  tc = tc
  Host = {h1, h2, h3}
  Ticket <- MCTicket
  Lifetime <- MCLifetime
  Slots = 2
  TicksPerSec = 3
  ClockSize = 8
  Boot = 5
  MaxTime = 6
  NoHost = NoHost
  NoTicket = NoTicket
  Miss = Miss
SPECIFICATION Spec
INVARIANT ExtensionsDropped
CHECK_DEADLOCK FALSE
