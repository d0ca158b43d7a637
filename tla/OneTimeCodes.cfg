SPECIFICATION Spec
CONSTANTS
  Calls = {c1, c2}
  Addrs = {a1, a2}
  NoAddr = NoAddr
  BatchSize = 2
  MaxMade = 2
  MaxLinks = 2
  MaxStamp = 1
  MaxTime = 2
  PhoneTokenTTL = 1
  PhoneTokenMaxAttempts = 2
  Lifespan = 1
SYMMETRY Symmetry
INVARIANTS TypeOK CodesWorkOnce GuessesAreBounded ConfirmedAddressWasProven
CHECK_DEADLOCK FALSE
