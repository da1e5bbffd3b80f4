SPECIFICATION FairSpec
CONSTANTS
  p1 = p1
  p2 = p2
  q1 = q1
  q2 = q2
  Pods = {p1,p2}
  Strangers = {q1,q2}
  Length <- NameLengths
  InitLimits <- OwnerLimits
  Base = 1
  Cap = 8
  Cooldown = 2
  Quiet = 1
  MaxClock = 3
  MaxFaults = 1
  MaxCrashes = 1
  MaxClicks = 2
INVARIANTS
  TypeOK
  GuardrailHolds
  OffersSpaced
CHECK_DEADLOCK FALSE
PROPERTIES
  OomAnswered
