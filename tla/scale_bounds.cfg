SPECIFICATION FairSpec
CONSTANTS
  p1 = p1
  p2 = p2
  p3 = p3
  telegram = telegram
  slack = slack
  Pods = {p1}
  Chats = {telegram}
  Top = 3
  Min = 1
  Max = 2
  Initial = {0, 3}
  Loads = {"low", "high"}
  Cooldown = 1
  MaxTries = 2
  SampledAtStart = FALSE
  MaxLag = 1
  MaxFaults = 1
INVARIANTS
  TypeOK
  BoundsExplained
PROPERTIES
  ScaleReturns
