SPECIFICATION FairSpec
CONSTANTS
  p1 = p1
  p2 = p2
  p3 = p3
  telegram = telegram
  slack = slack
  Pods = {p1, p2, p3}
  Chats = {}
  Top = 3
  Min = 1
  Max = 3
  Initial = {1}
  Loads = {"low", "high"}
  Cooldown = 1
  MaxTries = 2
  SampledAtStart = TRUE
  MaxLag = 2
  MaxFaults = 1
PROPERTIES
  HighLoadScaled
