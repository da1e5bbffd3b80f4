SPECIFICATION FairSpec
CONSTANTS
  p1 = p1
  p2 = p2
  p3 = p3
  telegram = telegram
  slack = slack
  Pods = {p1, p2}
  Chats = {}
  Top = 3
  Min = 1
  Max = 2
  Initial = {1}
  Loads = {"low", "high"}
  Cooldown = 1
  MaxTries = 2
  SampledAtStart = FALSE
  MaxLag = 2
  MaxFaults = 0
PROPERTIES
  HighLoadScaled
