SPECIFICATION FairSpec
CONSTANTS
  m1 = m1
  scale = scale
  cordon_node = cordon_node
  Admin = admin
  Members = {}
  Actions = {scale,cordon_node}
  Handled = {scale}
  Kinds <- AskKinds
  SyncCap = 1
  MaxUpdates = 2
  MaxEvents = 2
  MaxCrashes = 0
PROPERTIES
  UpdatesHandled
  ApprovalsRelayed
