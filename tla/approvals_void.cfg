SPECIFICATION Spec
CONSTANTS
  m1 = m1
  scale = scale
  cordon_node = cordon_node
  Admin = admin
  Members = {m1}
  Actions = {scale,cordon_node}
  Handled = {scale}
  Kinds <- ClickOnly
  SyncCap = 1
  MaxUpdates = 2
  MaxEvents = 0
  MaxCrashes = 0
INVARIANTS
  ApprovalsExecute
