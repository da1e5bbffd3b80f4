SPECIFICATION Spec
CONSTANTS
  m1 = m1
  scale = scale
  cordon_node = cordon_node
  Admin = admin
  Members = {m1}
  Actions = {scale}
  Handled = {scale}
  Kinds <- TeamKinds
  SyncCap = 1
  MaxUpdates = 3
  MaxEvents = 1
  MaxCrashes = 1
INVARIANTS
  TypeOK
  ExecutionAuthorized
  AtMostOnce
  OneRunPerClick
  DeliveryOrder
  ReportsFifo
  ReportIffSucceeded
  AlreadyMeansSettled
PROPERTIES
  LedgerSpec
